------------------------- MODULE SendPipelineProofs ------------------------
(***************************************************************************)
(* Proofs about SendPipeline, for any number of deliveries, processes and  *)
(* workers, any batch size and any number of attempts, whatever operators  *)
(* patch, and with every fault there is.                                   *)
(***************************************************************************)
EXTENDS SendPipeline, SequenceTheorems, FiniteSetTheorems, TLAPS

-----------------------------------------------------------------------------
(* What the statements make of a row.                                      *)

\* Every statement takes a row to a row.
LEMMA RowStatements ==
  ASSUME NEW r \in Row
  PROVE  /\ AbsentRow \in Row /\ InsertedRow \in Row
         /\ ClaimedRow(r) \in Row
         /\ FinalizeOkRow(r) \in Row /\ FinalizeFailedRow(r) \in Row
         /\ \A j \in Nat : StartAsyncRow(r, j) \in Row
         /\ \A s : UpdateAsyncRow(r, s) \in Row
         /\ \A s \in Statuses, due \in BOOLEAN : PatchedRow(r, s, due) \in Row
         /\ DeletedRow(r) \in Row
         /\ [r EXCEPT !.due = TRUE] \in Row
         /\ [r EXCEPT !.status = "ready"] \in Row
<1> USE MaxAttemptsAssumption DEF Row, Statuses, AbsentRow, Update
<1>1. AbsentRow \in Row /\ InsertedRow \in Row
  BY DEF InsertedRow
<1>2. ClaimedRow(r) \in Row
  BY DEF ClaimedRow
<1>3. FinalizeOkRow(r) \in Row
  BY DEF FinalizeOkRow
<1>4. FinalizeFailedRow(r) \in Row
  <2> DEFINE last == r.attempts + 1 >= MaxAttempts
             New(b) == [r EXCEPT !.attempts = r.attempts + 1,
                                 !.status = IF b THEN "failed" ELSE "ready",
                                 !.due = b]
  <2>1. last = TRUE \/ last = FALSE
    OBVIOUS
  <2>2. r.attempts + 1 \in Nat
    OBVIOUS
  <2>4. \A n \in Nat, s \in Statuses, b \in BOOLEAN :
          [r EXCEPT !.attempts = n, !.status = s, !.due = b] \in Row
    OBVIOUS
  <2>5. New(TRUE) \in Row
    BY <2>2, <2>4
  <2>6. New(FALSE) \in Row
    BY <2>2, <2>4
  <2>3. FinalizeFailedRow(r) = Update(r, New(last))
    BY DEF FinalizeFailedRow
  <2> HIDE DEF last, New
  <2> QED
    BY <2>1, <2>3, <2>5, <2>6
<1>5. \A j \in Nat : StartAsyncRow(r, j) \in Row
  BY DEF StartAsyncRow
<1>6. \A s : UpdateAsyncRow(r, s) \in Row
  BY DEF UpdateAsyncRow
<1>7. \A s \in Statuses, due \in BOOLEAN : PatchedRow(r, s, due) \in Row
  BY DEF PatchedRow
<1>8. DeletedRow(r) \in Row
  BY DEF DeletedRow
<1>9. [r EXCEPT !.due = TRUE] \in Row /\ [r EXCEPT !.status = "ready"] \in Row
  OBVIOUS
<1> QED
  BY <1>1, <1>2, <1>3, <1>4, <1>5, <1>6, <1>7, <1>8, <1>9

\* A claim takes a table to a table.
LEMMA ClaimType ==
  ASSUME rows \in [Deliveries -> Row], NEW S \in SUBSET Deliveries
  PROVE  Claimed(S) \in [Deliveries -> Row]
BY RowStatements DEF Claimed

\* So does what a worker records.
LEMMA OutcomeType ==
  ASSUME TypeOK, NEW w \in Workers, held[w] \in Deliveries
  PROVE  Outcome(w) \in Row
BY RowStatements DEF TypeOK, Outcome

\* And the end of a claim that may have been rolled back.
LEMMA ClaimEndsType ==
  ASSUME TypeOK, NEW p \in Procs, ClaimEnds(p)
  PROVE  /\ rows' \in [Deliveries -> Row] /\ undone' \in [Deliveries -> Nat]
         /\ open' \in [Procs -> SUBSET Deliveries]
         /\ batch' \in [Procs -> SUBSET Deliveries]
<1>1. /\ open' = [open EXCEPT ![p] = {}]
      /\ batch' = [batch EXCEPT ![p] = {}]
  BY DEF ClaimEnds
<1>2. CASE RolledBack(p)
  <2>1. ASSUME NEW d \in Deliveries
        PROVE  rows[d] \in Row /\ [rows[d] EXCEPT !.status = "ready"] \in Row
    <3>1. rows[d] \in Row
      BY DEF TypeOK
    <3> QED
      BY <3>1, RowStatements
  <2>2. rows' \in [Deliveries -> Row]
    BY <1>2, <2>1 DEF RolledBack
  <2>3. undone' \in [Deliveries -> Nat]
    BY <1>2 DEF RolledBack, TypeOK
  <2> QED
    BY <1>1, <2>2, <2>3 DEF TypeOK
<1>3. CASE UNCHANGED <<rows, undone>>
  BY <1>1, <1>3 DEF TypeOK
<1> QED
  BY <1>2, <1>3 DEF ClaimEnds

-----------------------------------------------------------------------------
(* Type correctness.                                                       *)

LEMMA InitType == Init => TypeOK
BY RowStatements, SendAssumption DEF Init, TypeOK, AllReplies, Row, AbsentRow, Statuses

\* What a step of the table does, to one delivery.
TableStep(d) ==
  \/ Insert(d) \/ BecomesDue(d) \/ ToggleSuspended(d) \/ Delete(d)
  \/ \E s \in Statuses, due \in BOOLEAN : Patch(d, s, due)
  \/ PollClaimed(d) \/ PollsEnd(d)
  \/ \E s \in Answers(d) : Polled(d, s)

LEMMA TableSteps == Table => \E d \in Deliveries : TableStep(d)
BY DEF Table, TableStep

\* The steps of the table keep the types.
LEMMA TableType == TypeOK /\ Table => TypeOK'
<1> SUFFICES ASSUME TypeOK, Table PROVE TypeOK'
  OBVIOUS
<1> USE DEF TypeOK, dbVars, asked, operators, procVars, workerVars, history
<1> PICK d \in Deliveries : TableStep(d)
  BY TableSteps
<1>1. CASE Insert(d)
  BY <1>1, RowStatements DEF Insert
<1>2. CASE BecomesDue(d)
  BY <1>2, RowStatements DEF BecomesDue
<1>3. CASE ToggleSuspended(d)
  BY <1>3 DEF ToggleSuspended
<1>4. CASE Delete(d)
  BY <1>4, RowStatements DEF Delete
<1>5. CASE \E s \in Statuses, due \in BOOLEAN : Patch(d, s, due)
  <2> PICK s \in Statuses, due \in BOOLEAN : Patch(d, s, due)
    BY <1>5
  <2>1. PatchedRow(rows[d], s, due) \in Row
    BY RowStatements
  <2>2. meddled' \subseteq Deliveries
    BY DEF Patch
  <2> QED
    BY <2>1, <2>2 DEF Patch
<1>6. CASE \E s \in Answers(d) : Polled(d, s)
  <2> PICK s \in Answers(d) : Polled(d, s)
    BY <1>6
  <2>1. UpdateAsyncRow(rows[d], s) \in Row
    BY RowStatements
  <2>2. verdict' \in [Deliveries -> {"none", "COMPLETED", "FAILED"}]
    BY DEF Polled, Answers
  <2> QED
    BY <2>1, <2>2 DEF Polled
<1>7. CASE PollClaimed(d) \/ PollsEnd(d)
  BY <1>7 DEF PollClaimed, PollsEnd
<1> QED
  BY <1>1, <1>2, <1>3, <1>4, <1>5, <1>6, <1>7 DEF TableStep

\* The steps of a dispatcher and of its process keep the types.
LEMMA ProcessType ==
  ASSUME TypeOK, NEW p \in Procs, Dispatcher(p) \/ Operation(p)
  PROVE  TypeOK'
<1> USE DEF TypeOK, dbVars, asked, operators, procVars, workerVars, history
<1>0. \A S \in Picks : S \subseteq Deliveries /\ Claimed(S) \in [Deliveries -> Row]
  BY ClaimType DEF Picks, Claimable
<1>1. CASE ClaimDeliveries(p)
  BY <1>0, <1>1 DEF ClaimDeliveries
<1>2. CASE ClaimLost(p)
  BY <1>0, <1>2 DEF ClaimLost
<1>3. CASE \E d \in Deliveries : Dispatch(p, d)
  BY <1>3 DEF Dispatch
<1>4. CASE \E d \in Deliveries : ScanFails(p, d)
  BY <1>4 DEF ScanFails
<1>5. CASE AbandonBatch(p)
  <2>1. ClaimEnds(p)
    BY <1>5 DEF AbandonBatch
  <2> QED
    BY <1>5, <2>1, ClaimEndsType DEF AbandonBatch
<1>6. CASE Exit(p)
  BY <1>6 DEF Exit, TeamOf
<1>7. CASE Signal(p)
  BY <1>0, <1>7 DEF Signal
<1>8. CASE Crash(p)
  <2>1. ClaimEnds(p)
    BY <1>8 DEF Crash
  <2> QED
    BY <1>8, <2>1, ClaimEndsType DEF Crash, AllReplies
<1>9. CASE Start(p)
  BY <1>9, SendAssumption DEF Start
<1>10. CASE Commit(p)
  BY <1>10 DEF Commit
<1> QED
  BY <1>1, <1>2, <1>3, <1>4, <1>5, <1>6, <1>7, <1>8, <1>9, <1>10
     DEF Dispatcher, Operation

\* The steps of a send worker keep the types.
LEMMA WorkerType ==
  ASSUME TypeOK, NEW w \in Workers, Worker(w)
  PROVE  TypeOK'
<1> USE DEF TypeOK, dbVars, asked, operators, procVars, workerVars, history, AllReplies
<1>0. Owner[w] \in Procs /\ NoDelivery \notin Deliveries
  BY SendAssumption
<1>1. CASE Receive(w)
  BY <1>0, <1>1 DEF Receive
<1>2. CASE WorkerExit(w)
  BY <1>0, <1>2 DEF WorkerExit
<1>3. CASE LimiterFails(w)
  BY <1>0, <1>3 DEF LimiterFails, Released
<1>4. CASE SendRequest(w)
  <2>1. held[w] \in Deliveries
    BY <1>0, <1>4 DEF SendRequest
  <2>2. sends[held[w]] \in Nat
    BY <2>1
  <2>3. sends[held[w]] + 1 \in Nat
    BY <2>2
  <2> QED
    BY <1>0, <1>4, <2>1, <2>3 DEF SendRequest
<1>5. CASE SendCancelled(w)
  BY <1>0, <1>5 DEF SendCancelled
<1>6. CASE \E k \in AllReplies : Reply(w, k)
  <2> PICK k \in AllReplies : Reply(w, k)
    BY <1>6
  <2>1. held[w] \in Deliveries /\ k # "none"
    BY <1>0 DEF Reply, Replies
  <2>2. acked' \subseteq Deliveries
    BY <2>1 DEF Reply
  <2> QED
    BY <1>0, <2>1, <2>2 DEF Reply
<1>7. CASE Record(w)
  <2>1. held[w] \in Deliveries
    BY <1>7 DEF Record
  <2>2. Outcome(w) \in Row
    BY <2>1, OutcomeType
  <2>3. verdict' \in [Deliveries -> {"none", "COMPLETED", "FAILED"}]
    BY <1>7 DEF Record
  <2> QED
    BY <1>0, <1>7, <2>1, <2>2, <2>3 DEF Record, Released
<1>8. CASE RecordFails(w)
  BY <1>0, <1>8 DEF RecordFails, Released
<1> QED
  BY <1>1, <1>2, <1>3, <1>4, <1>5, <1>6, <1>7, <1>8 DEF Worker

LEMMA TypeStep ==
  ASSUME TypeOK, [Next]_vars
  PROVE  TypeOK'
<1>1. CASE Next
  BY <1>1, TableType, ProcessType, WorkerType DEF Next
<1>2. CASE UNCHANGED vars
  BY <1>2 DEF TypeOK, vars, dbVars, asked, operators, procVars, workerVars, history
<1> QED
  BY <1>1, <1>2

\* Every reachable state has the types the model declares: no row, channel
\* or worker is ever left half written.
THEOREM TypeCorrect == Spec => []TypeOK
<1>1. TypeOK /\ [Next]_vars => TypeOK'
  BY TypeStep
<1> QED
  BY InitType, <1>1, PTL DEF Spec

-----------------------------------------------------------------------------
(* Counting the hands that have a delivery.                                *)

Limited(d) == {w \in Holders(d) : pc[w] = "limit"}
Busy(d) == {w \in Holders(d) : pc[w] \in {"http", "db"}}

\* The hands that will still send it, and those that did, or gave up.
Unsent(d) == Cardinality(Fetchers(d)) + Cardinality(Places(d)) + Cardinality(Limited(d))
Underway(d) == Cardinality(Busy(d))

\* A subset, one more element, one less.
LEMMA Counting ==
  ASSUME NEW S, IsFiniteSet(S), NEW T, NEW x
  PROVE  /\ Cardinality(S) \in Nat
         /\ T \subseteq S => Cardinality(T) \in Nat /\ Cardinality(T) <= Cardinality(S)
         /\ T \subseteq S \cup {x} => Cardinality(T) \in Nat /\ Cardinality(T) <= Cardinality(S) + 1
         /\ x \in S /\ T \subseteq S \ {x}
              => Cardinality(T) \in Nat /\ Cardinality(T) + 1 <= Cardinality(S)
<1>1. Cardinality(S) \in Nat
  BY FS_CardinalityType
<1>2. ASSUME NEW U, IsFiniteSet(U), T \subseteq U
      PROVE  Cardinality(T) \in Nat /\ Cardinality(U) \in Nat /\ Cardinality(T) <= Cardinality(U)
  <2>1. IsFiniteSet(T) /\ Cardinality(T) <= Cardinality(U)
    BY <1>2, FS_Subset
  <2> QED
    BY <1>2, <2>1, FS_CardinalityType
<1>3. ASSUME T \subseteq S \cup {x}
      PROVE  Cardinality(T) \in Nat /\ Cardinality(T) <= Cardinality(S) + 1
  <2>1. /\ IsFiniteSet(S \cup {x})
        /\ Cardinality(S \cup {x}) = IF x \in S THEN Cardinality(S) ELSE Cardinality(S) + 1
    BY FS_AddElement
  <2>2. Cardinality(T) \in Nat /\ Cardinality(T) <= Cardinality(S \cup {x})
    BY <1>2, <1>3, <2>1
  <2> QED
    BY <1>1, <2>1, <2>2
<1>4. ASSUME x \in S, T \subseteq S \ {x}
      PROVE  Cardinality(T) \in Nat /\ Cardinality(T) + 1 <= Cardinality(S)
  <2>1. IsFiniteSet(S \ {x}) /\ Cardinality(S \ {x}) = Cardinality(S) - 1
    BY <1>4, FS_RemoveElement
  <2>2. Cardinality(T) \in Nat /\ Cardinality(T) <= Cardinality(S \ {x})
    BY <1>2, <1>4, <2>1
  <2> QED
    BY <1>1, <2>1, <2>2
<1> QED
  BY <1>1, <1>2, <1>3, <1>4

\* The shape of a channel: its places, and what Append and Tail do to them.
LEMMA ChannelAppend ==
  ASSUME NEW c \in Seq(Deliveries), NEW d \in Deliveries
  PROVE  /\ DOMAIN c = 1 .. Len(c)
         /\ Len(c) \in Nat
         /\ DOMAIN Append(c, d) = 1 .. Len(c) + 1
         /\ \A i \in 1 .. Len(c) : Append(c, d)[i] = c[i]
         /\ Append(c, d)[Len(c) + 1] = d
BY AppendProperties, LenProperties

LEMMA ChannelTail ==
  ASSUME NEW c \in Seq(Deliveries), c # <<>>
  PROVE  /\ DOMAIN c = 1 .. Len(c)
         /\ Len(c) \in Nat \ {0}
         /\ DOMAIN Tail(c) = 1 .. Len(c) - 1
         /\ \A i \in 1 .. Len(c) - 1 : Tail(c)[i] = c[i + 1]
         /\ Head(c) = c[1]
         /\ Head(c) \in Deliveries
BY HeadTailProperties, LenProperties, EmptySeq

\* However many processes there are, each hand can be counted.
LEMMA FiniteHands ==
  ASSUME TypeOK, NEW d \in Deliveries
  PROVE  /\ IsFiniteSet(Fetchers(d)) /\ IsFiniteSet(Places(d))
         /\ IsFiniteSet(Holders(d)) /\ IsFiniteSet(Limited(d)) /\ IsFiniteSet(Busy(d))
<1>1. IsFiniteSet(Fetchers(d))
  BY SendAssumption, FS_Subset DEF Fetchers
<1>2. IsFiniteSet(Holders(d))
  BY SendAssumption, FS_Subset DEF Holders
<1>3. IsFiniteSet(Limited(d)) /\ IsFiniteSet(Busy(d))
  BY <1>2, FS_Subset DEF Limited, Busy
<1>4. IsFiniteSet(Places(d))
  <2> DEFINE At0(p) == {j \in DOMAIN sendCh[p] : sendCh[p][j] = d}
             f == [p \in Procs |-> {<<p, i>> : i \in At0(p)}]
             S == {{<<p, i>> : i \in At0(p)} : p \in Procs}
  <2>1. IsFiniteSet(S)
    <3>1. f \in Surjection(Procs, S)
      BY DEF Surjection
    <3> QED
      BY <3>1, SendAssumption, FS_Surjection
  <2>2. ASSUME NEW p \in Procs
        PROVE  IsFiniteSet(f[p])
    <3> DEFINE g == [i \in At0(p) |-> <<p, i>>]
    <3>1. sendCh[p] \in Seq(Deliveries)
      BY DEF TypeOK
    <3>2. At0(p) \subseteq 1 .. Len(sendCh[p]) /\ Len(sendCh[p]) \in Nat
      BY <3>1, LenProperties
    <3>3. IsFiniteSet(At0(p))
      BY <3>2, FS_Interval, FS_Subset
    <3>4. g \in Surjection(At0(p), f[p])
      BY DEF Surjection
    <3> QED
      BY <3>3, <3>4, FS_Surjection
  <2>3. \A T \in S : IsFiniteSet(T)
    BY <2>2
  <2>4. IsFiniteSet(UNION S)
    BY <2>1, <2>3, FS_UNION
  <2> QED
    BY <2>4 DEF Places
<1> QED
  BY <1>1, <1>2, <1>3, <1>4

LEMMA HandCounts ==
  ASSUME TypeOK, NEW d \in Deliveries
  PROVE  /\ Unsent(d) \in Nat /\ Underway(d) \in Nat
         /\ Hands(d) = Unsent(d) + Underway(d)
         /\ InHand(d) => Unsent(d) + Underway(d) > 0
<1>1. /\ IsFiniteSet(Fetchers(d)) /\ IsFiniteSet(Places(d))
      /\ IsFiniteSet(Holders(d)) /\ IsFiniteSet(Limited(d)) /\ IsFiniteSet(Busy(d))
  BY FiniteHands
<1>2. /\ Cardinality(Fetchers(d)) \in Nat /\ Cardinality(Places(d)) \in Nat
      /\ Cardinality(Limited(d)) \in Nat /\ Cardinality(Busy(d)) \in Nat
  BY <1>1, FS_CardinalityType
<1>3. Holders(d) = Limited(d) \cup Busy(d) /\ Limited(d) \cap Busy(d) = {}
  BY SendAssumption DEF TypeOK, Holders, Limited, Busy
<1>4. Cardinality(Holders(d)) = Cardinality(Limited(d)) + Cardinality(Busy(d))
  <2>1. Cardinality(Limited(d) \cup Busy(d))
          = Cardinality(Limited(d)) + Cardinality(Busy(d)) - Cardinality(Limited(d) \cap Busy(d))
    BY <1>1, FS_Union
  <2>2. Cardinality(Limited(d) \cap Busy(d)) = 0
    BY <1>3, FS_EmptySet
  <2> QED
    BY <1>2, <1>3, <2>1, <2>2
<1>5. /\ Fetchers(d) # {} => Cardinality(Fetchers(d)) # 0
      /\ Places(d) # {} => Cardinality(Places(d)) # 0
      /\ Holders(d) # {} => Cardinality(Holders(d)) # 0
  BY <1>1, FS_EmptySet
<1> QED
  BY <1>2, <1>4, <1>5 DEF Unsent, Underway, Hands, InHand

Fewer(d) ==
  /\ Unsent(d)' \in Nat /\ Unsent(d)' <= Unsent(d)
  /\ Underway(d)' \in Nat /\ Underway(d)' <= Underway(d)

\* A step that gives the delivery to nobody.
LEMMA HandsShrink ==
  ASSUME TypeOK, NEW d \in Deliveries,
         Fetchers(d)' \subseteq Fetchers(d), Places(d)' \subseteq Places(d),
         Limited(d)' \subseteq Limited(d), Busy(d)' \subseteq Busy(d)
  PROVE  Fewer(d)
<1>1. /\ IsFiniteSet(Fetchers(d)) /\ IsFiniteSet(Places(d))
      /\ IsFiniteSet(Limited(d)) /\ IsFiniteSet(Busy(d))
  BY FiniteHands
<1>2. /\ Cardinality(Fetchers(d)') \in Nat /\ Cardinality(Fetchers(d)) \in Nat
      /\ Cardinality(Fetchers(d)') <= Cardinality(Fetchers(d))
  BY <1>1, Counting
<1>3. /\ Cardinality(Places(d)') \in Nat /\ Cardinality(Places(d)) \in Nat
      /\ Cardinality(Places(d)') <= Cardinality(Places(d))
  BY <1>1, Counting
<1>4. /\ Cardinality(Limited(d)') \in Nat /\ Cardinality(Limited(d)) \in Nat
      /\ Cardinality(Limited(d)') <= Cardinality(Limited(d))
  BY <1>1, Counting
<1>5. /\ Cardinality(Busy(d)') \in Nat /\ Cardinality(Busy(d)) \in Nat
      /\ Cardinality(Busy(d)') <= Cardinality(Busy(d))
  BY <1>1, Counting
<1> QED
  BY <1>2, <1>3, <1>4, <1>5 DEF Fewer, Unsent, Underway

\* What leaves the sets of hands alone.
LEMMA HandsKept ==
  ASSUME TypeOK, NEW d \in Deliveries, UNCHANGED <<batch, sendCh, pc, held>>
  PROVE  Fewer(d)
<1>1. /\ Fetchers(d)' \subseteq Fetchers(d) /\ Places(d)' \subseteq Places(d)
      /\ Limited(d)' \subseteq Limited(d) /\ Busy(d)' \subseteq Busy(d)
  BY DEF Fetchers, Places, Holders, Limited, Busy
<1> QED
  BY <1>1, HandsShrink

-----------------------------------------------------------------------------
(* The rows of a claim that has not committed.                             *)

\* Nobody else touches them: they are claimed, by one process.
OpenInv ==
  /\ \A p \in Procs, q \in Procs : p # q => open[p] \cap open[q] = {}
  /\ \A p \in Procs : \A d \in open[p] : rows[d].status = "processing"

\* A step that opens no claim and leaves the status of locked rows.
LEMMA OpenKept ==
  ASSUME TypeOK, OpenInv, \A p \in Procs : open'[p] \subseteq open[p],
         \A d \in Deliveries : (\E p \in Procs : d \in open'[p])
                                 => rows'[d].status = rows[d].status
  PROVE  OpenInv'
BY DEF OpenInv, TypeOK

\* A claim takes ready rows, which no claim has open.
LEMMA ClaimOpens ==
  ASSUME TypeOK, OpenInv, NEW S \in Picks
  PROVE  /\ S \subseteq Deliveries
         /\ \A d \in S : /\ rows[d].status = "ready" /\ ~Locked(d)
                         /\ Claimed(S)[d].status = "processing"
                         /\ Claimed(S)[d].attempts = rows[d].attempts
         /\ \A d \in Deliveries \ S : Claimed(S)[d] = rows[d]
<1>1. S \subseteq Deliveries /\ \A d \in S : rows[d].status = "ready"
  BY DEF Picks, Claimable, Ready
<1>2. \A d \in S : ~Locked(d)
  BY <1>1 DEF OpenInv, Locked
<1>3. ASSUME NEW d \in S
      PROVE  Claimed(S)[d].status = "processing" /\ Claimed(S)[d].attempts = rows[d].attempts
  <2>1. rows[d] \in Row /\ Claimed(S)[d] = ClaimedRow(rows[d])
    BY <1>1 DEF TypeOK, Claimed
  <2> QED
    BY <2>1 DEF ClaimedRow, Row
<1> QED
  BY <1>1, <1>2, <1>3 DEF Claimed

LEMMA TableOpen ==
  ASSUME TypeOK, OpenInv, Table
  PROVE  OpenInv'
<1> USE DEF procVars
<1>1. PICK d \in Deliveries : TableStep(d)
  BY TableSteps
<1>2. open' = open
  BY <1>1 DEF TableStep, Insert, BecomesDue, ToggleSuspended, Patch, Delete,
     PollClaimed, Polled, PollsEnd
<1>3. \A e \in Deliveries \ {d} : rows'[e] = rows[e]
  BY <1>1 DEF TypeOK, TableStep, Insert, BecomesDue, ToggleSuspended, Patch, Delete,
     PollClaimed, Polled, PollsEnd
<1>4. Locked(d) => rows'[d].status = rows[d].status
  <2>1. CASE BecomesDue(d)
    BY <2>1 DEF BecomesDue, TypeOK, Row
  <2>2. CASE Insert(d)
    BY <2>2 DEF Insert, OpenInv, Locked
  <2> QED
    BY <1>1, <2>1, <2>2 DEF TableStep, ToggleSuspended, Patch, Delete,
       PollClaimed, Polled, PollsEnd
<1> QED
  BY <1>2, <1>3, <1>4, OpenKept DEF Locked

LEMMA ProcessOpen ==
  ASSUME TypeOK, OpenInv, NEW p \in Procs, Dispatcher(p) \/ Operation(p)
  PROVE  OpenInv'
<1> USE DEF procVars, dbVars
<1>1. CASE ClaimDeliveries(p)
  <2>1. PICK S \in Picks : rows' = Claimed(S) /\ open' = [open EXCEPT ![p] = S]
    BY <1>1 DEF ClaimDeliveries
  <2>2. /\ open'[p] = S /\ \A q \in Procs \ {p} : open'[q] = open[q]
        /\ \A q \in Procs : open[q] \subseteq Deliveries
    BY <2>1 DEF TypeOK
  <2>3. \A q \in Procs : S \cap open[q] = {}
    BY ClaimOpens DEF Locked
  <2>4. \A q \in Procs : \A d \in open'[q] : rows'[d].status = "processing"
    BY <2>1, <2>2, <2>3, ClaimOpens DEF OpenInv
  <2> QED
    BY <2>2, <2>3, <2>4 DEF OpenInv
<1>2. CASE ClaimLost(p) \/ Signal(p)
  <2>1. open' = open
    BY <1>2 DEF ClaimLost, Signal
  <2>2. rows' = rows \/ \E S \in Picks : rows' = Claimed(S)
    BY <1>2 DEF ClaimLost, Signal
  <2>3. ASSUME NEW d \in Deliveries, NEW q \in Procs, d \in open'[q]
        PROVE  rows'[d].status = rows[d].status
    <3>1. \A S \in Picks : d \notin S
      BY <2>1, <2>3, ClaimOpens DEF Locked
    <3> QED
      BY <2>2, <3>1, ClaimOpens
  <2> QED
    BY <2>1, <2>3, OpenKept
<1>3. CASE ClaimEnds(p)
  <2>1. open'[p] = {} /\ \A q \in Procs \ {p} : open'[q] = open[q]
    BY <1>3 DEF ClaimEnds, TypeOK
  <2>2. ASSUME NEW d \in Deliveries, NEW q \in Procs, d \in open'[q]
        PROVE  rows'[d].status = rows[d].status
    <3>1. d \notin open[p]
      BY <2>1, <2>2 DEF OpenInv
    <3> QED
      BY <1>3, <3>1 DEF ClaimEnds, RolledBack
  <2> QED
    BY <2>1, <2>2, OpenKept
<1>4. CASE \/ Commit(p) \/ Exit(p) \/ Start(p)
           \/ \E d \in Deliveries : Dispatch(p, d) \/ ScanFails(p, d)
  <2>1. rows' = rows /\ \A q \in Procs : open'[q] \subseteq open[q]
    BY <1>4 DEF Commit, Exit, Start, Dispatch, ScanFails, TypeOK
  <2> QED
    BY <2>1, OpenKept
<1> QED
  BY <1>1, <1>2, <1>3, <1>4 DEF Dispatcher, Operation, AbandonBatch, Crash

LEMMA WorkerOpen ==
  ASSUME TypeOK, OpenInv, NEW w \in Workers, Worker(w)
  PROVE  OpenInv'
<1> USE DEF procVars, dbVars
<1>1. open' = open
  BY DEF Worker, Receive, WorkerExit, LimiterFails, SendRequest, SendCancelled,
     Reply, Record, RecordFails
<1>2. ASSUME NEW d \in Deliveries, Locked(d)
      PROVE  rows'[d] = rows[d]
  <2>1. CASE Record(w)
    BY <1>2, <2>1 DEF Record, TypeOK
  <2> QED
    BY <2>1 DEF Worker, Receive, WorkerExit, LimiterFails, SendRequest,
       SendCancelled, Reply, RecordFails
<1> QED
  BY <1>1, <1>2, OpenKept DEF Locked

LEMMA OpenStep ==
  ASSUME TypeOK, OpenInv, [Next]_vars
  PROVE  OpenInv'
<1>1. CASE Next
  BY <1>1, TableOpen, ProcessOpen, WorkerOpen DEF Next
<1>2. CASE UNCHANGED vars
  BY <1>2 DEF OpenInv, vars, dbVars, procVars
<1> QED
  BY <1>1, <1>2

-----------------------------------------------------------------------------
(* What a step does to one delivery: to its row, to the number of hands    *)
(* that have it, and to its history.                                       *)

SameRow(d) ==
  rows'[d].status = rows[d].status /\ rows'[d].attempts = rows[d].attempts
SameAsked(d) ==
  (d \in polling' <=> d \in polling) /\ verdict'[d] = verdict[d]
SameCosts(d) ==
  /\ patches'[d] = patches[d] /\ undone'[d] = undone[d]
  /\ d \in meddled' <=> d \in meddled

\* Nothing, or one hand less.
Passes(d) ==
  SameRow(d) /\ SameAsked(d) /\ SameCosts(d) /\ sends'[d] = sends[d] /\ Fewer(d)

\* A statement of the table.
Stated(d) == TableStep(d) /\ sends'[d] = sends[d] /\ Fewer(d)

\* A claim, of which one hand more may come.
Taken(d) ==
  /\ rows[d].status = "ready" /\ rows'[d].status = "processing"
  /\ rows'[d].attempts = rows[d].attempts
  /\ SameAsked(d) /\ SameCosts(d) /\ sends'[d] = sends[d]
  /\ Unsent(d)' \in Nat /\ Unsent(d)' <= Unsent(d) + 1
  /\ Underway(d)' \in Nat /\ Underway(d)' <= Underway(d)

\* A claim rolled back: before the row was handed on, or after.
GivenBack(d) ==
  /\ rows[d].status = "processing" /\ rows'[d].status = "ready"
  /\ rows'[d].attempts = rows[d].attempts
  /\ SameAsked(d) /\ patches'[d] = patches[d] /\ (d \in meddled' <=> d \in meddled)
  /\ sends'[d] = sends[d] /\ Fewer(d)
  /\ \/ undone'[d] = undone[d] /\ Unsent(d)' + 1 <= Unsent(d)
     \/ undone'[d] = undone[d] + 1

\* One hand sends it, or would have.
Leaves(d) ==
  /\ SameRow(d) /\ SameAsked(d) /\ SameCosts(d)
  /\ Unsent(d)' \in Nat /\ Unsent(d)' + 1 <= Unsent(d)
  /\ Underway(d)' \in Nat /\ Underway(d)' <= Underway(d) + 1
  /\ \/ sends'[d] = sends[d] + 1
     \/ sends'[d] = sends[d] /\ \E p \in Procs : life[p] = "stopping"

\* One hand records what became of it.
Recorded(d) ==
  \E w \in Workers :
    /\ held[w] = d /\ pc[w] = "db"
    /\ rows'[d] = Outcome(w)
    /\ (d \in polling' <=> d \in polling)
    /\ verdict'[d] = IF reply[w] = "job" THEN "none" ELSE verdict[d]
    /\ SameCosts(d) /\ sends'[d] = sends[d]
    /\ Unsent(d)' \in Nat /\ Unsent(d)' <= Unsent(d)
    /\ Underway(d)' \in Nat /\ Underway(d)' + 1 <= Underway(d)

Effect(d) ==
  Passes(d) \/ Stated(d) \/ Taken(d) \/ GivenBack(d) \/ Leaves(d) \/ Recorded(d)

LEMMA TableEffect ==
  ASSUME TypeOK, Table, NEW d \in Deliveries
  PROVE  Effect(d)
<1> USE DEF dbVars, asked, operators, procVars, workerVars, history
<1>1. PICK e \in Deliveries : TableStep(e)
  BY TableSteps
<1>2. UNCHANGED <<batch, sendCh, pc, held, sends>>
  BY <1>1 DEF TableStep, Insert, BecomesDue, ToggleSuspended, Patch, Delete,
     PollClaimed, Polled, PollsEnd
<1>3. Fewer(d)
  BY <1>2, HandsKept
<1>4. CASE e = d
  BY <1>1, <1>2, <1>3, <1>4 DEF Effect, Stated
<1>5. CASE e # d
  <2>1. SameRow(d) /\ SameAsked(d) /\ SameCosts(d)
    BY <1>1, <1>5 DEF TypeOK, SameRow, SameAsked, SameCosts, TableStep, Insert,
       BecomesDue, ToggleSuspended, Patch, Delete, PollClaimed, Polled, PollsEnd
  <2> QED
    BY <1>2, <1>3, <2>1 DEF Effect, Passes
<1> QED
  BY <1>4, <1>5

\* A claim, whether or not it reaches the dispatcher.
LEMMA ClaimEffect ==
  ASSUME TypeOK, OpenInv, NEW S \in Picks, rows' = Claimed(S), NEW p \in Procs,
         batch' = batch \/ (batch[p] = {} /\ batch' = [batch EXCEPT ![p] = S]),
         UNCHANGED <<asked, operators, undone, sendCh, pc, held, sends>>,
         NEW d \in Deliveries
  PROVE  Effect(d)
<1> USE DEF asked, operators
<1>1. /\ Places(d)' \subseteq Places(d)
      /\ Limited(d)' \subseteq Limited(d) /\ Busy(d)' \subseteq Busy(d)
  BY DEF Places, Holders, Limited, Busy
<1>2. CASE d \notin S
  <2>1. Fetchers(d)' \subseteq Fetchers(d)
    BY <1>2 DEF Fetchers, TypeOK
  <2>2. Fewer(d) /\ SameRow(d)
    BY <1>1, <1>2, <2>1, HandsShrink, ClaimOpens DEF SameRow
  <2> QED
    BY <2>2 DEF Effect, Passes, SameAsked, SameCosts
<1>3. CASE d \in S
  <2>1. Fetchers(d)' \subseteq Fetchers(d) \cup {p}
    BY DEF Fetchers, TypeOK
  <2>2. /\ IsFiniteSet(Fetchers(d)) /\ IsFiniteSet(Places(d))
        /\ IsFiniteSet(Limited(d)) /\ IsFiniteSet(Busy(d))
    BY FiniteHands
  <2>3. /\ Cardinality(Fetchers(d)') \in Nat /\ Cardinality(Fetchers(d)) \in Nat
        /\ Cardinality(Fetchers(d)') <= Cardinality(Fetchers(d)) + 1
    BY <2>1, <2>2, Counting
  <2>4. /\ Cardinality(Places(d)') \in Nat /\ Cardinality(Places(d)) \in Nat
        /\ Cardinality(Places(d)') <= Cardinality(Places(d))
    BY <1>1, <2>2, Counting
  <2>5. /\ Cardinality(Limited(d)') \in Nat /\ Cardinality(Limited(d)) \in Nat
        /\ Cardinality(Limited(d)') <= Cardinality(Limited(d))
    BY <1>1, <2>2, Counting
  <2>6. /\ Underway(d)' \in Nat /\ Underway(d)' <= Underway(d)
    BY <1>1, <2>2, Counting DEF Underway
  <2>7. Unsent(d)' \in Nat /\ Unsent(d)' <= Unsent(d) + 1
    BY <2>3, <2>4, <2>5 DEF Unsent
  <2> QED
    BY <1>3, <2>6, <2>7, ClaimOpens DEF Effect, Taken, SameAsked, SameCosts
<1> QED
  BY <1>2, <1>3

\* From the result set to the end of the channel.
LEMMA DispatchEffect ==
  ASSUME TypeOK, NEW p \in Procs, NEW e \in Deliveries, Dispatch(p, e),
         NEW d \in Deliveries
  PROVE  Effect(d)
<1> USE DEF dbVars, asked, operators, workerVars, history
<1> DEFINE c == sendCh[p]
<1>1. /\ c \in Seq(Deliveries)
      /\ batch'[p] = batch[p] \ {e} /\ e \in batch[p]
      /\ \A q \in Procs \ {p} : batch'[q] = batch[q] /\ sendCh'[q] = sendCh[q]
      /\ sendCh'[p] = Append(c, e)
      /\ UNCHANGED <<rows, asked, operators, undone, pc, held, sends>>
  BY DEF Dispatch, TypeOK
<1>2. /\ DOMAIN c = 1 .. Len(c) /\ Len(c) \in Nat
      /\ DOMAIN sendCh'[p] = 1 .. Len(c) + 1
      /\ \A i \in 1 .. Len(c) : sendCh'[p][i] = c[i]
      /\ sendCh'[p][Len(c) + 1] = e
  BY <1>1, ChannelAppend
<1>3. \A i \in DOMAIN sendCh'[p] :
        \/ i \in DOMAIN c /\ sendCh'[p][i] = c[i]
        \/ i = Len(c) + 1 /\ sendCh'[p][i] = e
  BY <1>2
<1>4. /\ Limited(d)' \subseteq Limited(d) /\ Busy(d)' \subseteq Busy(d)
  BY <1>1 DEF Holders, Limited, Busy
<1>5. SameRow(d) /\ SameAsked(d) /\ SameCosts(d) /\ sends'[d] = sends[d]
  BY <1>1 DEF SameRow, SameAsked, SameCosts
<1>6. CASE d # e
  <2>1. Places(d)' \subseteq Places(d)
    BY <1>1, <1>3, <1>6 DEF Places
  <2>2. Fetchers(d)' \subseteq Fetchers(d)
    BY <1>1 DEF Fetchers
  <2> QED
    BY <1>4, <1>5, <2>1, <2>2, HandsShrink DEF Effect, Passes
<1>7. CASE d = e
  <2>0. Places(d)' \subseteq Places(d) \cup {<<p, Len(c) + 1>>}
    BY <1>1, <1>3 DEF Places
  <2> DEFINE last == <<p, Len(c) + 1>>
  <2>1. Places(d)' \subseteq Places(d) \cup {last}
    BY <2>0
  <2> HIDE DEF last
  <2>2. p \in Fetchers(d) /\ Fetchers(d)' \subseteq Fetchers(d) \ {p}
    BY <1>1, <1>7 DEF Fetchers
  <2>3. /\ IsFiniteSet(Fetchers(d)) /\ IsFiniteSet(Places(d))
        /\ IsFiniteSet(Limited(d)) /\ IsFiniteSet(Busy(d))
    BY FiniteHands
  <2>4. /\ Cardinality(Fetchers(d)') \in Nat /\ Cardinality(Fetchers(d)) \in Nat
        /\ Cardinality(Fetchers(d)') + 1 <= Cardinality(Fetchers(d))
    BY <2>2, <2>3, Counting
  <2>5. /\ Cardinality(Places(d)') \in Nat /\ Cardinality(Places(d)) \in Nat
        /\ Cardinality(Places(d)') <= Cardinality(Places(d)) + 1
    BY <2>1, <2>3, Counting
  <2>6. /\ Cardinality(Limited(d)') \in Nat /\ Cardinality(Limited(d)) \in Nat
        /\ Cardinality(Limited(d)') <= Cardinality(Limited(d))
    BY <1>4, <2>3, Counting
  <2>7. /\ Underway(d)' \in Nat /\ Underway(d)' <= Underway(d)
    BY <1>4, <2>3, Counting DEF Underway
  <2>8. Unsent(d)' \in Nat /\ Unsent(d)' <= Unsent(d)
    BY <2>4, <2>5, <2>6 DEF Unsent
  <2> QED
    BY <1>5, <2>7, <2>8 DEF Effect, Passes, Fewer
<1> QED
  BY <1>6, <1>7

\* The end of a claim, with the rest of its rows or with the whole process.
LEMMA ClaimEndsEffect ==
  ASSUME TypeOK, OpenInv, NEW p \in Procs, ClaimEnds(p),
         \A q \in Procs : sendCh'[q] = sendCh[q] \/ sendCh'[q] = <<>>,
         \A w \in Workers : \/ held'[w] = held[w] /\ pc'[w] = pc[w]
                            \/ held'[w] = NoDelivery,
         UNCHANGED <<asked, operators, sends>>,
         NEW d \in Deliveries
  PROVE  Effect(d)
<1> USE DEF asked, operators
<1>1. batch'[p] = {} /\ \A q \in Procs \ {p} : batch'[q] = batch[q]
  BY DEF ClaimEnds, TypeOK
<1>2. Fetchers(d)' = Fetchers(d) \ {p}
  BY <1>1 DEF Fetchers
<1>3. Places(d)' \subseteq Places(d)
  BY DEF Places
<1>4. Limited(d)' \subseteq Limited(d) /\ Busy(d)' \subseteq Busy(d)
  BY SendAssumption DEF Limited, Busy, Holders
<1>5. Fewer(d)
  BY <1>2, <1>3, <1>4, HandsShrink
<1>6. SameAsked(d) /\ patches'[d] = patches[d] /\ (d \in meddled' <=> d \in meddled)
  BY DEF SameAsked
<1>7. CASE RolledBack(p) /\ d \in open[p]
  <2>1. rows[d] \in Row /\ rows[d].status = "processing"
    BY <1>7 DEF TypeOK, OpenInv
  <2>2. rows'[d].status = "ready" /\ rows'[d].attempts = rows[d].attempts
    BY <1>7, <2>1 DEF RolledBack, Row
  <2>3. CASE d \notin batch[p]
    <3>1. undone'[d] = undone[d] + 1
      BY <1>7, <2>3 DEF RolledBack
    <3> QED
      BY <1>5, <1>6, <2>1, <2>2, <3>1 DEF Effect, GivenBack
  <2>4. CASE d \in batch[p]
    <3>1. undone'[d] = undone[d]
      BY <1>7, <2>4 DEF RolledBack
    <3>2. /\ IsFiniteSet(Fetchers(d)) /\ IsFiniteSet(Places(d)) /\ IsFiniteSet(Limited(d))
      BY FiniteHands
    <3>3. p \in Fetchers(d)
      BY <2>4 DEF Fetchers
    <3>4. /\ Cardinality(Fetchers(d)') \in Nat /\ Cardinality(Fetchers(d)) \in Nat
          /\ Cardinality(Fetchers(d)') + 1 <= Cardinality(Fetchers(d))
      BY <1>2, <3>2, <3>3, Counting
    <3>5. /\ Cardinality(Places(d)') \in Nat /\ Cardinality(Places(d)) \in Nat
          /\ Cardinality(Places(d)') <= Cardinality(Places(d))
      BY <1>3, <3>2, Counting
    <3>6. /\ Cardinality(Limited(d)') \in Nat /\ Cardinality(Limited(d)) \in Nat
          /\ Cardinality(Limited(d)') <= Cardinality(Limited(d))
      BY <1>4, <3>2, Counting
    <3>7. Unsent(d)' + 1 <= Unsent(d)
      BY <3>4, <3>5, <3>6 DEF Unsent
    <3> QED
      BY <1>5, <1>6, <2>1, <2>2, <3>1, <3>7 DEF Effect, GivenBack
  <2> QED
    BY <2>3, <2>4
<1>8. CASE ~(RolledBack(p) /\ d \in open[p])
  <2>1. rows'[d] = rows[d] /\ undone'[d] = undone[d]
    <3>1. CASE RolledBack(p)
      BY <1>8, <3>1 DEF RolledBack
    <3>2. CASE UNCHANGED <<rows, undone>>
      BY <3>2
    <3> QED
      BY <3>1, <3>2 DEF ClaimEnds
  <2> QED
    BY <1>5, <1>6, <2>1 DEF Effect, Passes, SameRow, SameCosts
<1> QED
  BY <1>7, <1>8

LEMMA ProcessEffect ==
  ASSUME TypeOK, OpenInv, NEW p \in Procs, Dispatcher(p) \/ Operation(p),
         NEW d \in Deliveries
  PROVE  Effect(d)
<1> USE DEF dbVars, procVars, workerVars, history
<1>1. CASE ClaimDeliveries(p)
  BY <1>1, ClaimEffect DEF ClaimDeliveries
<1>2. CASE ClaimLost(p) \/ Signal(p)
  <2>1. UNCHANGED <<asked, operators, undone, batch, sendCh, pc, held, sends>>
    BY <1>2 DEF ClaimLost, Signal
  <2>2. CASE rows' = rows
    BY <2>1, <2>2, HandsKept DEF Effect, Passes, SameRow, SameAsked, SameCosts,
       asked, operators
  <2>3. CASE \E S \in Picks : rows' = Claimed(S)
    BY <2>1, <2>3, ClaimEffect
  <2> QED
    BY <1>2, <2>2, <2>3 DEF ClaimLost, Signal
<1>3. CASE \E e \in Deliveries : Dispatch(p, e)
  BY <1>3, DispatchEffect
<1>4. CASE AbandonBatch(p)
  BY <1>4, ClaimEndsEffect DEF AbandonBatch
<1>5. CASE Crash(p)
  <2>1. \A q \in Procs : sendCh'[q] = sendCh[q] \/ sendCh'[q] = <<>>
    BY <1>5 DEF Crash, TypeOK
  <2>2. \A w \in Workers : \/ held'[w] = held[w] /\ pc'[w] = pc[w]
                           \/ held'[w] = NoDelivery
    BY <1>5 DEF Crash
  <2> QED
    BY <1>5, <2>1, <2>2, ClaimEndsEffect DEF Crash
<1>6. CASE \/ Commit(p) \/ Exit(p) \/ Start(p)
           \/ \E e \in Deliveries : ScanFails(p, e)
  <2>1. UNCHANGED <<rows, asked, operators, undone, held, sends>>
    BY <1>6 DEF Commit, ScanFails, Exit, Start
  <2>2. Fetchers(d)' \subseteq Fetchers(d)
    BY <1>6 DEF Commit, ScanFails, Exit, Start, TypeOK, Fetchers
  <2>3. \A q \in Procs : sendCh'[q] = sendCh[q] \/ sendCh'[q] = <<>>
    BY <1>6 DEF Commit, ScanFails, Exit, Start, TypeOK
  <2>4. Places(d)' \subseteq Places(d)
    BY <2>3 DEF Places
  <2>5. \A w \in Workers : pc'[w] = pc[w] \/ pc'[w] = "idle"
    BY <1>6 DEF Commit, ScanFails, Exit, Start, TypeOK
  <2>6. Limited(d)' \subseteq Limited(d) /\ Busy(d)' \subseteq Busy(d)
    BY <2>1, <2>5 DEF Limited, Busy, Holders
  <2> QED
    BY <2>1, <2>2, <2>4, <2>6, HandsShrink DEF Effect, Passes, SameRow, SameAsked,
       SameCosts, asked, operators
<1> QED
  BY <1>1, <1>2, <1>3, <1>4, <1>5, <1>6 DEF Dispatcher, Operation

\* Tail moves every row of a channel one place on.
LEMMA PlacesTail ==
  ASSUME TypeOK, NEW p \in Procs, sendCh[p] # <<>>,
         sendCh'[p] = Tail(sendCh[p]), \A q \in Procs \ {p} : sendCh'[q] = sendCh[q],
         NEW d \in Deliveries
  PROVE  /\ Cardinality(Places(d)') \in Nat
         /\ Cardinality(Places(d)') <= Cardinality(Places(d))
         /\ d = Head(sendCh[p])
              => Cardinality(Places(d)') + 1 <= Cardinality(Places(d))
<1> DEFINE c == sendCh[p]
<1>1. c \in Seq(Deliveries)
  BY DEF TypeOK
<1>2. /\ DOMAIN c = 1 .. Len(c) /\ Len(c) \in Nat \ {0}
      /\ DOMAIN sendCh'[p] = 1 .. Len(c) - 1
      /\ \A i \in 1 .. Len(c) - 1 : sendCh'[p][i] = c[i + 1]
      /\ Head(c) = c[1]
  BY <1>1, ChannelTail
<1>3. \A i \in DOMAIN sendCh'[p] :
        i \in Nat /\ i + 1 # 1 /\ i + 1 \in DOMAIN c /\ sendCh'[p][i] = c[i + 1]
  BY <1>2
<1> DEFINE first == <<p, 1>>
           S == Places(d)'
           T == Places(d) \ {first}
           f == [x \in S |-> IF x[1] = p THEN <<p, x[2] + 1>> ELSE x]
<1>4. \A x \in S : \E q \in Procs : \E i \in DOMAIN sendCh'[q] :
        x = <<q, i>> /\ sendCh'[q][i] = d
  BY DEF Places
<1>5. \A q \in Procs : \A i \in DOMAIN sendCh[q] : sendCh[q][i] = d => <<q, i>> \in Places(d)
  BY DEF Places
<1>6. ASSUME NEW x \in S
      PROVE  f[x] \in T
  <2>0. PICK q \in Procs : \E i \in DOMAIN sendCh'[q] : x = <<q, i>> /\ sendCh'[q][i] = d
    BY <1>4
  <2>1. PICK i \in DOMAIN sendCh'[q] : x = <<q, i>> /\ sendCh'[q][i] = d
    BY <2>0
  <2>2. CASE q = p
    <3>1. f[x] = <<p, i + 1>> /\ i + 1 # 1
      BY <1>3, <2>1, <2>2
    <3>2. i + 1 \in DOMAIN sendCh[p] /\ sendCh[p][i + 1] = d
      BY <1>3, <2>1, <2>2
    <3>3. <<p, i + 1>> \in Places(d)
      BY <1>5, <3>2
    <3> QED
      BY <3>1, <3>3
  <2>3. CASE q # p
    <3>1. f[x] = <<q, i>>
      BY <2>1, <2>3
    <3>2. <<q, i>> \in Places(d)
      BY <1>5, <2>1, <2>3
    <3> QED
      BY <2>3, <3>1, <3>2
  <2> QED
    BY <2>2, <2>3
<1>7. ASSUME NEW x \in S, NEW y \in S, f[x] = f[y]
      PROVE  x = y
  <2>0. PICK q \in Procs : \E i \in DOMAIN sendCh'[q] : x = <<q, i>> /\ sendCh'[q][i] = d
    BY <1>4
  <2>1. PICK i \in DOMAIN sendCh'[q] : x = <<q, i>> /\ sendCh'[q][i] = d
    BY <2>0
  <2>7. PICK r \in Procs : \E j \in DOMAIN sendCh'[r] : y = <<r, j>> /\ sendCh'[r][j] = d
    BY <1>4
  <2>2. PICK j \in DOMAIN sendCh'[r] : y = <<r, j>> /\ sendCh'[r][j] = d
    BY <2>7
  <2>3. f[x] = IF q = p THEN <<p, i + 1>> ELSE <<q, i>>
    BY <2>1
  <2>4. f[y] = IF r = p THEN <<p, j + 1>> ELSE <<r, j>>
    BY <2>2
  <2>5. q = r /\ (q = p => i + 1 = j + 1) /\ (q # p => i = j)
    BY <1>7, <2>3, <2>4
  <2>6. q = p => i \in Nat /\ j \in Nat
    BY <1>3, <2>5
  <2> QED
    BY <2>1, <2>2, <2>5, <2>6
<1>8. f \in Injection(S, T)
  <2>1. f = [x \in S |-> f[x]]
    OBVIOUS
  <2> HIDE DEF f, S, T
  <2>2. f \in [S -> T]
    BY <1>6, <2>1
  <2> QED
    BY <1>7, <2>2 DEF Injection, IsInjective
<1>9. IsFiniteSet(Places(d))
  BY FiniteHands
<1>10. IsFiniteSet(T) /\ Cardinality(T) \in Nat /\ Cardinality(Places(d)) \in Nat
       /\ Cardinality(T) <= Cardinality(Places(d))
  BY <1>9, FS_RemoveElement, FS_CardinalityType, FS_Subset
<1>11. d = Head(sendCh[p]) => Cardinality(T) + 1 <= Cardinality(Places(d))
  <2> SUFFICES ASSUME d = Head(sendCh[p]) PROVE Cardinality(T) + 1 <= Cardinality(Places(d))
    OBVIOUS
  <2>1. first \in Places(d)
    BY <1>2, <1>5
  <2> QED
    BY <1>9, <1>10, <2>1, FS_RemoveElement
<1> HIDE DEF f, S, T
<1>12. IsFiniteSet(S) /\ Cardinality(S) <= Cardinality(T)
  BY <1>8, <1>10, FS_Injection
<1>13. Cardinality(S) \in Nat
  BY <1>12, FS_CardinalityType
<1> QED
  BY <1>10, <1>11, <1>12, <1>13 DEF S

\* From the head of the channel to a worker with empty hands.
LEMMA ReceiveEffect ==
  ASSUME TypeOK, NEW w \in Workers, Receive(w), NEW d \in Deliveries
  PROVE  Effect(d)
<1> USE DEF dbVars, asked, operators, history
<1> DEFINE p == Owner[w]
           c == sendCh[p]
<1>1. /\ p \in Procs /\ c \in Seq(Deliveries) /\ c # <<>>
      /\ sendCh'[p] = Tail(c) /\ \A q \in Procs \ {p} : sendCh'[q] = sendCh[q]
      /\ held' = [held EXCEPT ![w] = Head(c)] /\ pc' = [pc EXCEPT ![w] = "limit"]
      /\ UNCHANGED <<rows, asked, operators, undone, batch, sends>>
  BY SendAssumption DEF Receive, TypeOK
<1>2. /\ held'[w] = Head(c) /\ pc'[w] = "limit"
      /\ \A v \in Workers \ {w} : held'[v] = held[v] /\ pc'[v] = pc[v]
  BY <1>1 DEF TypeOK
<1>3. /\ Cardinality(Places(d)') \in Nat
      /\ Cardinality(Places(d)') <= Cardinality(Places(d))
      /\ d = Head(c) => Cardinality(Places(d)') + 1 <= Cardinality(Places(d))
  BY <1>1, PlacesTail
<1>4. SameRow(d) /\ SameAsked(d) /\ SameCosts(d) /\ sends'[d] = sends[d]
  BY <1>1 DEF SameRow, SameAsked, SameCosts
<1>5. /\ IsFiniteSet(Fetchers(d)) /\ IsFiniteSet(Places(d))
      /\ IsFiniteSet(Limited(d)) /\ IsFiniteSet(Busy(d))
  BY FiniteHands
<1>6. Fetchers(d)' = Fetchers(d) /\ Cardinality(Fetchers(d)) \in Nat
  BY <1>1, <1>5, FS_CardinalityType DEF Fetchers
<1>7. Busy(d)' \subseteq Busy(d)
  BY <1>2 DEF Busy, Holders
<1>8. Underway(d)' \in Nat /\ Underway(d)' <= Underway(d)
  BY <1>5, <1>7, Counting DEF Underway
<1>9. Cardinality(Places(d)) \in Nat
  BY <1>5, FS_CardinalityType
<1>10. Unsent(d)' \in Nat /\ Unsent(d)' <= Unsent(d)
  <2>1. CASE d = Head(c)
    <3>1. Limited(d)' \subseteq Limited(d) \cup {w}
      BY <1>2 DEF Limited, Holders
    <3>2. /\ Cardinality(Limited(d)') \in Nat /\ Cardinality(Limited(d)) \in Nat
          /\ Cardinality(Limited(d)') <= Cardinality(Limited(d)) + 1
      BY <1>5, <3>1, Counting
    <3> QED
      BY <1>3, <1>6, <1>9, <2>1, <3>2 DEF Unsent
  <2>2. CASE d # Head(c)
    <3>1. Limited(d)' \subseteq Limited(d)
      BY <1>2, <2>2 DEF Limited, Holders
    <3>2. /\ Cardinality(Limited(d)') \in Nat /\ Cardinality(Limited(d)) \in Nat
          /\ Cardinality(Limited(d)') <= Cardinality(Limited(d))
      BY <1>5, <3>1, Counting
    <3> QED
      BY <1>3, <1>6, <1>9, <3>2 DEF Unsent
  <2> QED
    BY <2>1, <2>2
<1> QED
  BY <1>4, <1>8, <1>10 DEF Effect, Passes, Fewer

\* The steps of a worker with the delivery it holds.
LEMMA HolderEffect ==
  ASSUME TypeOK, NEW w \in Workers,
         \/ SendRequest(w) \/ SendCancelled(w) \/ (\E k \in AllReplies : Reply(w, k))
         \/ Record(w) \/ RecordFails(w) \/ LimiterFails(w) \/ WorkerExit(w),
         NEW d \in Deliveries
  PROVE  Effect(d)
<1> USE DEF dbVars, asked, operators, procVars, history
<1>1. UNCHANGED <<batch, sendCh, operators, undone, polling>>
  BY DEF SendRequest, SendCancelled, Reply, Record, RecordFails, LimiterFails, WorkerExit
<1>2. Fetchers(d)' = Fetchers(d) /\ Places(d)' = Places(d) /\ SameCosts(d)
  BY <1>1 DEF Fetchers, Places, SameCosts
<1>3. /\ IsFiniteSet(Fetchers(d)) /\ IsFiniteSet(Places(d))
      /\ IsFiniteSet(Limited(d)) /\ IsFiniteSet(Busy(d))
  BY FiniteHands
<1>4. /\ Cardinality(Fetchers(d)) \in Nat /\ Cardinality(Places(d)) \in Nat
      /\ Cardinality(Limited(d)) \in Nat /\ Cardinality(Busy(d)) \in Nat
  BY <1>3, FS_CardinalityType
<1>5. \A v \in Workers \ {w} : held'[v] = held[v] /\ pc'[v] = pc[v]
  BY DEF SendRequest, SendCancelled, Reply, Record, RecordFails, LimiterFails,
     WorkerExit, Released, TypeOK
<1>6. NoDelivery \notin Deliveries /\ Owner[w] \in Procs
  BY SendAssumption
<1>7. CASE held[w] # d \/ RecordFails(w) \/ LimiterFails(w) \/ WorkerExit(w)
           \/ \E k \in AllReplies : Reply(w, k)
  <2>1. Limited(d)' \subseteq Limited(d) /\ Busy(d)' \subseteq Busy(d)
    BY <1>5, <1>6, <1>7 DEF SendRequest, SendCancelled, Reply, Record, RecordFails,
       LimiterFails, WorkerExit, Released, TypeOK, Limited, Busy, Holders
  <2>2. rows'[d] = rows[d] /\ verdict'[d] = verdict[d] /\ sends'[d] = sends[d]
    BY <1>6, <1>7 DEF SendRequest, SendCancelled, Reply, Record, RecordFails,
       LimiterFails, WorkerExit, TypeOK
  <2> QED
    BY <1>1, <1>2, <2>1, <2>2, HandsShrink DEF Effect, Passes, SameRow, SameAsked
<1>8. CASE held[w] = d /\ (SendRequest(w) \/ SendCancelled(w))
  <2>1. /\ w \in Limited(d) /\ Limited(d)' \subseteq Limited(d) \ {w}
        /\ Busy(d)' \subseteq Busy(d) \cup {w}
    BY <1>5, <1>8 DEF SendRequest, SendCancelled, TypeOK, Limited, Busy, Holders
  <2>2. /\ Cardinality(Limited(d)') \in Nat /\ Cardinality(Limited(d)') + 1 <= Cardinality(Limited(d))
        /\ Underway(d)' \in Nat /\ Underway(d)' <= Underway(d) + 1
    BY <1>3, <2>1, Counting DEF Underway
  <2>3. Unsent(d)' \in Nat /\ Unsent(d)' + 1 <= Unsent(d)
    BY <1>2, <1>4, <2>2 DEF Unsent
  <2>4. SameRow(d) /\ SameAsked(d)
    BY <1>8 DEF SendRequest, SendCancelled, SameRow, SameAsked
  <2>5. \/ sends'[d] = sends[d] + 1
        \/ sends'[d] = sends[d] /\ \E p \in Procs : life[p] = "stopping"
    BY <1>6, <1>8 DEF SendRequest, SendCancelled, TypeOK
  <2> QED
    BY <1>2, <2>2, <2>3, <2>4, <2>5 DEF Effect, Leaves
<1>9. CASE held[w] = d /\ Record(w)
  <2>1. /\ w \in Busy(d) /\ Busy(d)' \subseteq Busy(d) \ {w}
        /\ Limited(d)' \subseteq Limited(d)
    BY <1>5, <1>6, <1>9 DEF Record, Released, TypeOK, Limited, Busy, Holders
  <2>2. /\ Cardinality(Limited(d)') \in Nat /\ Cardinality(Limited(d)') <= Cardinality(Limited(d))
        /\ Underway(d)' \in Nat /\ Underway(d)' + 1 <= Underway(d)
    BY <1>3, <2>1, Counting DEF Underway
  <2>3. Unsent(d)' \in Nat /\ Unsent(d)' <= Unsent(d)
    BY <1>2, <1>4, <2>2 DEF Unsent
  <2>4. /\ pc[w] = "db" /\ rows'[d] = Outcome(w) /\ sends'[d] = sends[d]
        /\ verdict'[d] = IF reply[w] = "job" THEN "none" ELSE verdict[d]
    BY <1>9 DEF Record, TypeOK
  <2> QED
    BY <1>1, <1>2, <1>9, <2>2, <2>3, <2>4 DEF Effect, Recorded
<1> QED
  BY <1>7, <1>8, <1>9

LEMMA NextEffect ==
  ASSUME TypeOK, OpenInv, [Next]_vars, NEW d \in Deliveries
  PROVE  Effect(d)
<1>1. CASE Table
  BY <1>1, TableEffect
<1>2. CASE \E p \in Procs : Dispatcher(p) \/ Operation(p)
  BY <1>2, ProcessEffect
<1>3. CASE \E w \in Workers : Worker(w)
  BY <1>3, ReceiveEffect, HolderEffect DEF Worker
<1>4. CASE UNCHANGED vars
  <2>1. UNCHANGED <<batch, sendCh, pc, held>>
    BY <1>4 DEF vars, procVars, workerVars
  <2> QED
    BY <1>4, <2>1, HandsKept DEF vars, dbVars, asked, operators, history, Effect, Passes,
       SameRow, SameAsked, SameCosts
<1> QED
  BY <1>1, <1>2, <1>3, <1>4 DEF Next

-----------------------------------------------------------------------------
(* A delivery is in the hands of one goroutine at most.                    *)

\* What is in hand is there once and is not claimable, and what polls are out
\* of is at rest: each part needs the others.  A claim takes ready rows, which
\* nobody has in hand; a worker makes a row ready again that only it had in
\* hand; a late poll writes to a row that nobody has in hand.
Kept(d) ==
  /\ Unsent(d) + Underway(d) <= 1
  /\ Unsent(d) + Underway(d) > 0 => rows[d].status \in {"processing", "deleted"}
  /\ d \in polling =>
       /\ rows[d].status \in {"awaiting_async", "done", "failed", "deleted"}
       /\ rows[d].status = "done" => verdict[d] = "COMPLETED"
       /\ rows[d].status = "failed" => verdict[d] = "FAILED"

HandsInv == TypeOK /\ OpenInv /\ \A d \in Deliveries : Sound(d) => Kept(d)

LEMMA InitHands == Init => HandsInv
<1> SUFFICES ASSUME Init PROVE HandsInv
  OBVIOUS
<1>1. TypeOK
  BY InitType
<1>2. OpenInv
  BY DEF Init, OpenInv
<1>3. ASSUME NEW d \in Deliveries PROVE Kept(d)
  <2>1. Fetchers(d) = {} /\ Places(d) = {} /\ Holders(d) = {}
    BY SendAssumption DEF Init, Fetchers, Places, Holders
  <2>2. Limited(d) = {} /\ Busy(d) = {}
    BY <2>1 DEF Limited, Busy
  <2>3. Unsent(d) = 0 /\ Underway(d) = 0
    BY <2>1, <2>2, FS_EmptySet DEF Unsent, Underway
  <2> QED
    BY <2>3 DEF Init, Kept
<1> QED
  BY <1>1, <1>2, <1>3 DEF HandsInv

\* What a worker writes into an existing row.
LEMMA OutcomeRow ==
  ASSUME TypeOK, NEW w \in Workers, pc[w] = "db", NEW d \in Deliveries, held[w] = d
  PROVE  LET r == rows[d] IN
         /\ ~Exists(r) => Outcome(w) = r
         /\ Exists(r) =>
              \/ /\ reply[w] = "ok" /\ Outcome(w).status = "done"
                 /\ Outcome(w).attempts = r.attempts
              \/ /\ reply[w] = "job" /\ Outcome(w).status = "awaiting_async"
                 /\ Outcome(w).attempts = r.attempts
              \/ /\ reply[w] \in {"retryable", "terminal"}
                 /\ Outcome(w).attempts = r.attempts + 1
                 /\ Outcome(w).status = IF r.attempts + 1 >= MaxAttempts THEN "failed" ELSE "ready"
<1> DEFINE r == rows[d]
<1>1. r \in Row
  BY DEF TypeOK
<1>2. \/ reply[w] = "ok" /\ Outcome(w) = FinalizeOkRow(r)
      \/ reply[w] = "job" /\ Outcome(w) = StartAsyncRow(r, 1)
      \/ reply[w] \in {"retryable", "terminal"} /\ Outcome(w) = FinalizeFailedRow(r)
  BY DEF Outcome, TypeOK, AllReplies
<1> HIDE DEF r
<1>3. ~Exists(r) => Outcome(w) = r
  BY <1>2 DEF FinalizeOkRow, StartAsyncRow, FinalizeFailedRow, Update
<1>4. ASSUME Exists(r)
      PROVE  /\ FinalizeOkRow(r).status = "done" /\ FinalizeOkRow(r).attempts = r.attempts
             /\ StartAsyncRow(r, 1).status = "awaiting_async"
             /\ StartAsyncRow(r, 1).attempts = r.attempts
  BY <1>1, <1>4 DEF FinalizeOkRow, StartAsyncRow, Update, Row
<1>5. ASSUME Exists(r)
      PROVE  /\ FinalizeFailedRow(r).attempts = r.attempts + 1
             /\ FinalizeFailedRow(r).status
                  = IF r.attempts + 1 >= MaxAttempts THEN "failed" ELSE "ready"
  BY <1>1, <1>5 DEF FinalizeFailedRow, Update, Row
<1>6. /\ ~Exists(r) => Outcome(w) = r
      /\ Exists(r) =>
              \/ /\ reply[w] = "ok" /\ Outcome(w).status = "done"
                 /\ Outcome(w).attempts = r.attempts
              \/ /\ reply[w] = "job" /\ Outcome(w).status = "awaiting_async"
                 /\ Outcome(w).attempts = r.attempts
              \/ /\ reply[w] \in {"retryable", "terminal"}
                 /\ Outcome(w).attempts = r.attempts + 1
                 /\ Outcome(w).status = IF r.attempts + 1 >= MaxAttempts THEN "failed" ELSE "ready"
  BY <1>2, <1>3, <1>4, <1>5
<1> QED
  BY <1>6 DEF r

\* What the statements of the table do to an existing or missing row.
LEMMA TableRow ==
  ASSUME TypeOK, NEW d \in Deliveries, TableStep(d)
  PROVE  \/ /\ Insert(d) /\ rows[d].status = "absent"
            /\ rows'[d].status = "ready" /\ rows'[d].attempts = 0
            /\ SameAsked(d) /\ SameCosts(d)
         \/ SameRow(d) /\ SameAsked(d) /\ SameCosts(d)
         \/ /\ rows[d].status \in Statuses
            /\ rows'[d].status = "deleted" /\ rows'[d].attempts = 0
            /\ SameAsked(d) /\ SameCosts(d)
         \/ /\ rows[d].status \in Statuses /\ rows'[d].status \in Statuses
            /\ <<rows[d].status, rows'[d].status>> \in PatchPairs
            /\ rows'[d].attempts = rows[d].attempts
            /\ SameAsked(d) /\ undone'[d] = undone[d]
            /\ patches'[d] = patches[d] + 1
            /\ d \in meddled' <=> d \in meddled \/ Meddles(d, rows'[d].status)
         \/ /\ SameRow(d) /\ verdict'[d] = verdict[d] /\ SameCosts(d)
            /\ \/ d \notin polling'
               \/ d \in polling' /\ rows[d].status = "awaiting_async"
         \/ /\ d \in polling /\ d \in polling' /\ SameCosts(d)
            /\ \E s \in Answers(d) :
                 /\ verdict'[d] = IF s = "RUNNING" THEN verdict[d] ELSE s
                 /\ rows'[d].status = IF ~Exists(rows[d]) \/ s = "RUNNING" THEN rows[d].status
                                      ELSE IF s = "COMPLETED" THEN "done" ELSE "failed"
                 /\ rows'[d].attempts = rows[d].attempts
<1> USE DEF asked, operators
<1>0. rows[d] \in Row
  BY DEF TypeOK
<1>1. CASE Insert(d)
  BY <1>0, <1>1 DEF Insert, InsertedRow, AbsentRow, SameAsked, SameCosts, TypeOK
<1>2. CASE BecomesDue(d) \/ ToggleSuspended(d)
  BY <1>0, <1>2 DEF BecomesDue, ToggleSuspended, SameRow, SameAsked, SameCosts, TypeOK, Row
<1>3. CASE Delete(d)
  <2>1. rows'[d] = DeletedRow(rows[d]) /\ Exists(rows[d])
    BY <1>3 DEF Delete, TypeOK
  <2> QED
    BY <1>3, <2>1 DEF Delete, Exists, DeletedRow, Update, AbsentRow, SameAsked, SameCosts
<1>4. CASE \E s \in Statuses, due \in BOOLEAN : Patch(d, s, due)
  <2>1. PICK s \in Statuses, due \in BOOLEAN : Patch(d, s, due)
    BY <1>4
  <2>2. rows[d].status \in Statuses /\ <<rows[d].status, s>> \in PatchPairs
    BY <2>1, SendAssumption DEF Patch
  <2>3. rows'[d] = [rows[d] EXCEPT !.status = s, !.due = due]
    BY <2>1, <2>2 DEF TypeOK, Patch, PatchedRow, Update, Exists
  <2>4. rows'[d].status = s /\ rows'[d].attempts = rows[d].attempts
    BY <1>0, <2>3 DEF Row
  <2>5. /\ patches'[d] = patches[d] + 1 /\ undone'[d] = undone[d] /\ SameAsked(d)
        /\ d \in meddled' <=> d \in meddled \/ Meddles(d, s)
    BY <2>1 DEF Patch, TypeOK, SameAsked
  <2> QED
    BY <2>2, <2>4, <2>5
<1>5. CASE PollClaimed(d)
  BY <1>5 DEF PollClaimed, SameRow, SameCosts
<1>6. CASE PollsEnd(d)
  BY <1>6 DEF PollsEnd, SameRow, SameCosts
<1>7. CASE \E s \in Answers(d) : Polled(d, s)
  <2>1. PICK s \in Answers(d) : Polled(d, s)
    BY <1>7
  <2>2. s \in {"RUNNING", "COMPLETED", "FAILED"}
    BY <1>7 DEF Answers, TypeOK
  <2>3. rows'[d] = UpdateAsyncRow(rows[d], s)
    BY <2>1 DEF Polled, TypeOK
  <2>4. /\ rows'[d].status = IF ~Exists(rows[d]) \/ s = "RUNNING" THEN rows[d].status
                             ELSE IF s = "COMPLETED" THEN "done" ELSE "failed"
        /\ rows'[d].attempts = rows[d].attempts
    BY <1>0, <2>2, <2>3 DEF UpdateAsyncRow, Update, SuccessValues, FailValues, Row
  <2>5. /\ verdict'[d] = IF s = "RUNNING" THEN verdict[d] ELSE s
        /\ d \in polling /\ d \in polling' /\ SameCosts(d)
    BY <2>1 DEF Polled, TypeOK, SameCosts
  <2> QED
    BY <2>4, <2>5
<1> QED
  BY <1>1, <1>2, <1>3, <1>4, <1>5, <1>6, <1>7 DEF TableStep

\* Nobody makes a delivery sound that was not.
LEMMA SoundBefore ==
  ASSUME TypeOK, NEW d \in Deliveries, Effect(d), Sound(d)'
  PROVE  Sound(d)
<1>1. undone[d] \in Nat
  BY DEF TypeOK
<1>2. CASE Stated(d)
  BY <1>2, TableRow DEF Stated, Sound, SameCosts
<1> QED
  BY <1>1, <1>2 DEF Effect, Passes, Taken, GivenBack, Leaves, Recorded, SameCosts, Sound

LEMMA KeptStep ==
  ASSUME TypeOK, OpenInv, [Next]_vars, NEW d \in Deliveries,
         Sound(d) => Kept(d), Sound(d)'
  PROVE  Kept(d)'
<1>1. Effect(d)
  BY NextEffect
<1>2. Sound(d) /\ Kept(d)
  BY <1>1, SoundBefore
<1>3. Unsent(d) \in Nat /\ Underway(d) \in Nat
  BY HandCounts
<1>4. CASE Passes(d)
  BY <1>2, <1>3, <1>4 DEF Kept, Passes, SameRow, SameAsked, Fewer
<1>5. CASE Taken(d)
  BY <1>2, <1>3, <1>5 DEF Kept, Taken, SameAsked
<1>6. CASE GivenBack(d)
  <2>1. undone[d] = 0 /\ undone'[d] = 0
    BY <1>2 DEF Sound
  <2>2. Unsent(d)' + Underway(d)' = 0
    BY <1>2, <1>3, <1>6, <2>1 DEF Kept, GivenBack, Fewer
  <2> QED
    BY <1>2, <1>6, <2>2 DEF Kept, GivenBack, SameAsked
<1>7. CASE Leaves(d)
  BY <1>2, <1>3, <1>7 DEF Kept, Leaves, SameRow, SameAsked
<1>8. CASE Recorded(d)
  <2>1. PICK w \in Workers :
          /\ held[w] = d /\ pc[w] = "db" /\ rows'[d] = Outcome(w)
          /\ (d \in polling' <=> d \in polling)
          /\ Unsent(d)' \in Nat /\ Unsent(d)' <= Unsent(d)
          /\ Underway(d)' \in Nat /\ Underway(d)' + 1 <= Underway(d)
    BY <1>8 DEF Recorded
  <2>2. Unsent(d)' + Underway(d)' = 0 /\ rows[d].status \in {"processing", "deleted"}
    BY <1>2, <1>3, <2>1 DEF Kept
  <2>3. d \in polling => ~Exists(rows[d])
    BY <1>2, <2>2 DEF Kept, Exists, Statuses
  <2>4. d \in polling => rows'[d] = rows[d] /\ rows[d].status = "deleted"
    BY <1>2, <2>1, <2>2, <2>3, OutcomeRow DEF Kept
  <2> QED
    BY <2>1, <2>2, <2>4 DEF Kept
<1>9. CASE Stated(d)
  <2>1. TableStep(d) /\ Fewer(d)
    BY <1>9 DEF Stated
  <2>2. rows[d].status \in {"processing", "deleted"} \/ Unsent(d) + Underway(d) = 0
    BY <1>2, <1>3 DEF Kept
  <2>3. Unsent(d)' + Underway(d)' <= Unsent(d) + Underway(d)
    BY <1>3, <2>1 DEF Fewer
  <2>4. Unsent(d)' \in Nat /\ Underway(d)' \in Nat
    BY <2>1 DEF Fewer
  <2>5. d \notin meddled'
    BY DEF Sound
  <2>6. rows[d].status \in Statuses \cup {"absent", "deleted"}
    BY DEF TypeOK, Row
  <2>7. CASE SameAsked(d) /\ rows[d].status = "absent" /\ rows'[d].status = "ready"
    BY <1>2, <1>3, <2>2, <2>3, <2>4, <2>7 DEF Kept, SameAsked
  <2>13. CASE SameAsked(d) /\ rows'[d].status = "deleted"
    BY <1>2, <1>3, <2>2, <2>3, <2>4, <2>13 DEF Kept, SameAsked
  <2>8. CASE SameRow(d) /\ SameAsked(d)
    BY <1>2, <1>3, <2>2, <2>3, <2>4, <2>8 DEF Kept, SameRow, SameAsked
  <2>9. CASE /\ rows[d].status \in Statuses /\ rows'[d].status \in Statuses
             /\ SameAsked(d) /\ (d \in meddled' <=> d \in meddled \/ Meddles(d, rows'[d].status))
    <3>1. rows[d].status # "processing" /\ d \notin polling /\ d \notin polling'
      BY <2>5, <2>9 DEF Meddles, SameAsked
    <3>2. Unsent(d) + Underway(d) = 0
      BY <2>2, <2>9, <3>1 DEF Statuses
    <3> QED
      BY <1>3, <2>3, <2>4, <3>1, <3>2 DEF Kept
  <2>10. CASE /\ SameRow(d) /\ verdict'[d] = verdict[d]
              /\ \/ d \notin polling'
                 \/ d \in polling' /\ rows[d].status = "awaiting_async"
    BY <1>2, <1>3, <2>2, <2>3, <2>4, <2>10 DEF Kept, SameRow
  <2>11. ASSUME d \in polling, NEW s \in Answers(d),
                verdict'[d] = IF s = "RUNNING" THEN verdict[d] ELSE s,
                rows'[d].status = IF ~Exists(rows[d]) \/ s = "RUNNING" THEN rows[d].status
                                  ELSE IF s = "COMPLETED" THEN "done" ELSE "failed"
         PROVE  Kept(d)'
    <3>1. /\ rows[d].status \in {"awaiting_async", "done", "failed", "deleted"}
          /\ rows[d].status = "done" => verdict[d] = "COMPLETED"
          /\ rows[d].status = "failed" => verdict[d] = "FAILED"
      BY <1>2, <2>11 DEF Kept
    <3>2. s \in {"RUNNING", "COMPLETED", "FAILED"}
      BY DEF Answers, TypeOK
    <3>3. Exists(rows[d]) <=> rows[d].status # "deleted"
      BY <3>1 DEF Exists, Statuses
    <3>4. /\ rows'[d].status \in {"awaiting_async", "done", "failed", "deleted"}
          /\ rows'[d].status = "done" => verdict'[d] = "COMPLETED"
          /\ rows'[d].status = "failed" => verdict'[d] = "FAILED"
          /\ rows[d].status = "deleted" => rows'[d].status = "deleted"
      BY <2>11, <3>1, <3>2, <3>3
    <3>5. Unsent(d) + Underway(d) > 0 => rows[d].status = "deleted"
      BY <1>2, <3>1 DEF Kept
    <3> QED
      BY <1>2, <1>3, <2>3, <2>4, <3>4, <3>5 DEF Kept
  <2> QED
    BY <2>1, <2>7, <2>8, <2>9, <2>10, <2>11, <2>13, TableRow
<1> QED
  BY <1>1, <1>4, <1>5, <1>6, <1>7, <1>8, <1>9 DEF Effect

LEMMA NextHands ==
  ASSUME HandsInv, [Next]_vars
  PROVE  HandsInv'
BY TypeStep, OpenStep, KeptStep DEF HandsInv

\* However often processes crash, restart, lose database calls or are told to
\* stop, and however polls answer: nobody comes to have a delivery in hand
\* that somebody else has, unless an operator patched it under them or a
\* claim was rolled back after it was handed on.
THEOREM OneHand == Spec => []HeldOnce
<1>1. HandsInv /\ [Next]_vars => HandsInv'
  BY NextHands
<1>2. HandsInv => HeldOnce
  BY HandCounts DEF HandsInv, Kept, HeldOnce
<1> QED
  BY InitHands, <1>1, <1>2, PTL DEF Spec

\* Under the same condition what is in hand is claimed: no late poll, and no
\* retry, gives the row another status under whoever works on it.
THEOREM HandsAreClaimed == Spec => []HeldIsProcessing
<1>1. HandsInv /\ [Next]_vars => HandsInv'
  BY NextHands
<1>2. HandsInv => HeldIsProcessing
  BY HandCounts DEF HandsInv, Kept, HeldIsProcessing
<1> QED
  BY InitHands, <1>1, <1>2, PTL DEF Spec

-----------------------------------------------------------------------------
(* How often a delivery goes out.                                          *)

\* The requests that a row may still cost besides those of the hands that
\* have it: one if it can be claimed, and one for every time a worker can
\* find its attempts not used up yet.
Left(r) ==
  CASE r.status = "absent"  -> MaxAttempts
    [] r.status = "deleted" -> 0
    [] OTHER -> (IF r.status = "ready" THEN 1 ELSE 0)
                  + (IF r.attempts + 1 >= MaxAttempts THEN 0
                                                      ELSE MaxAttempts - 1 - r.attempts)

\* A hand that will send uses up what the claim took from the row.  An
\* operator adds at most one, and so does a claim rolled back.
Budget(d) == sends[d] + Unsent(d) + Left(rows[d]) <= MaxAttempts + patches[d] + undone[d]

BudgetInv == HandsInv /\ \A d \in Deliveries : Budget(d)

LEMMA LeftNumbers ==
  ASSUME NEW r \in Row
  PROVE  /\ Left(r) \in Nat
         /\ r.status = "absent" => Left(r) = MaxAttempts
         /\ r.status = "deleted" => Left(r) = 0
         /\ r.status \in Statuses =>
              Left(r) = (IF r.status = "ready" THEN 1 ELSE 0)
                          + (IF r.attempts + 1 >= MaxAttempts THEN 0
                                                              ELSE MaxAttempts - 1 - r.attempts)
<1>1. r.attempts \in Nat /\ MaxAttempts \in Nat \ {0}
      /\ r.status \in Statuses \cup {"absent", "deleted"}
  BY MaxAttemptsAssumption DEF Row
<1>2. CASE r.status = "absent"
  BY <1>1, <1>2 DEF Left, Statuses
<1>3. CASE r.status = "deleted"
  BY <1>1, <1>3 DEF Left, Statuses
<1>4. CASE r.status \in Statuses
  BY <1>1, <1>4 DEF Left, Statuses
<1> QED
  BY <1>1, <1>2, <1>3, <1>4

\* What a worker records leaves less, whatever the row says by then.
LEMMA OutcomeLeft ==
  ASSUME TypeOK, NEW w \in Workers, pc[w] = "db", NEW d \in Deliveries, held[w] = d
  PROVE  Left(Outcome(w)) <= Left(rows[d])
<1> DEFINE r == rows[d]
           o == Outcome(w)
<1>1. r \in Row /\ o \in Row
  BY OutcomeType DEF TypeOK
<1>2. MaxAttempts \in Nat \ {0} /\ r.attempts \in Nat /\ Left(r) \in Nat /\ Left(o) \in Nat
  BY <1>1, MaxAttemptsAssumption, LeftNumbers DEF Row
<1>3. /\ ~Exists(r) => o = r
      /\ Exists(r) =>
           \/ o.status \in {"done", "awaiting_async"} /\ o.attempts = r.attempts
           \/ /\ o.attempts = r.attempts + 1
              /\ o.status = IF r.attempts + 1 >= MaxAttempts THEN "failed" ELSE "ready"
  BY OutcomeRow
<1> HIDE DEF r, o
<1>4. ASSUME ~Exists(r) PROVE Left(o) <= Left(r)
  BY <1>2, <1>3, <1>4
<1>5. ASSUME Exists(r) PROVE Left(o) <= Left(r)
  <2>1. r.status \in Statuses /\ o.status \in Statuses
    BY <1>3, <1>5 DEF Exists, Statuses
  <2>2. /\ Left(r) = (IF r.status = "ready" THEN 1 ELSE 0)
                       + (IF r.attempts + 1 >= MaxAttempts THEN 0 ELSE MaxAttempts - 1 - r.attempts)
        /\ Left(o) = (IF o.status = "ready" THEN 1 ELSE 0)
                       + (IF o.attempts + 1 >= MaxAttempts THEN 0 ELSE MaxAttempts - 1 - o.attempts)
    BY <1>1, <2>1, LeftNumbers
  <2> QED
    BY <1>2, <1>3, <1>5, <2>2
<1> QED
  BY <1>4, <1>5 DEF r, o

\* What the statements of the table leave.
LEMMA TableLeft ==
  ASSUME TypeOK, TypeOK', NEW d \in Deliveries, TableStep(d)
  PROVE  /\ patches'[d] \in Nat /\ undone'[d] = undone[d]
         /\ Left(rows[d])' + patches[d] <= Left(rows[d]) + patches'[d]
<1> DEFINE r == rows[d]
           o == rows'[d]
<1>1. r \in Row /\ o \in Row /\ patches[d] \in Nat /\ patches'[d] \in Nat
  BY DEF TypeOK
<1>2. /\ MaxAttempts \in Nat \ {0} /\ r.attempts \in Nat /\ o.attempts \in Nat
      /\ r.status \in Statuses \cup {"absent", "deleted"}
      /\ o.status \in Statuses \cup {"absent", "deleted"}
  BY <1>1, MaxAttemptsAssumption DEF Row
<1>3. /\ undone'[d] = undone[d]
      /\ \/ r.status = "absent" /\ o.status = "ready" /\ o.attempts = 0 /\ patches'[d] = patches[d]
         \/ o.status = r.status /\ o.attempts = r.attempts /\ patches'[d] = patches[d]
         \/ o.status = "deleted" /\ patches'[d] = patches[d]
         \/ /\ r.status \in Statuses /\ o.status \in Statuses /\ o.attempts = r.attempts
            /\ patches'[d] = patches[d] + 1
         \/ /\ r.status \in Statuses /\ o.status \in {"done", "failed"}
            /\ o.attempts = r.attempts /\ patches'[d] = patches[d]
  BY TableRow DEF SameRow, SameCosts, Exists
<1>4. \A q \in Row :
        /\ Left(q) \in Nat
        /\ q.status = "absent" => Left(q) = MaxAttempts
        /\ q.status = "deleted" => Left(q) = 0
        /\ q.status \in Statuses =>
              Left(q) = (IF q.status = "ready" THEN 1 ELSE 0)
                          + (IF q.attempts + 1 >= MaxAttempts THEN 0
                                                              ELSE MaxAttempts - 1 - q.attempts)
  BY LeftNumbers
<1> HIDE DEF r, o
<1>5. Left(o) + patches[d] <= Left(r) + patches'[d]
  <2>1. CASE r.status = "absent" /\ o.status = "ready" /\ o.attempts = 0 /\ patches'[d] = patches[d]
    BY <1>1, <1>2, <1>4, <2>1 DEF Statuses
  <2>2. CASE o.status = r.status /\ o.attempts = r.attempts /\ patches'[d] = patches[d]
    BY <1>1, <1>2, <1>4, <2>2
  <2>3. CASE o.status = "deleted" /\ patches'[d] = patches[d]
    BY <1>1, <1>4, <2>3
  <2>4. CASE /\ r.status \in Statuses /\ o.status \in Statuses /\ o.attempts = r.attempts
             /\ patches'[d] = patches[d] + 1
    BY <1>1, <1>2, <1>4, <2>4
  <2>5. CASE /\ r.status \in Statuses /\ o.status \in {"done", "failed"}
             /\ o.attempts = r.attempts /\ patches'[d] = patches[d]
    BY <1>1, <1>2, <1>4, <2>5 DEF Statuses
  <2> QED
    BY <1>3, <2>1, <2>2, <2>3, <2>4, <2>5
<1>6. Left(rows[d])' = Left(o)
  BY DEF o, Left
<1> QED
  BY <1>1, <1>3, <1>5, <1>6 DEF r

LEMMA InitBudget == Init => BudgetInv
<1> SUFFICES ASSUME Init PROVE BudgetInv
  OBVIOUS
<1>1. HandsInv /\ TypeOK
  BY InitHands DEF HandsInv
<1>2. ASSUME NEW d \in Deliveries
      PROVE  Budget(d)
  <2>1. Fetchers(d) = {} /\ Places(d) = {} /\ Limited(d) = {}
    BY SendAssumption DEF Init, Fetchers, Places, Holders, Limited
  <2>2. Unsent(d) = 0
    BY <2>1, FS_EmptySet DEF Unsent
  <2>3. rows[d] \in Row /\ rows[d].status = "absent"
    BY <1>1 DEF TypeOK, Init, AbsentRow
  <2>4. sends[d] = 0 /\ patches[d] = 0 /\ undone[d] = 0
    BY DEF Init
  <2> QED
    BY <2>2, <2>3, <2>4, LeftNumbers, MaxAttemptsAssumption DEF Budget
<1> QED
  BY <1>1, <1>2 DEF BudgetInv

LEMMA BudgetStep ==
  ASSUME TypeOK, TypeOK', OpenInv, [Next]_vars, NEW d \in Deliveries, Budget(d)
  PROVE  Budget(d)'
<1>1. Effect(d)
  BY NextEffect
<1>2. /\ rows[d] \in Row /\ rows'[d] \in Row
      /\ sends[d] \in Nat /\ patches[d] \in Nat /\ undone[d] \in Nat
      /\ sends'[d] \in Nat /\ patches'[d] \in Nat /\ undone'[d] \in Nat
      /\ MaxAttempts \in Nat
  BY MaxAttemptsAssumption DEF TypeOK
<1>3. /\ Unsent(d) \in Nat /\ Left(rows[d]) \in Nat /\ Left(rows'[d]) \in Nat
      /\ rows[d].attempts \in Nat /\ rows'[d].attempts \in Nat
  BY <1>2, HandCounts, LeftNumbers DEF Row
<1>4. Left(rows[d])' = Left(rows'[d])
  BY DEF Left
<1>5. SameRow(d) => Left(rows'[d]) = Left(rows[d])
  BY DEF SameRow, Left
<1>6. CASE Passes(d) \/ Leaves(d)
  BY <1>2, <1>3, <1>4, <1>5, <1>6 DEF Budget, Passes, Leaves, SameCosts, Fewer
<1>7. CASE Taken(d)
  <2>1. Left(rows'[d]) + 1 <= Left(rows[d])
    BY <1>2, <1>3, <1>7, LeftNumbers DEF Taken, Statuses
  <2> QED
    BY <1>2, <1>3, <1>4, <1>7, <2>1 DEF Budget, Taken, SameCosts
<1>8. CASE GivenBack(d)
  <2>1. Left(rows'[d]) <= Left(rows[d]) + 1
    BY <1>2, <1>3, <1>8, LeftNumbers DEF GivenBack, Statuses
  <2> QED
    BY <1>2, <1>3, <1>4, <1>8, <2>1 DEF Budget, GivenBack, Fewer
<1>9. CASE Recorded(d)
  <2>1. PICK w \in Workers :
          /\ held[w] = d /\ pc[w] = "db" /\ rows'[d] = Outcome(w)
          /\ SameCosts(d) /\ sends'[d] = sends[d]
          /\ Unsent(d)' \in Nat /\ Unsent(d)' <= Unsent(d)
    BY <1>9 DEF Recorded
  <2>2. Left(rows'[d]) <= Left(rows[d])
    BY <2>1, OutcomeLeft
  <2> QED
    BY <1>2, <1>3, <1>4, <2>1, <2>2 DEF Budget, SameCosts
<1>10. CASE Stated(d)
  BY <1>2, <1>3, <1>4, <1>10, TableLeft DEF Budget, Stated, Fewer
<1> QED
  BY <1>1, <1>6, <1>7, <1>8, <1>9, <1>10 DEF Effect

LEMMA NextBudget ==
  ASSUME BudgetInv, [Next]_vars
  PROVE  BudgetInv'
BY NextHands, TypeStep, BudgetStep DEF BudgetInv, HandsInv

\* However processes crash, stop, lose database calls or share the table, a
\* delivery goes out at most MaxAttempts times, and once more for each PATCH,
\* be it of a row that is being processed, and for each claim rolled back
\* after it was handed on.
THEOREM BoundedSends == Spec => []SendsBounded
<1>1. BudgetInv /\ [Next]_vars => BudgetInv'
  BY NextBudget
<1>2. BudgetInv => SendsBounded
  <2> SUFFICES ASSUME BudgetInv, NEW d \in Deliveries
               PROVE  sends[d] <= MaxAttempts + patches[d] + undone[d]
    BY DEF SendsBounded
  <2>1. TypeOK /\ Budget(d)
    BY DEF BudgetInv, HandsInv
  <2>2. /\ rows[d] \in Row /\ sends[d] \in Nat /\ patches[d] \in Nat /\ undone[d] \in Nat
        /\ MaxAttempts \in Nat
    BY <2>1, MaxAttemptsAssumption DEF TypeOK
  <2>3. Unsent(d) \in Nat /\ Left(rows[d]) \in Nat
    BY <2>1, <2>2, HandCounts, LeftNumbers
  <2> QED
    BY <2>1, <2>2, <2>3 DEF Budget
<1> QED
  BY InitBudget, <1>1, <1>2, PTL DEF Spec
=============================================================================
