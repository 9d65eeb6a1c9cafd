------------------------ MODULE SendRefinementProofs -----------------------
(***************************************************************************)
(* Proofs that relate what SendPipeline does to what became of each        *)
(* delivery: that SendPipeline implements DeliveryLifecycle, that final    *)
(* statuses are earned, that nothing accepted is sent again, and, while    *)
(* nothing fails, that nothing is stranded.                                *)
(*                                                                         *)
(* Most of them go through one classification of the steps by what they do *)
(* to a single delivery that is Sound (Deed), which is proved action by    *)
(* action once.                                                            *)
(***************************************************************************)
EXTENDS SendRefinement, SendPipelineProofs

-----------------------------------------------------------------------------
(* Whose hands a delivery is in.                                           *)

Fetched(d) == \E p \in Procs : d \in batch[p]
Queued(d) == \E p \in Procs : \E i \in DOMAIN sendCh[p] : sendCh[p][i] = d
Worked(d) == \E w \in Workers : held[w] = d

LEMMA WhoseHands ==
  ASSUME NEW d
  PROVE  /\ Fetched(d) <=> Fetchers(d) # {}
         /\ Queued(d) <=> Places(d) # {}
         /\ Worked(d) <=> Holders(d) # {}
         /\ InHand(d) <=> Fetched(d) \/ Queued(d) \/ Worked(d)
<1>1. Fetched(d) <=> Fetchers(d) # {}
  BY DEF Fetched, Fetchers
<1>2. Queued(d) <=> Places(d) # {}
  <2>1. ASSUME NEW p \in Procs, NEW i \in DOMAIN sendCh[p], sendCh[p][i] = d
        PROVE  <<p, i>> \in Places(d)
    BY <2>1 DEF Places
  <2>2. Places(d) # {} => Queued(d)
    BY DEF Places, Queued
  <2> QED
    BY <2>1, <2>2 DEF Queued
<1>3. Worked(d) <=> Holders(d) # {}
  BY DEF Worked, Holders
<1> QED
  BY <1>1, <1>2, <1>3 DEF InHand

LEMMA WhoseHandsNext ==
  ASSUME NEW d
  PROVE  InHand(d)' <=> Fetched(d)' \/ Queued(d)' \/ Worked(d)'
<1>1. InHand(d) <=> Fetched(d) \/ Queued(d) \/ Worked(d)
  BY WhoseHands
<1> QED
  BY <1>1, PTL

\* One hand, and no hand but of what is claimed.
HandsApart(d) ==
  /\ Fetched(d) \/ Queued(d) => ~Worked(d)
  /\ \A v, w \in Workers : held[v] = d /\ held[w] = d => v = w
  /\ InHand(d) => rows[d].status \in {"processing", "deleted"}

LEMMA KeptApart ==
  ASSUME TypeOK, NEW d \in Deliveries, Kept(d)
  PROVE  HandsApart(d)
<1>1. /\ IsFiniteSet(Fetchers(d)) /\ IsFiniteSet(Places(d)) /\ IsFiniteSet(Holders(d))
  BY FiniteHands
<1>2. /\ Cardinality(Fetchers(d)) \in Nat /\ Cardinality(Places(d)) \in Nat
      /\ Cardinality(Holders(d)) \in Nat
      /\ Fetchers(d) # {} => Cardinality(Fetchers(d)) # 0
      /\ Places(d) # {} => Cardinality(Places(d)) # 0
      /\ Holders(d) # {} => Cardinality(Holders(d)) # 0
  BY <1>1, FS_CardinalityType, FS_EmptySet
<1>3. Cardinality(Fetchers(d)) + Cardinality(Places(d)) + Cardinality(Holders(d)) <= 1
  BY HandCounts DEF Kept, Hands
<1>4. Fetchers(d) # {} \/ Places(d) # {} => Holders(d) = {}
  BY <1>2, <1>3
<1>5. ASSUME NEW v \in Workers, NEW w \in Workers, held[v] = d, held[w] = d, v # w
      PROVE  FALSE
  <2>1. v \in Holders(d) /\ {w} \subseteq Holders(d) \ {v}
    BY <1>5 DEF Holders
  <2>2. Cardinality({w}) + 1 <= Cardinality(Holders(d))
    BY <1>1, <2>1, Counting
  <2>3. Cardinality({w}) = 1
    BY FS_Singleton
  <2> QED
    BY <1>2, <1>3, <2>2, <2>3
<1>6. InHand(d) => rows[d].status \in {"processing", "deleted"}
  BY HandCounts DEF Kept
<1> QED
  BY <1>4, <1>5, <1>6, WhoseHands DEF HandsApart

-----------------------------------------------------------------------------
(* The stage of a delivery in the memory of the processes.                 *)

\* The stage of the delivery that worker w holds.
WorkerStage(w) ==
  CASE pc[w] = "limit" -> "claimed"
    [] pc[w] = "http"  -> "sending"
    [] pc[w] = "db" /\ reply[w] \in {"ok", "job"} -> "accepted"
    [] OTHER -> "refused"

\* Whoever has a delivery in hand determines its stage.
StageTold(d) ==
  /\ Fetched(d) \/ Queued(d) => ClaimedStage(d) = "claimed"
  /\ \A w \in Workers : held[w] = d => ClaimedStage(d) = WorkerStage(w)
  /\ ~InHand(d) => ClaimedStage(d) = "lost"

LEMMA StagesOfHands ==
  ASSUME TypeOK, NEW d \in Deliveries, HandsApart(d)
  PROVE  StageTold(d)
<1> DEFINE Sending  == At(d, {"http"}, AllReplies)
           Accepted == At(d, {"db"}, {"ok", "job"})
           Refused  == At(d, {"db"}, {"retryable", "terminal"})
           Waiting  == At(d, {"limit"}, AllReplies)
<1>1. ClaimedStage(d) =
        CASE Sending  -> "sending"
          [] Accepted -> "accepted"
          [] Refused  -> "refused"
          [] Fetched(d) \/ Queued(d) \/ Waiting -> "claimed"
          [] OTHER    -> "lost"
  BY WhoseHands DEF ClaimedStage
<1>2. ~Worked(d) => ~Sending /\ ~Accepted /\ ~Refused /\ ~Waiting
  BY DEF Worked, At
<1>3. ASSUME Fetched(d) \/ Queued(d)
      PROVE  ClaimedStage(d) = "claimed"
  <2>1. ~Worked(d)
    BY <1>3 DEF HandsApart
  <2> HIDE DEF Sending, Accepted, Refused, Waiting
  <2> QED
    BY <1>1, <1>2, <1>3, <2>1
<1>4. ASSUME NEW w \in Workers, held[w] = d
      PROVE  ClaimedStage(d) = WorkerStage(w)
  <2>1. \A v \in Workers : held[v] = d => v = w
    BY <1>4 DEF HandsApart
  <2>2. /\ pc[w] \in {"limit", "http", "db"}
        /\ reply[w] \in AllReplies
        /\ reply[w] = "none" <=> pc[w] # "db"
    BY <1>4, SendAssumption DEF TypeOK
  <2>3. \A P, R : At(d, P, R) <=> pc[w] \in P /\ reply[w] \in R
    BY <1>4, <2>1 DEF At
  <2>4. /\ Sending <=> pc[w] = "http"
        /\ Accepted <=> pc[w] = "db" /\ reply[w] \in {"ok", "job"}
        /\ Refused <=> pc[w] = "db" /\ reply[w] \notin {"ok", "job"}
        /\ Waiting <=> pc[w] = "limit"
    BY <2>2, <2>3 DEF AllReplies
  <2>5. ~Fetched(d) /\ ~Queued(d)
    BY <1>4 DEF HandsApart, Worked
  <2> HIDE DEF Sending, Accepted, Refused, Waiting
  <2>6. CASE pc[w] = "limit"
    BY <1>1, <2>4, <2>5, <2>6 DEF WorkerStage
  <2>7. CASE pc[w] = "http"
    BY <1>1, <2>4, <2>5, <2>7 DEF WorkerStage
  <2>8. CASE pc[w] = "db"
    BY <1>1, <2>4, <2>5, <2>8 DEF WorkerStage
  <2> QED
    BY <2>2, <2>6, <2>7, <2>8
<1>5. ASSUME ~InHand(d)
      PROVE  ClaimedStage(d) = "lost"
  <2>1. ~Fetched(d) /\ ~Queued(d) /\ ~Worked(d)
    BY <1>5, WhoseHands
  <2> HIDE DEF Sending, Accepted, Refused, Waiting
  <2> QED
    BY <1>1, <1>2, <2>1
<1> QED
  BY <1>3, <1>4, <1>5 DEF StageTold

\* What is known of a delivery that nobody interfered with.
Clear(d) == HandsApart(d) /\ StageTold(d)

ClearInv == \A d \in Deliveries : Sound(d) => Clear(d)

LEMMA SoundIsClear == HandsInv => ClearInv
BY KeptApart, StagesOfHands DEF HandsInv, Clear, ClearInv

LEMMA SoundIsClearNext ==
  ASSUME HandsInv', NEW d \in Deliveries, Sound(d)'
  PROVE  Clear(d)'
<1>1. ClearInv'
  BY SoundIsClear, PTL
<1> QED
  BY <1>1 DEF ClearInv

LEMMA StageNames ==
  ASSUME NEW d \in Deliveries, StageTold(d)
  PROVE  /\ ClaimedStage(d) = "lost" <=> ~InHand(d)
         /\ ClaimedStage(d) \in {"claimed", "sending", "accepted", "refused", "lost"}
<1>1. \A w \in Workers : WorkerStage(w) \in {"claimed", "sending", "accepted", "refused"}
  BY DEF WorkerStage
<1> QED
  BY <1>1, WhoseHands DEF StageTold, Worked

\* A step that moves nothing that has to do with d leaves its stage.
LEMMA StageKept ==
  ASSUME NEW d \in Deliveries, StageTold(d), StageTold(d)',
         Fetched(d)' \/ Queued(d)' <=> Fetched(d) \/ Queued(d),
         \A w \in Workers : held'[w] = d <=> held[w] = d,
         \A w \in Workers : held[w] = d => pc'[w] = pc[w] /\ reply'[w] = reply[w]
  PROVE  ClaimedStage(d)' = ClaimedStage(d)
<1>1. CASE Fetched(d) \/ Queued(d)
  BY <1>1 DEF StageTold
<1>2. ASSUME NEW w \in Workers, held[w] = d
      PROVE  ClaimedStage(d)' = ClaimedStage(d)
  <2>1. WorkerStage(w)' = WorkerStage(w)
    BY <1>2 DEF WorkerStage
  <2> QED
    BY <1>2, <2>1 DEF StageTold
<1>3. CASE ~InHand(d)
  <2>1. ~InHand(d)'
    BY <1>3, WhoseHands, WhoseHandsNext DEF Worked
  <2> QED
    BY <1>3, <2>1 DEF StageTold
<1> QED
  BY <1>1, <1>2, <1>3, WhoseHands DEF Worked

\* A step that gives d to nobody leaves its stage, or takes it out of every
\* hand.
LEMMA StageKeptOrLost ==
  ASSUME NEW d \in Deliveries, StageTold(d), StageTold(d)',
         Fetched(d)' \/ Queued(d)' => Fetched(d) \/ Queued(d),
         \A w \in Workers :
           held'[w] = d => held[w] = d /\ pc'[w] = pc[w] /\ reply'[w] = reply[w]
  PROVE  ClaimedStage(d)' = ClaimedStage(d) \/ ClaimedStage(d)' = "lost"
<1>1. CASE Fetched(d)' \/ Queued(d)'
  BY <1>1 DEF StageTold
<1>2. ASSUME NEW w \in Workers, held'[w] = d
      PROVE  ClaimedStage(d)' = ClaimedStage(d)
  <2>1. WorkerStage(w)' = WorkerStage(w)
    BY <1>2 DEF WorkerStage
  <2> QED
    BY <1>2, <2>1 DEF StageTold
<1>3. CASE ~InHand(d)'
  BY <1>3 DEF StageTold
<1> QED
  BY <1>1, <1>2, <1>3, WhoseHandsNext DEF Worked

-----------------------------------------------------------------------------
(* How hands change: the two steps that pass a delivery on.                *)

LEMMA DispatchMoves ==
  ASSUME TypeOK, NEW p \in Procs, NEW e \in Deliveries, Dispatch(p, e),
         NEW d \in Deliveries
  PROVE  /\ Fetched(e)
         /\ Queued(d)' <=> Queued(d) \/ d = e
         /\ Fetched(d)' => Fetched(d)
         /\ Fetched(d) => Fetched(d)' \/ d = e
<1> DEFINE c == sendCh[p]
<1>1. /\ c \in Seq(Deliveries) /\ sendCh'[p] = Append(c, e)
      /\ e \in batch[p] /\ batch'[p] = batch[p] \ {e}
      /\ \A q \in Procs \ {p} : batch'[q] = batch[q] /\ sendCh'[q] = sendCh[q]
  BY DEF Dispatch, TypeOK
<1>2. /\ DOMAIN c = 1 .. Len(c) /\ Len(c) \in Nat
      /\ DOMAIN sendCh'[p] = 1 .. Len(c) + 1
      /\ \A i \in 1 .. Len(c) : sendCh'[p][i] = c[i]
      /\ sendCh'[p][Len(c) + 1] = e
  BY <1>1, ChannelAppend
<1>3. \A i \in DOMAIN c : i \in DOMAIN sendCh'[p] /\ sendCh'[p][i] = c[i]
  BY <1>2
<1>4. Len(c) + 1 \in DOMAIN sendCh'[p]
  BY <1>2
<1>5. \A i \in DOMAIN sendCh'[p] : sendCh'[p][i] = e \/ (i \in DOMAIN c /\ sendCh'[p][i] = c[i])
  BY <1>2
<1>6. Queued(d)' => Queued(d) \/ d = e
  <2> SUFFICES ASSUME NEW q \in Procs, NEW i \in DOMAIN sendCh'[q], sendCh'[q][i] = d, d # e
               PROVE  \E j \in DOMAIN sendCh[q] : sendCh[q][j] = d
    BY DEF Queued
  <2> QED
    BY <1>1, <1>5
<1>7. Queued(d) => Queued(d)'
  <2> SUFFICES ASSUME NEW q \in Procs, NEW i \in DOMAIN sendCh[q], sendCh[q][i] = d
               PROVE  \E j \in DOMAIN sendCh'[q] : sendCh'[q][j] = d
    BY DEF Queued
  <2> QED
    BY <1>1, <1>3
<1>8. d = e => Queued(d)'
  BY <1>2, <1>4 DEF Queued
<1> QED
  BY <1>1, <1>6, <1>7, <1>8 DEF Fetched

LEMMA ReceiveMoves ==
  ASSUME TypeOK, NEW w \in Workers, Receive(w)
  PROVE  \E e \in Deliveries :
           /\ Queued(e)
           /\ held[w] = NoDelivery /\ pc[w] = "idle"
           /\ held' = [held EXCEPT ![w] = e] /\ pc' = [pc EXCEPT ![w] = "limit"]
           /\ \A d \in Deliveries : Queued(d)' => Queued(d)
           /\ \A d \in Deliveries \ {e} : Queued(d) => Queued(d)'
<1> USE DEF dbVars, history
<1> DEFINE p == Owner[w]
           c == sendCh[p]
<1>1. /\ p \in Procs /\ c \in Seq(Deliveries) /\ c # <<>>
      /\ pc[w] = "idle" /\ held[w] = NoDelivery
  BY SendAssumption DEF Receive, TypeOK
<1>2. PICK e \in Deliveries : e = Head(c)
  BY <1>1, ChannelTail
<1>3. /\ sendCh'[p] = Tail(c) /\ \A q \in Procs \ {p} : sendCh'[q] = sendCh[q]
      /\ held' = [held EXCEPT ![w] = e] /\ pc' = [pc EXCEPT ![w] = "limit"]
  BY <1>1, <1>2 DEF Receive, TypeOK
<1> HIDE DEF p, c
<1>4. /\ DOMAIN c = 1 .. Len(c) /\ Len(c) \in Nat \ {0}
      /\ DOMAIN sendCh'[p] = 1 .. Len(c) - 1
      /\ \A i \in 1 .. Len(c) - 1 : sendCh'[p][i] = c[i + 1]
      /\ e = c[1]
  BY <1>1, <1>2, <1>3, ChannelTail
<1>5. Queued(e)
  BY <1>1, <1>4 DEF Queued, c
<1>6. ASSUME NEW d \in Deliveries, Queued(d)'
      PROVE  Queued(d)
  <2>1. \A i \in DOMAIN sendCh'[p] : i + 1 \in DOMAIN c /\ sendCh'[p][i] = c[i + 1]
    BY <1>4
  <2>2. PICK q \in Procs : \E i \in DOMAIN sendCh'[q] : sendCh'[q][i] = d
    BY <1>6 DEF Queued
  <2> QED
    BY <1>3, <2>1, <2>2 DEF Queued, c
<1>7. ASSUME NEW d \in Deliveries, d # e, Queued(d)
      PROVE  Queued(d)'
  <2>1. \A i \in DOMAIN c : c[i] = d => i - 1 \in DOMAIN sendCh'[p] /\ sendCh'[p][i - 1] = c[i]
    BY <1>4, <1>7
  <2>2. PICK q \in Procs : \E i \in DOMAIN sendCh[q] : sendCh[q][i] = d
    BY <1>7 DEF Queued
  <2> QED
    BY <1>3, <2>1, <2>2 DEF Queued, c
<1> QED
  BY <1>1, <1>3, <1>5, <1>6, <1>7

-----------------------------------------------------------------------------
(* What a step is to one delivery.                                         *)

AckedKept(d) == d \in acked' <=> d \in acked
CostsKept(d) == patches'[d] = patches[d] /\ undone'[d] = undone[d]
PlaceKept(d) == ClaimedStage(d)' = ClaimedStage(d) /\ sends'[d] = sends[d] /\ AckedKept(d)
RowKept(d) == SameRow(d) /\ verdict'[d] = verdict[d] /\ CostsKept(d)
HistoryKept(d) == sends'[d] = sends[d] /\ AckedKept(d) /\ CostsKept(d)

\* The table's statements, and the steps that are about other deliveries.
Stays(d) == PlaceKept(d) /\ RowKept(d)
Inserted(d) ==
  /\ PlaceKept(d) /\ CostsKept(d)
  /\ rows[d].status = "absent"
  /\ rows'[d].status = "ready" /\ rows'[d].attempts = 0
Deleted(d) ==
  /\ PlaceKept(d) /\ CostsKept(d)
  /\ rows[d].status \in Statuses
  /\ rows'[d].status = "deleted" /\ rows'[d].attempts = 0
\* Only the first answer that tells the job's end changes the status.
Told(d) ==
  /\ PlaceKept(d) /\ CostsKept(d) /\ rows'[d].attempts = rows[d].attempts
  /\ \/ rows[d].status \in {"done", "deleted"} /\ rows'[d].status = rows[d].status
     \/ /\ rows[d].status = "awaiting_async"
        /\ rows'[d].status \in {"awaiting_async", "done"}
     \/ /\ rows[d].status \in {"awaiting_async", "failed"}
        /\ rows'[d].status = "failed" /\ verdict'[d] = "FAILED"
\* An operator's PATCH, of a row that nobody works on.
Patched(d) ==
  /\ PlaceKept(d) /\ patches'[d] = patches[d] + 1 /\ undone'[d] = undone[d]
  /\ rows[d].status \in Statuses \ {"processing"} /\ rows'[d].status \in Statuses
  /\ rows'[d].attempts = rows[d].attempts

\* A claim: into the hands of a dispatcher, or lost on the way to it.
Granted(d) ==
  /\ HistoryKept(d)
  /\ rows[d].status = "ready" /\ rows'[d].status = "processing"
  /\ rows'[d].attempts = rows[d].attempts
  /\ ClaimedStage(d) = "lost" /\ ClaimedStage(d)' \in {"claimed", "lost"}

\* It is rolled back before the row is handed on.
HandedBack(d) ==
  /\ HistoryKept(d)
  /\ rows[d].status = "processing" /\ rows'[d].status = "ready"
  /\ rows'[d].attempts = rows[d].attempts
  /\ ClaimedStage(d) = "claimed" /\ ClaimedStage(d)' = "lost"

\* The steps of the worker that holds it.
WentOut(d) ==
  /\ RowKept(d) /\ AckedKept(d)
  /\ ClaimedStage(d) = "claimed" /\ ClaimedStage(d)' = "sending"
  /\ sends'[d] = sends[d] + 1
CalledOff(d) ==
  /\ RowKept(d) /\ HistoryKept(d)
  /\ ClaimedStage(d) = "claimed" /\ ClaimedStage(d)' = "refused"
GotReply(d) ==
  /\ RowKept(d) /\ sends'[d] = sends[d]
  /\ ClaimedStage(d) = "sending"
  /\ \/ ClaimedStage(d)' = "accepted" /\ d \in acked'
     \/ ClaimedStage(d)' = "refused" /\ AckedKept(d)
WroteBack(d) ==
  /\ HistoryKept(d) /\ ClaimedStage(d)' = "lost"
  /\ \/ /\ ClaimedStage(d) \in {"accepted", "refused"}
        /\ rows[d].status = "deleted" /\ rows'[d] = rows[d]
     \/ /\ ClaimedStage(d) = "accepted" /\ rows[d].status = "processing"
        /\ rows'[d].status \in {"done", "awaiting_async"}
        /\ rows'[d].attempts = rows[d].attempts
     \/ /\ ClaimedStage(d) = "refused" /\ rows[d].status = "processing"
        /\ rows'[d].attempts = rows[d].attempts + 1
        /\ rows'[d].status = IF rows'[d].attempts >= MaxAttempts THEN "failed"
                                                                 ELSE "ready"

\* It drops out of every hand and its row stays as it is: a crash, an
\* abandoned batch, a limiter or a database call that fails.
Dropped(d) ==
  /\ RowKept(d) /\ HistoryKept(d)
  /\ ClaimedStage(d) \in {"claimed", "sending", "accepted", "refused"}
  /\ ClaimedStage(d)' = "lost"

Deed(d) ==
  \/ Stays(d) \/ Inserted(d) \/ Deleted(d) \/ Told(d) \/ Patched(d)
  \/ Granted(d) \/ HandedBack(d) \/ WentOut(d) \/ CalledOff(d) \/ GotReply(d)
  \/ WroteBack(d) \/ Dropped(d)

\* A delivery that stays sound, and what that says of its hands.
StaysClear(d) ==
  /\ TypeOK /\ OpenInv
  /\ Kept(d) /\ Clear(d) /\ Clear(d)' /\ Sound(d)' /\ Sound(d)

\* The statements of the table.
LEMMA TableDeed ==
  ASSUME NEW d \in Deliveries, StaysClear(d), Table
  PROVE  Deed(d)
<1> USE DEF dbVars, asked, operators, procVars, workerVars, history
<1>0. TypeOK /\ Kept(d) /\ rows[d] \in Row
  BY DEF StaysClear, TypeOK
<1>1. UNCHANGED <<batch, sendCh, held, pc, reply, sends, acked>>
  BY TableSteps DEF TableStep, Insert, BecomesDue, ToggleSuspended, Patch, Delete,
     PollClaimed, Polled, PollsEnd
<1>2. Fetched(d)' \/ Queued(d)' <=> Fetched(d) \/ Queued(d)
  BY <1>1 DEF Fetched, Queued
<1>3. PlaceKept(d)
  BY <1>1, <1>2, StageKept DEF PlaceKept, AckedKept, StaysClear, Clear
<1>4. PICK e \in Deliveries : TableStep(e)
  BY TableSteps
<1>5. CASE e # d
  <2>1. rows'[d] = rows[d] /\ verdict'[d] = verdict[d] /\ CostsKept(d)
    BY <1>0, <1>4, <1>5 DEF TypeOK, CostsKept, TableStep, Insert, BecomesDue,
       ToggleSuspended, Patch, Delete, PollClaimed, Polled, PollsEnd
  <2> QED
    BY <1>3, <2>1 DEF Deed, Stays, RowKept, SameRow
<1>6. CASE e = d
  <2>0. TableStep(d)
    BY <1>4, <1>6
  <2>1. CASE /\ Insert(d) /\ rows[d].status = "absent"
             /\ rows'[d].status = "ready" /\ rows'[d].attempts = 0
             /\ SameAsked(d) /\ SameCosts(d)
    BY <1>3, <2>1 DEF Deed, Inserted, SameCosts, CostsKept
  <2>2. CASE SameRow(d) /\ SameCosts(d) /\ verdict'[d] = verdict[d]
    BY <1>3, <2>2 DEF Deed, Stays, RowKept, SameCosts, CostsKept
  <2>3. CASE /\ rows[d].status \in Statuses
             /\ rows'[d].status = "deleted" /\ rows'[d].attempts = 0 /\ SameCosts(d)
    BY <1>3, <2>3 DEF Deed, Deleted, SameCosts, CostsKept
  <2>4. CASE /\ rows[d].status \in Statuses /\ rows'[d].status \in Statuses
             /\ rows'[d].attempts = rows[d].attempts
             /\ undone'[d] = undone[d] /\ patches'[d] = patches[d] + 1
             /\ d \in meddled' <=> d \in meddled \/ Meddles(d, rows'[d].status)
    <3>1. rows[d].status # "processing"
      BY <2>4 DEF StaysClear, Sound, Meddles
    <3> QED
      BY <1>3, <2>4, <3>1 DEF Deed, Patched
  <2>5. ASSUME d \in polling, SameCosts(d), NEW s \in Answers(d),
               verdict'[d] = IF s = "RUNNING" THEN verdict[d] ELSE s,
               rows'[d].status = IF ~Exists(rows[d]) \/ s = "RUNNING" THEN rows[d].status
                                 ELSE IF s = "COMPLETED" THEN "done" ELSE "failed",
               rows'[d].attempts = rows[d].attempts
        PROVE  Deed(d)
    <3>1. /\ rows[d].status \in {"awaiting_async", "done", "failed", "deleted"}
          /\ rows[d].status = "done" => verdict[d] = "COMPLETED"
          /\ rows[d].status = "failed" => verdict[d] = "FAILED"
      BY <1>0, <2>5 DEF Kept
    <3>2. /\ s \in {"RUNNING", "COMPLETED", "FAILED"}
          /\ verdict[d] # "none" => s \in {verdict[d], "RUNNING"}
      BY <1>0 DEF Answers, TypeOK, StaysClear
    <3>3. Exists(rows[d]) <=> rows[d].status # "deleted"
      BY <3>1 DEF Exists, Statuses
    <3>4. /\ rows[d].status \in {"done", "deleted"} => rows'[d].status = rows[d].status
          /\ rows[d].status = "failed" => rows'[d].status = "failed" /\ verdict'[d] = "FAILED"
      BY <2>5, <3>1, <3>2, <3>3
    <3>5. rows[d].status = "awaiting_async"
            => \/ rows'[d].status \in {"awaiting_async", "done"}
               \/ rows'[d].status = "failed" /\ verdict'[d] = "FAILED"
      BY <2>5, <3>2, <3>3
    <3>6. Told(d)
      BY <1>3, <2>5, <3>1, <3>4, <3>5 DEF Told, SameCosts, CostsKept
    <3> QED
      BY <3>6 DEF Deed
  <2> QED
    BY <1>0, <2>0, <2>1, <2>2, <2>3, <2>4, <2>5, TableRow DEF SameAsked
<1> QED
  BY <1>5, <1>6

\* A claim, if it takes d at all.
LEMMA ClaimDeed ==
  ASSUME NEW d \in Deliveries, StaysClear(d), NEW S \in Picks, rows' = Claimed(S),
         UNCHANGED <<sendCh, held, pc, reply, sends, acked, asked, operators, undone>>,
         Fetched(d)' => Fetched(d) \/ d \in S,
         Fetched(d) => Fetched(d)'
  PROVE  Deed(d)
<1> USE DEF asked, operators
<1>1. (Queued(d)' <=> Queued(d)) /\ (Worked(d)' <=> Worked(d))
  BY DEF Queued, Worked
<1>2. StageTold(d) /\ StageTold(d)' /\ HandsApart(d) /\ TypeOK /\ OpenInv
  BY DEF StaysClear, Clear
<1>3. CASE d \in S
  <2>1. /\ rows[d].status = "ready" /\ rows'[d].status = "processing"
        /\ rows'[d].attempts = rows[d].attempts
    BY <1>2, <1>3, ClaimOpens
  <2>2. ~InHand(d) /\ ~Queued(d) /\ ~Worked(d)
    BY <1>2, <2>1, WhoseHands DEF HandsApart
  <2>3. ClaimedStage(d) = "lost"
    BY <1>2, <2>2 DEF StageTold
  <2>4. ClaimedStage(d)' \in {"claimed", "lost"}
    BY <1>1, <1>2, <2>2, WhoseHandsNext DEF StageTold
  <2> QED
    BY <2>1, <2>3, <2>4 DEF Deed, Granted, HistoryKept, AckedKept, CostsKept
<1>4. CASE d \notin S
  <2>1. rows'[d] = rows[d]
    BY <1>4 DEF Claimed
  <2>2. ClaimedStage(d)' = ClaimedStage(d)
    BY <1>1, <1>2, <1>4, StageKept
  <2> QED
    BY <2>1, <2>2 DEF Deed, Stays, PlaceKept, RowKept, AckedKept, CostsKept, SameRow
<1> QED
  BY <1>3, <1>4

\* The end of a claim, with the rest of its rows or with the whole process.
LEMMA ClaimEndsDeed ==
  ASSUME NEW d \in Deliveries, StaysClear(d), NEW p \in Procs, ClaimEnds(p),
         UNCHANGED <<sends, acked, asked, operators>>,
         \A q \in Procs : sendCh'[q] = sendCh[q] \/ sendCh'[q] = <<>>,
         \A w \in Workers :
           held'[w] = d => held[w] = d /\ pc'[w] = pc[w] /\ reply'[w] = reply[w]
  PROVE  Deed(d)
<1> USE DEF asked, operators
<1>1. /\ TypeOK /\ OpenInv /\ HandsApart(d)' /\ StageTold(d) /\ StageTold(d)'
      /\ undone[d] = 0 /\ undone'[d] = 0
  BY DEF StaysClear, Clear, Sound
<1>2. CASE RolledBack(p) /\ d \in open[p]
  <2>1. /\ rows[d].status = "processing" /\ rows'[d].status = "ready"
        /\ rows'[d].attempts = rows[d].attempts
    <3>1. rows[d] \in Row /\ rows[d].status = "processing"
      BY <1>1, <1>2 DEF TypeOK, OpenInv
    <3> QED
      BY <1>2, <3>1 DEF RolledBack, Row
  <2>2. d \in batch[p]
    BY <1>1, <1>2 DEF RolledBack
  <2>3. ClaimedStage(d) = "claimed"
    BY <1>1, <2>2 DEF StageTold, Fetched
  <2>4. ClaimedStage(d)' = "lost"
    BY <1>1, <2>1 DEF HandsApart, StageTold
  <2> QED
    BY <1>1, <2>1, <2>3, <2>4 DEF Deed, HandedBack, HistoryKept, AckedKept, CostsKept
<1>3. CASE ~(RolledBack(p) /\ d \in open[p])
  <2>1. rows'[d] = rows[d]
    BY <1>3 DEF ClaimEnds, RolledBack
  <2>2. Fetched(d)' => Fetched(d)
    BY <1>1 DEF ClaimEnds, TypeOK, Fetched
  <2>3. Queued(d)' => Queued(d)
    BY DEF Queued
  <2>4. ClaimedStage(d)' = ClaimedStage(d) \/ ClaimedStage(d)' = "lost"
    BY <1>1, <2>2, <2>3, StageKeptOrLost
  <2> QED
    BY <1>1, <2>1, <2>4, StageNames DEF Deed, Stays, Dropped, PlaceKept, RowKept,
       HistoryKept, AckedKept, CostsKept, SameRow
<1> QED
  BY <1>2, <1>3

\* The steps of a dispatcher and of its process.
LEMMA ProcessDeed ==
  ASSUME NEW d \in Deliveries, StaysClear(d), NEW p \in Procs,
         Dispatcher(p) \/ Operation(p)
  PROVE  Deed(d)
<1> USE DEF dbVars, asked, operators, procVars, workerVars, history
<1>0. TypeOK /\ StageTold(d) /\ StageTold(d)'
  BY DEF StaysClear, Clear
<1>1. CASE ClaimDeliveries(p)
  <2>1. PICK S \in Picks : rows' = Claimed(S) /\ batch' = [batch EXCEPT ![p] = S]
    BY <1>1 DEF ClaimDeliveries
  <2>2. /\ batch[p] = {} /\ batch'[p] = S /\ \A q \in Procs \ {p} : batch'[q] = batch[q]
        /\ UNCHANGED <<sendCh, held, pc, reply, sends, acked, asked, operators, undone>>
    BY <1>0, <1>1, <2>1 DEF ClaimDeliveries, TypeOK
  <2>3. (Fetched(d)' => Fetched(d) \/ d \in S) /\ (Fetched(d) => Fetched(d)')
    BY <2>2 DEF Fetched
  <2> QED
    BY <2>1, <2>2, <2>3, ClaimDeed
<1>2. CASE ClaimLost(p) \/ Signal(p)
  <2>1. UNCHANGED <<batch, sendCh, held, pc, reply, sends, acked, asked, operators, undone>>
    BY <1>2 DEF ClaimLost, Signal
  <2>2. (Fetched(d)' <=> Fetched(d)) /\ (Queued(d)' <=> Queued(d))
    BY <2>1 DEF Fetched, Queued
  <2>3. CASE rows' = rows
    <3>1. ClaimedStage(d)' = ClaimedStage(d)
      BY <1>0, <2>1, <2>2, StageKept
    <3> QED
      BY <2>1, <2>3, <3>1 DEF Deed, Stays, PlaceKept, RowKept, AckedKept, CostsKept,
         SameRow
  <2>4. CASE \E S \in Picks : rows' = Claimed(S)
    BY <2>1, <2>2, <2>4, ClaimDeed
  <2> QED
    BY <1>2, <2>3, <2>4 DEF ClaimLost, Signal
<1>3. CASE \E e \in Deliveries : Dispatch(p, e)
  <2>1. PICK e \in Deliveries : Dispatch(p, e)
    BY <1>3
  <2>2. UNCHANGED <<rows, asked, operators, undone, held, pc, reply, sends, acked>>
    BY <2>1 DEF Dispatch
  <2>3. Fetched(d)' \/ Queued(d)' <=> Fetched(d) \/ Queued(d)
    BY <1>0, <2>1, DispatchMoves
  <2>4. ClaimedStage(d)' = ClaimedStage(d)
    BY <1>0, <2>2, <2>3, StageKept
  <2> QED
    BY <2>2, <2>4 DEF Deed, Stays, PlaceKept, RowKept, AckedKept, CostsKept, SameRow
<1>4. CASE AbandonBatch(p)
  BY <1>4, ClaimEndsDeed DEF AbandonBatch
<1>5. CASE Crash(p)
  <2>1. \A q \in Procs : sendCh'[q] = sendCh[q] \/ sendCh'[q] = <<>>
    BY <1>0, <1>5 DEF Crash, TypeOK
  <2>2. \A w \in Workers :
          held'[w] = d => held[w] = d /\ pc'[w] = pc[w] /\ reply'[w] = reply[w]
    BY <1>5, SendAssumption DEF Crash
  <2> QED
    BY <1>5, <2>1, <2>2, ClaimEndsDeed DEF Crash
<1>6. CASE Commit(p) \/ Exit(p) \/ Start(p) \/ \E e \in Deliveries : ScanFails(p, e)
  <2>1. UNCHANGED <<rows, asked, operators, undone, sends, acked>>
    BY <1>6 DEF Commit, ScanFails, Exit, Start
  <2>2. Fetched(d)' => Fetched(d)
    BY <1>0, <1>6 DEF Commit, ScanFails, Exit, Start, TypeOK, Fetched
  <2>3. \A q \in Procs : sendCh'[q] = sendCh[q] \/ sendCh'[q] = <<>>
    BY <1>0, <1>6 DEF Commit, ScanFails, Exit, Start, TypeOK
  <2>4. Queued(d)' => Queued(d)
    BY <2>3 DEF Queued
  <2>5. \A w \in Workers :
          held'[w] = d => held[w] = d /\ pc'[w] = pc[w] /\ reply'[w] = reply[w]
    <3> SUFFICES ASSUME NEW w \in Workers, held'[w] = d
                 PROVE  held[w] = d /\ pc'[w] = pc[w] /\ reply'[w] = reply[w]
      OBVIOUS
    <3>1. CASE Start(p)
      <4>1. held[w] = d /\ reply'[w] = reply[w]
        BY <3>1 DEF Start
      <4>2. Owner[w] # p
        BY <1>0, <3>1, <4>1, SendAssumption DEF Start, TypeOK
      <4> QED
        BY <3>1, <4>1, <4>2 DEF Start
    <3>2. CASE Commit(p) \/ Exit(p) \/ \E e \in Deliveries : ScanFails(p, e)
      BY <3>2 DEF Commit, ScanFails, Exit
    <3> QED
      BY <1>6, <3>1, <3>2
  <2>6. ClaimedStage(d)' = ClaimedStage(d) \/ ClaimedStage(d)' = "lost"
    BY <1>0, <2>2, <2>4, <2>5, StageKeptOrLost
  <2> QED
    BY <1>0, <2>1, <2>6, StageNames DEF Deed, Stays, Dropped, PlaceKept, RowKept,
       HistoryKept, AckedKept, CostsKept, SameRow
<1> QED
  BY <1>1, <1>2, <1>3, <1>4, <1>5, <1>6 DEF Dispatcher, Operation

\* Recording an outcome.
LEMMA RecordDeed ==
  ASSUME NEW d \in Deliveries, StaysClear(d), NEW w \in Workers, Record(w), held[w] = d
  PROVE  Deed(d)
<1> USE DEF dbVars, operators, procVars, workerVars, history
<1>0. TypeOK /\ HandsApart(d) /\ StageTold(d) /\ StageTold(d)'
  BY DEF StaysClear, Clear
<1>1. /\ pc[w] = "db" /\ rows'[d] = Outcome(w)
      /\ UNCHANGED <<batch, sendCh, sends, acked, patches, undone>>
      /\ held' = [held EXCEPT ![w] = NoDelivery]
  BY <1>0 DEF Record, Released, TypeOK
<1>2. ClaimedStage(d) = IF reply[w] \in {"ok", "job"} THEN "accepted" ELSE "refused"
  BY <1>0, <1>1 DEF StageTold, WorkerStage
<1>3. rows[d].status \in {"processing", "deleted"}
  BY <1>0, WhoseHands DEF HandsApart, Worked
<1>4. ClaimedStage(d)' = "lost"
  <2>1. ~Fetched(d) /\ ~Queued(d) /\ \A v \in Workers : held[v] = d => v = w
    BY <1>0 DEF HandsApart, Worked
  <2>2. ~Fetched(d)' /\ ~Queued(d)' /\ ~Worked(d)'
    BY <1>0, <1>1, <2>1, SendAssumption DEF TypeOK, Fetched, Queued, Worked
  <2> QED
    BY <1>0, <2>2, WhoseHandsNext DEF StageTold
<1>5. HistoryKept(d)
  BY <1>1 DEF HistoryKept, AckedKept, CostsKept
<1>6. ~Exists(rows[d]) <=> rows[d].status = "deleted"
  BY <1>3 DEF Exists, Statuses
<1>7. CASE rows[d].status = "deleted"
  <2>1. rows'[d] = rows[d]
    BY <1>0, <1>1, <1>6, <1>7, OutcomeRow
  <2> QED
    BY <1>2, <1>4, <1>5, <1>7, <2>1 DEF Deed, WroteBack
<1>8. CASE rows[d].status = "processing"
  <2>1. \/ /\ reply[w] \in {"ok", "job"} /\ rows'[d].status \in {"done", "awaiting_async"}
           /\ rows'[d].attempts = rows[d].attempts
        \/ /\ reply[w] \notin {"ok", "job"}
           /\ rows'[d].attempts = rows[d].attempts + 1
           /\ rows'[d].status = IF rows'[d].attempts >= MaxAttempts THEN "failed"
                                                                    ELSE "ready"
    BY <1>0, <1>1, <1>6, <1>8, OutcomeRow
  <2> QED
    BY <1>2, <1>4, <1>5, <1>8, <2>1 DEF Deed, WroteBack
<1> QED
  BY <1>3, <1>7, <1>8

\* The steps of a send worker.
LEMMA WorkerDeed ==
  ASSUME NEW d \in Deliveries, StaysClear(d), NEW w \in Workers, Worker(w)
  PROVE  Deed(d)
<1> USE DEF dbVars, asked, operators, procVars, workerVars, history
<1>0. TypeOK /\ StageTold(d) /\ StageTold(d)' /\ NoDelivery \notin Deliveries
  BY SendAssumption DEF StaysClear, Clear
<1>1. CASE Receive(w)
  <2>1. PICK e \in Deliveries :
          /\ Queued(e)
          /\ held[w] = NoDelivery /\ pc[w] = "idle"
          /\ held' = [held EXCEPT ![w] = e] /\ pc' = [pc EXCEPT ![w] = "limit"]
          /\ \A x \in Deliveries : Queued(x)' => Queued(x)
          /\ \A x \in Deliveries \ {e} : Queued(x) => Queued(x)'
    BY <1>0, <1>1, ReceiveMoves
  <2>2. UNCHANGED <<rows, asked, operators, undone, batch, reply, sends, acked>>
    BY <1>1 DEF Receive
  <2>3. CASE d = e
    <3>1. held'[w] = d /\ pc'[w] = "limit"
      BY <1>0, <2>1, <2>3 DEF TypeOK
    <3>2. ClaimedStage(d)' = "claimed" /\ ClaimedStage(d) = "claimed"
      BY <1>0, <2>1, <2>3, <3>1 DEF StageTold, WorkerStage
    <3> QED
      BY <2>2, <3>2 DEF Deed, Stays, PlaceKept, RowKept, AckedKept, CostsKept, SameRow
  <2>4. CASE d # e
    <3>1. \A v \in Workers : /\ held'[v] = d <=> held[v] = d
                             /\ held[v] = d => pc'[v] = pc[v] /\ reply'[v] = reply[v]
      BY <1>0, <2>1, <2>2, <2>4 DEF TypeOK
    <3>2. Fetched(d)' <=> Fetched(d)
      BY <2>2 DEF Fetched
    <3>3. ClaimedStage(d)' = ClaimedStage(d)
      BY <1>0, <2>1, <2>4, <3>1, <3>2, StageKept
    <3> QED
      BY <2>2, <3>3 DEF Deed, Stays, PlaceKept, RowKept, AckedKept, CostsKept, SameRow
  <2> QED
    BY <2>3, <2>4
<1>2. CASE WorkerExit(w) \/ LimiterFails(w) \/ RecordFails(w)
  <2>1. UNCHANGED <<rows, asked, operators, undone, batch, sendCh, sends, acked>>
    BY <1>2 DEF WorkerExit, LimiterFails, RecordFails
  <2>2. (Fetched(d)' <=> Fetched(d)) /\ (Queued(d)' <=> Queued(d))
    BY <2>1 DEF Fetched, Queued
  <2>3. \A v \in Workers : held'[v] = d => held[v] = d /\ pc'[v] = pc[v] /\ reply'[v] = reply[v]
    BY <1>0, <1>2 DEF WorkerExit, LimiterFails, RecordFails, Released, TypeOK
  <2>4. ClaimedStage(d)' = ClaimedStage(d) \/ ClaimedStage(d)' = "lost"
    BY <1>0, <2>2, <2>3, StageKeptOrLost
  <2> QED
    BY <1>0, <2>1, <2>4, StageNames DEF Deed, Stays, Dropped, PlaceKept, RowKept,
       HistoryKept, AckedKept, CostsKept, SameRow
<1>3. CASE SendRequest(w) \/ SendCancelled(w) \/ (\E k \in AllReplies : Reply(w, k)) \/ Record(w)
  <2>1. UNCHANGED <<batch, sendCh, operators, undone>>
    BY <1>3 DEF SendRequest, SendCancelled, Reply, Record
  <2>2. (Fetched(d)' <=> Fetched(d)) /\ (Queued(d)' <=> Queued(d)) /\ CostsKept(d)
    BY <2>1 DEF Fetched, Queued, CostsKept
  <2>3. CASE held[w] # d
    <3>1. \A v \in Workers : /\ held'[v] = d <=> held[v] = d
                             /\ held[v] = d => pc'[v] = pc[v] /\ reply'[v] = reply[v]
      BY <1>0, <1>3, <2>3 DEF SendRequest, SendCancelled, Reply, Record, Released, TypeOK
    <3>2. ClaimedStage(d)' = ClaimedStage(d)
      BY <1>0, <2>2, <3>1, StageKept
    <3>3. /\ rows'[d] = rows[d] /\ verdict'[d] = verdict[d] /\ sends'[d] = sends[d]
          /\ AckedKept(d)
      BY <1>0, <1>3, <2>3 DEF SendRequest, SendCancelled, Reply, Record, TypeOK, AckedKept
    <3> QED
      BY <2>2, <3>2, <3>3 DEF Deed, Stays, PlaceKept, RowKept, SameRow
  <2>4. CASE held[w] = d /\ SendRequest(w)
    <3>1. /\ pc[w] = "limit" /\ pc'[w] = "http" /\ held'[w] = d /\ sends'[d] = sends[d] + 1
          /\ rows' = rows /\ acked' = acked /\ verdict' = verdict
      BY <1>0, <2>4 DEF SendRequest, TypeOK
    <3>2. ClaimedStage(d) = "claimed" /\ ClaimedStage(d)' = "sending"
      BY <1>0, <2>4, <3>1 DEF StageTold, WorkerStage
    <3> QED
      BY <2>2, <3>1, <3>2 DEF Deed, WentOut, RowKept, AckedKept, SameRow
  <2>5. CASE held[w] = d /\ SendCancelled(w)
    <3>1. /\ pc[w] = "limit" /\ pc'[w] = "db" /\ held'[w] = d /\ reply'[w] = "retryable"
          /\ UNCHANGED <<rows, sends, acked, verdict>>
      BY <1>0, <2>5 DEF SendCancelled, TypeOK
    <3>2. ClaimedStage(d) = "claimed" /\ ClaimedStage(d)' = "refused"
      BY <1>0, <2>5, <3>1 DEF StageTold, WorkerStage
    <3> QED
      BY <2>2, <3>1, <3>2 DEF Deed, CalledOff, RowKept, HistoryKept, AckedKept, SameRow
  <2>6. CASE held[w] = d /\ \E k \in AllReplies : Reply(w, k)
    <3>1. PICK k \in AllReplies : Reply(w, k)
      BY <2>6
    <3>2. /\ pc[w] = "http" /\ pc'[w] = "db" /\ held'[w] = d /\ reply'[w] = k
          /\ UNCHANGED <<rows, sends, verdict>>
          /\ acked' = IF k \in {"ok", "job"} THEN acked \cup {d} ELSE acked
      BY <1>0, <2>6, <3>1 DEF Reply, TypeOK
    <3>3. /\ ClaimedStage(d) = "sending"
          /\ ClaimedStage(d)' = IF k \in {"ok", "job"} THEN "accepted" ELSE "refused"
      BY <1>0, <2>6, <3>2 DEF StageTold, WorkerStage
    <3>4. GotReply(d)
      BY <2>2, <3>2, <3>3 DEF GotReply, RowKept, AckedKept, SameRow
    <3> QED
      BY <3>4 DEF Deed
  <2>7. CASE held[w] = d /\ Record(w)
    BY <2>7, RecordDeed
  <2> QED
    BY <1>3, <2>3, <2>4, <2>5, <2>6, <2>7
<1> QED
  BY <1>1, <1>2, <1>3 DEF Worker

\* Every step is one of the deeds to each delivery that stays sound.
LEMMA NextDeed ==
  ASSUME HandsInv, [Next]_vars, NEW d \in Deliveries, Sound(d)'
  PROVE  Deed(d) /\ Sound(d) /\ Clear(d) /\ Clear(d)'
<1>1. HandsInv' /\ TypeOK /\ OpenInv
  BY NextHands DEF HandsInv
<1>2. Sound(d)
  BY <1>1, NextEffect, SoundBefore
<1>3. Kept(d) /\ Clear(d) /\ Clear(d)'
  BY <1>1, <1>2, SoundIsClear, SoundIsClearNext DEF HandsInv, ClearInv
<1>4. StaysClear(d) /\ StageTold(d) /\ StageTold(d)'
  BY <1>1, <1>2, <1>3 DEF StaysClear, Clear
<1>5. CASE Next
  BY <1>3, <1>2, <1>4, <1>5, TableDeed, ProcessDeed, WorkerDeed DEF Next
<1>6. CASE UNCHANGED vars
  <2>1. UNCHANGED <<rows, verdict, patches, undone, batch, sendCh, held, pc, reply, sends, acked>>
    BY <1>6 DEF vars, dbVars, asked, operators, procVars, workerVars, history
  <2>2. (Fetched(d)' <=> Fetched(d)) /\ (Queued(d)' <=> Queued(d))
    BY <2>1 DEF Fetched, Queued
  <2>3. ClaimedStage(d)' = ClaimedStage(d)
    BY <1>4, <2>1, <2>2, StageKept
  <2>4. Stays(d)
    BY <2>1, <2>3 DEF Stays, PlaceKept, RowKept, AckedKept, CostsKept, SameRow
  <2> QED
    BY <1>2, <1>3, <2>4 DEF Deed
<1> QED
  BY <1>5, <1>6

-----------------------------------------------------------------------------
(* What is known of a delivery that the server accepted.                   *)

\* Whoever holds an acceptance saw it, and, of rows that no operator patched,
\* only what was accepted is done, is a job of the server, or is polled.
Truthful(d) ==
  /\ d \in meddled => patches[d] > 0
  /\ \A w \in Workers : held[w] = d /\ reply[w] \in {"ok", "job"} => d \in acked
  /\ patches[d] = 0 /\ (rows[d].status \in {"done", "awaiting_async"} \/ d \in polling)
       => d \in acked

TruthInv == HandsInv /\ \A d \in Deliveries : Truthful(d)

\* Only Reply makes an acceptance known.
LEMMA AcceptancesSeen ==
  ASSUME TypeOK, [Next]_vars
  PROVE  /\ acked \subseteq acked'
         /\ \A w \in Workers : held'[w] \in Deliveries /\ reply'[w] \in {"ok", "job"}
              => \/ held'[w] = held[w] /\ reply'[w] = reply[w]
                 \/ held'[w] \in acked'
<1> USE DEF dbVars, procVars, workerVars, history
<1>0. NoDelivery \notin Deliveries
  BY SendAssumption
<1>1. CASE Table
  BY <1>1, TableSteps DEF TableStep, Insert, BecomesDue, ToggleSuspended, Patch, Delete,
     PollClaimed, Polled, PollsEnd
<1>2. ASSUME NEW p \in Procs, Dispatcher(p) \/ Operation(p)
      PROVE  /\ acked' = acked
             /\ \A w \in Workers : \/ held'[w] = held[w] /\ reply'[w] = reply[w]
                                   \/ held'[w] = NoDelivery
  BY <1>2 DEF Dispatcher, Operation, ClaimDeliveries, Commit, ClaimLost, Dispatch,
     ScanFails, AbandonBatch, Exit, Signal, Crash, Start
<1>3. ASSUME NEW v \in Workers, Worker(v)
      PROVE  /\ acked \subseteq acked'
             /\ \A w \in Workers : held'[w] \in Deliveries /\ reply'[w] \in {"ok", "job"}
                  => \/ held'[w] = held[w] /\ reply'[w] = reply[w]
                     \/ held'[w] \in acked'
  <2>1. CASE \E k \in AllReplies : Reply(v, k)
    BY <2>1 DEF Reply, TypeOK
  <2>2. CASE Receive(v)
    BY <2>2 DEF Receive, TypeOK
  <2>3. CASE SendRequest(v) \/ SendCancelled(v) \/ WorkerExit(v)
    BY <2>3 DEF SendRequest, SendCancelled, WorkerExit, TypeOK
  <2>4. CASE Record(v) \/ RecordFails(v) \/ LimiterFails(v)
    BY <1>0, <2>4 DEF Record, RecordFails, LimiterFails, Released, TypeOK
  <2> QED
    BY <1>3, <2>1, <2>2, <2>3, <2>4 DEF Worker
<1>4. CASE UNCHANGED vars
  BY <1>4 DEF vars
<1> QED
  BY <1>0, <1>1, <1>2, <1>3, <1>4 DEF Next

LEMMA TruthStep ==
  ASSUME TypeOK, TypeOK', OpenInv, [Next]_vars, NEW d \in Deliveries, Truthful(d)
  PROVE  Truthful(d)'
<1>1. Effect(d)
  BY NextEffect
<1>2. patches[d] \in Nat /\ patches'[d] \in Nat
  BY DEF TypeOK
<1>3. /\ d \in acked => d \in acked'
      /\ \A w \in Workers : held'[w] = d /\ reply'[w] \in {"ok", "job"} => d \in acked'
  BY AcceptancesSeen DEF Truthful
<1>4. ASSUME (d \in meddled' => patches'[d] > 0),
             patches'[d] = 0 /\ (rows'[d].status \in {"done", "awaiting_async"} \/ d \in polling')
               => d \in acked
      PROVE  Truthful(d)'
  BY <1>3, <1>4 DEF Truthful
<1>5. CASE Passes(d) \/ Taken(d) \/ GivenBack(d) \/ Leaves(d)
  <2>1. /\ (d \in meddled' <=> d \in meddled) /\ patches'[d] = patches[d]
        /\ d \in polling' <=> d \in polling
        /\ rows'[d].status = rows[d].status \/ rows'[d].status \in {"processing", "ready"}
    BY <1>5 DEF Passes, Taken, GivenBack, Leaves, SameRow, SameAsked, SameCosts
  <2> QED
    BY <1>4, <2>1 DEF Truthful
<1>6. CASE Recorded(d)
  <2>1. PICK w \in Workers : /\ held[w] = d /\ pc[w] = "db" /\ rows'[d] = Outcome(w)
                             /\ (d \in polling' <=> d \in polling) /\ SameCosts(d)
    BY <1>6 DEF Recorded
  <2>2. \/ rows'[d] = rows[d]
        \/ reply[w] \in {"ok", "job"}
        \/ rows'[d].status \in {"failed", "ready"}
    BY <2>1, OutcomeRow
  <2> QED
    BY <1>4, <2>1, <2>2 DEF Truthful, SameCosts
<1>7. CASE Stated(d)
  <2>1. TableStep(d)
    BY <1>7 DEF Stated
  <2>2. CASE /\ rows[d].status = "absent" /\ rows'[d].status = "ready"
             /\ SameAsked(d) /\ SameCosts(d)
    BY <1>4, <2>2 DEF Truthful, SameAsked, SameCosts
  <2>3. CASE SameRow(d) /\ SameAsked(d) /\ SameCosts(d)
    BY <1>4, <2>3 DEF Truthful, SameRow, SameAsked, SameCosts
  <2>4. CASE rows'[d].status = "deleted" /\ SameAsked(d) /\ SameCosts(d)
    BY <1>4, <2>4 DEF Truthful, SameAsked, SameCosts
  <2>5. CASE patches'[d] = patches[d] + 1
    BY <1>2, <1>4, <2>5
  <2>6. CASE /\ SameRow(d) /\ SameCosts(d)
             /\ d \notin polling' \/ (d \in polling' /\ rows[d].status = "awaiting_async")
    BY <1>4, <2>6 DEF Truthful, SameRow, SameCosts
  <2>7. CASE d \in polling /\ SameCosts(d)
    BY <1>4, <2>7 DEF Truthful, SameCosts
  <2> QED
    BY <2>1, <2>2, <2>3, <2>4, <2>5, <2>6, <2>7, TableRow
<1> QED
  BY <1>1, <1>5, <1>6, <1>7 DEF Effect

\* Final statuses are earned, and an accepted delivery is not sent again.
\* While nobody patched it and none of its claims was undone: a delivery is
\* still to be sent only while it has attempts left, and once accepted it is
\* nowhere from where it could go out.  The worker that saw it accepted
\* carries that over the failures between the answer and the row.
Earned(d) ==
  patches[d] = 0 /\ undone[d] = 0 =>
    /\ rows[d].status \in {"ready", "processing"} => rows[d].attempts < MaxAttempts
    /\ rows[d].status = "failed"
         => rows[d].attempts = MaxAttempts \/ verdict[d] = "FAILED"
    /\ d \in acked => /\ rows[d].status \notin {"absent", "ready"}
                      /\ ClaimedStage(d) \in {"accepted", "lost"}

EarnedInv == TruthInv /\ \A d \in Deliveries : Earned(d)

LEMMA InitStages ==
  ASSUME Init, NEW d \in Deliveries
  PROVE  /\ HandsInv /\ ClaimedStage(d) = "lost" /\ Sound(d)
         /\ rows[d].status = "absent" /\ rows[d].attempts = 0
         /\ sends[d] = 0 /\ patches[d] = 0 /\ undone[d] = 0
         /\ d \notin acked /\ d \notin meddled /\ d \notin polling
<1>1. HandsInv /\ Sound(d)
  BY InitHands DEF Init, Sound
<1>2. ~Fetched(d) /\ ~Queued(d) /\ ~Worked(d)
  BY SendAssumption DEF Init, Fetched, Queued, Worked
<1>3. ClaimedStage(d) = "lost"
  BY <1>1, <1>2, WhoseHands, SoundIsClear DEF ClearInv, Clear, StageTold
<1> QED
  BY <1>1, <1>3 DEF Init, AbsentRow

LEMMA InitEarned == Init => EarnedInv
<1> SUFFICES ASSUME Init PROVE EarnedInv
  OBVIOUS
<1>1. \A d \in Deliveries : Truthful(d)
  BY InitStages, SendAssumption DEF Truthful, Init
<1>2. \A d \in Deliveries : Earned(d)
  BY InitStages, MaxAttemptsAssumption DEF Earned
<1> QED
  BY <1>1, <1>2, InitHands DEF EarnedInv, TruthInv

LEMMA EarnedStep ==
  ASSUME HandsInv, HandsInv', [Next]_vars, NEW d \in Deliveries,
         Truthful(d)', Earned(d)
  PROVE  Earned(d)'
<1> SUFFICES ASSUME patches'[d] = 0, undone'[d] = 0
             PROVE  /\ rows'[d].status \in {"ready", "processing"}
                         => rows'[d].attempts < MaxAttempts
                    /\ rows'[d].status = "failed"
                         => rows'[d].attempts = MaxAttempts \/ verdict'[d] = "FAILED"
                    /\ d \in acked' => /\ rows'[d].status \notin {"absent", "ready"}
                                       /\ ClaimedStage(d)' \in {"accepted", "lost"}
  BY DEF Earned
<1>1. /\ rows[d].attempts \in Nat /\ rows'[d].attempts \in Nat
      /\ patches[d] \in Nat /\ MaxAttempts \in Nat \ {0}
  BY MaxAttemptsAssumption DEF HandsInv, TypeOK, Row
<1>2. Deed(d) /\ Clear(d)
  BY NextDeed DEF Truthful, Sound
<1>3. ~Patched(d)
  BY <1>1 DEF Patched
<1>4. patches[d] = 0 /\ undone[d] = 0
  BY <1>2, <1>3 DEF Deed, Stays, Inserted, Deleted, Told, Granted, HandedBack,
     WentOut, CalledOff, GotReply, WroteBack, Dropped, RowKept, HistoryKept, CostsKept
<1>5. ClaimedStage(d) # "lost" => rows[d].status \in {"processing", "deleted"}
  BY <1>2, StageNames DEF Clear, HandsApart
<1>6. CASE Stays(d)
  BY <1>4, <1>6 DEF Earned, Stays, PlaceKept, RowKept, SameRow, AckedKept
<1>7. CASE Inserted(d)
  BY <1>1, <1>4, <1>7 DEF Earned, Inserted, PlaceKept, AckedKept
<1>8. CASE Deleted(d)
  BY <1>1, <1>4, <1>8 DEF Earned, Deleted, PlaceKept, Statuses, AckedKept
<1>9. CASE Told(d)
  BY <1>1, <1>4, <1>9 DEF Earned, Told, PlaceKept, AckedKept
<1>10. CASE Granted(d) \/ HandedBack(d)
  BY <1>1, <1>4, <1>10 DEF Earned, Granted, HandedBack, HistoryKept, AckedKept
<1>11. CASE WentOut(d) \/ CalledOff(d) \/ Dropped(d)
  BY <1>1, <1>4, <1>11 DEF Earned, WentOut, CalledOff, Dropped, RowKept, HistoryKept,
     SameRow, AckedKept
<1>12. CASE GotReply(d)
  BY <1>1, <1>4, <1>5, <1>12 DEF Earned, GotReply, RowKept, SameRow, AckedKept
<1>13. CASE WroteBack(d)
  BY <1>1, <1>4, <1>5, <1>13 DEF Earned, WroteBack, HistoryKept, AckedKept
<1> QED
  BY <1>2, <1>3, <1>6, <1>7, <1>8, <1>9, <1>10, <1>11, <1>12, <1>13 DEF Deed

LEMMA NextEarned ==
  ASSUME EarnedInv, [Next]_vars
  PROVE  EarnedInv'
<1>1. HandsInv' /\ TypeOK /\ TypeOK' /\ OpenInv
  BY NextHands DEF EarnedInv, TruthInv, HandsInv
<1>2. \A d \in Deliveries : Truthful(d)'
  BY <1>1, TruthStep DEF EarnedInv, TruthInv
<1>3. \A d \in Deliveries : Earned(d)'
  BY <1>1, <1>2, EarnedStep DEF EarnedInv, TruthInv
<1> QED
  BY <1>1, <1>2, <1>3 DEF EarnedInv, TruthInv

\* A row says done, or failed, only for a reason: whichever processes crash,
\* whichever claims are undone, and whichever answers come late, repeat each
\* other or are lost.
THEOREM FinalsEarned == Spec => []FinalIsEarned
<1>1. EarnedInv /\ [Next]_vars => EarnedInv'
  BY NextEarned
<1>2. EarnedInv => FinalIsEarned
  BY DEF EarnedInv, TruthInv, Truthful, Earned, FinalIsEarned, DoneWasAcked,
     FailedIsExhausted
<1> QED
  BY InitEarned, <1>1, <1>2, PTL DEF Spec

\* What a worker saw accepted does not go out again: not after a crash or a
\* failed finalize_delivery, nor from another process.
THEOREM NotResent == Spec => AckedNotResent
<1>1. EarnedInv /\ [Next]_vars => EarnedInv'
  BY NextEarned
<1>2. EarnedInv /\ [Next]_vars
        => [\A d \in Deliveries :
              d \in acked /\ patches[d] = 0 /\ undone[d] = 0 => sends'[d] = sends[d]]_vars
  <2> SUFFICES ASSUME EarnedInv, [Next]_vars, NEW d \in Deliveries,
                      d \in acked, patches[d] = 0, undone[d] = 0
               PROVE  sends'[d] = sends[d]
    OBVIOUS
  <2>1. HandsInv /\ TypeOK /\ OpenInv /\ HandsInv' /\ Truthful(d)
    BY NextHands DEF EarnedInv, TruthInv, HandsInv
  <2>2. ClaimedStage(d) \in {"accepted", "lost"}
    BY DEF EarnedInv, Earned
  <2>3. CASE Sound(d)'
    <3>1. Deed(d)
      BY <2>1, <2>3, NextDeed
    <3> QED
      BY <2>2, <3>1 DEF Deed, Stays, Inserted, Deleted, Told, Patched, Granted,
         HandedBack, WentOut, CalledOff, GotReply, WroteBack, Dropped, PlaceKept, HistoryKept
  <2>4. CASE ~Sound(d)'
    <3>1. Effect(d) /\ Sound(d)
      BY <2>1, NextEffect DEF Sound, Truthful, TypeOK
    <3> QED
      BY <2>4, <3>1 DEF Effect, Passes, Stated, Taken, GivenBack, Leaves, Recorded,
         SameCosts, Sound
  <2> QED
    BY <2>3, <2>4
<1> QED
  BY InitEarned, <1>1, <1>2, PTL DEF Spec, AckedNotResent

-----------------------------------------------------------------------------
(* While no process is told to stop: attempts are requests.                *)

\* Nobody is called off, so every hand that has something to record sent one
\* request more than the row counts.
Paid(d) == rows[d].attempts + Underway(d) <= sends[d]

NoneStops == \A p \in Procs : life[p] # "stopping"

LEMMA StopsNever ==
  ASSUME "stop" \notin Faults, TypeOK, NoneStops, [Next]_vars
  PROVE  NoneStops'
<1> USE DEF dbVars, procVars, workerVars, history
<1>1. life' = life \/ \E p \in Procs : Exit(p) \/ Crash(p) \/ Start(p)
  <2>1. CASE Table
    BY <2>1, TableSteps DEF TableStep, Insert, BecomesDue, ToggleSuspended, Patch,
       Delete, PollClaimed, Polled, PollsEnd
  <2>2. CASE \E p \in Procs : Dispatcher(p) \/ Operation(p)
    BY <2>2 DEF Dispatcher, Operation, ClaimDeliveries, Commit, ClaimLost, Dispatch,
       ScanFails, AbandonBatch, Signal
  <2>3. CASE \E w \in Workers : Worker(w)
    BY <2>3 DEF Worker, Receive, WorkerExit, LimiterFails, SendRequest,
       SendCancelled, Reply, Record, RecordFails
  <2> QED
    BY <2>1, <2>2, <2>3 DEF Next, vars
<1>2. ASSUME NEW p \in Procs, Exit(p) \/ Crash(p) \/ Start(p)
      PROVE  NoneStops'
  BY <1>2 DEF Exit, Crash, Start, TypeOK, NoneStops
<1> QED
  BY <1>1, <1>2 DEF NoneStops

LEMMA PaidStep ==
  ASSUME TypeOK, TypeOK', OpenInv, NoneStops, [Next]_vars,
         NEW d \in Deliveries, Paid(d)
  PROVE  Paid(d)'
<1>1. /\ rows[d].attempts \in Nat /\ rows'[d].attempts \in Nat
      /\ sends[d] \in Nat /\ sends'[d] \in Nat /\ Underway(d) \in Nat
  BY HandCounts DEF TypeOK, Row
<1>2. Effect(d)
  BY NextEffect
<1>3. CASE Passes(d) \/ Taken(d) \/ GivenBack(d)
  BY <1>1, <1>3 DEF Paid, Passes, Taken, GivenBack, SameRow, Fewer
<1>4. CASE Leaves(d)
  BY <1>1, <1>4 DEF Paid, Leaves, SameRow, NoneStops
<1>5. CASE Recorded(d)
  <2>1. PICK w \in Workers :
          /\ held[w] = d /\ pc[w] = "db" /\ rows'[d] = Outcome(w)
          /\ sends'[d] = sends[d]
          /\ Underway(d)' \in Nat /\ Underway(d)' + 1 <= Underway(d)
    BY <1>5 DEF Recorded
  <2>2. rows'[d].attempts <= rows[d].attempts + 1
    BY <1>1, <2>1, OutcomeRow
  <2> QED
    BY <1>1, <2>1, <2>2 DEF Paid
<1>6. CASE Stated(d)
  <2>1. rows'[d].attempts \in {0, rows[d].attempts}
    BY <1>6, TableRow DEF Stated, SameRow
  <2> QED
    BY <1>1, <1>6, <2>1 DEF Paid, Stated, Fewer
<1> QED
  BY <1>2, <1>3, <1>4, <1>5, <1>6 DEF Effect

\* No attempt is counted without a request of its own that went out, until a
\* process is told to stop, and however many hands a delivery is in: a
\* cancelled Execute is the only failure recorded for free.
THEOREM AttemptsSent == "stop" \notin Faults /\ Spec => []AttemptsWereSent
<1> SUFFICES ASSUME "stop" \notin Faults PROVE Spec => []AttemptsWereSent
  OBVIOUS
<1> DEFINE Inv == HandsInv /\ NoneStops /\ \A d \in Deliveries : Paid(d)
<1>1. Init => Inv
  <2> SUFFICES ASSUME Init PROVE Inv
    OBVIOUS
  <2>1. HandsInv /\ NoneStops
    BY InitHands DEF Init, NoneStops
  <2>2. ASSUME NEW d \in Deliveries PROVE Paid(d)
    <3>1. Busy(d) = {}
      BY SendAssumption DEF Init, Busy, Holders
    <3>2. Underway(d) = 0
      BY <3>1, FS_EmptySet DEF Underway
    <3> QED
      BY <3>2, InitStages DEF Paid
  <2> QED
    BY <2>1, <2>2
<1>2. Inv /\ [Next]_vars => Inv'
  <2> SUFFICES ASSUME Inv, [Next]_vars PROVE Inv'
    OBVIOUS
  <2>1. HandsInv' /\ TypeOK /\ TypeOK' /\ OpenInv /\ NoneStops'
    BY NextHands, StopsNever DEF HandsInv
  <2>2. \A d \in Deliveries : Paid(d)'
    BY <2>1, PaidStep
  <2> QED
    BY <2>1, <2>2
<1>3. Inv => AttemptsWereSent
  BY DEF Paid, Underway, Busy, AttemptsWereSent
<1> QED
  BY <1>1, <1>2, <1>3, PTL DEF Spec

-----------------------------------------------------------------------------
(* While nothing goes wrong, somebody has what is being processed.         *)

\* No faults, no row that Scan or a limiter refuses, and no operator who sets
\* a row to processing (but perhaps one who takes it out of it).
NothingWrong ==
  /\ Faults = {} /\ NullAsync = {} /\ BadRate = {}
  /\ \A s \in Statuses : <<s, "processing">> \notin PatchPairs

AllUp == \A p \in Procs : life[p] = "up"

LEMMA StaysUp ==
  ASSUME NothingWrong, AllUp, [Next]_vars
  PROVE  AllUp'
<1> USE DEF dbVars, procVars, workerVars, history
<1>1. ASSUME NEW p \in Procs
      PROVE  ~Signal(p) /\ ~Crash(p) /\ ~Start(p) /\ ~Exit(p)
  BY DEF NothingWrong, AllUp, Signal, Crash, Start, Exit
<1>2. CASE Table
  BY <1>2, TableSteps DEF TableStep, Insert, BecomesDue, ToggleSuspended, Patch,
     Delete, PollClaimed, Polled, PollsEnd, AllUp
<1>3. CASE \E p \in Procs : Dispatcher(p) \/ Operation(p)
  BY <1>1, <1>3 DEF Dispatcher, Operation, ClaimDeliveries, Commit, ClaimLost,
     Dispatch, ScanFails, AbandonBatch, AllUp
<1>4. CASE \E w \in Workers : Worker(w)
  BY <1>4 DEF Worker, Receive, WorkerExit, LimiterFails, SendRequest,
     SendCancelled, Reply, Record, RecordFails, AllUp
<1> QED
  BY <1>2, <1>3, <1>4 DEF Next, vars, AllUp

\* One delivery whose server answers what PostgreSQL takes.
LEMMA StrandsNever ==
  ASSUME NothingWrong, AllUp, TypeOK, OpenInv, [Next]_vars,
         NEW d \in Deliveries \ BadText,
         rows[d].status = "processing" => InHand(d)
  PROVE  rows'[d].status = "processing" => InHand(d)'
<1> USE DEF dbVars, asked, operators, procVars, workerVars, history
<1>1. InHand(d) <=> Fetched(d) \/ Queued(d) \/ Worked(d)
  BY WhoseHands
<1>2. InHand(d)' <=> Fetched(d)' \/ Queued(d)' \/ Worked(d)'
  BY WhoseHandsNext
<1>3. CASE Table
  <2>1. UNCHANGED <<batch, sendCh, held>>
    BY <1>3, TableSteps DEF TableStep, Insert, BecomesDue, ToggleSuspended, Patch,
       Delete, PollClaimed, Polled, PollsEnd
  <2>2. InHand(d)' <=> InHand(d)
    BY <1>1, <1>2, <2>1 DEF Fetched, Queued, Worked
  <2>3. rows'[d].status = "processing" => rows[d].status = "processing"
    <3>1. PICK e \in Deliveries : TableStep(e)
      BY <1>3, TableSteps
    <3>2. CASE e # d
      BY <3>1, <3>2 DEF TypeOK, TableStep, Insert, BecomesDue, ToggleSuspended, Patch,
         Delete, PollClaimed, Polled, PollsEnd
    <3>3. CASE e = d
      BY <3>1, <3>3, TableRow DEF SameRow, NothingWrong
    <3> QED
      BY <3>2, <3>3
  <2> QED
    BY <2>2, <2>3
<1>4. ASSUME NEW p \in Procs, Dispatcher(p) \/ Operation(p)
      PROVE  rows'[d].status = "processing" => InHand(d)'
  <2>1. \/ ClaimDeliveries(p) \/ Commit(p) \/ \E e \in Deliveries : Dispatch(p, e)
    BY <1>4 DEF Dispatcher, Operation, ClaimLost, ScanFails, AbandonBatch, Exit, Signal,
       Crash, Start, NothingWrong, AllUp
  <2>2. CASE ClaimDeliveries(p)
    <3>1. PICK S \in Picks : rows' = Claimed(S) /\ batch' = [batch EXCEPT ![p] = S]
      BY <2>2 DEF ClaimDeliveries
    <3>2. /\ batch[p] = {} /\ batch'[p] = S /\ \A q \in Procs \ {p} : batch'[q] = batch[q]
          /\ UNCHANGED <<sendCh, held>>
      BY <2>2, <3>1 DEF ClaimDeliveries, TypeOK
    <3>3. InHand(d) => InHand(d)'
      BY <1>1, <1>2, <3>2 DEF Fetched, Queued, Worked
    <3>4. d \in S => InHand(d)'
      BY <1>2, <3>2 DEF Fetched
    <3> QED
      BY <3>1, <3>3, <3>4, ClaimOpens
  <2>3. CASE Commit(p)
    BY <1>1, <1>2, <2>3 DEF Commit, Fetched, Queued, Worked
  <2>4. CASE \E e \in Deliveries : Dispatch(p, e)
    <3>1. PICK e \in Deliveries : Dispatch(p, e)
      BY <2>4
    <3>2. rows' = rows /\ held' = held
      BY <3>1 DEF Dispatch
    <3>3. /\ Queued(d)' <=> Queued(d) \/ d = e
          /\ Fetched(d) => Fetched(d)' \/ d = e
      BY <3>1, DispatchMoves
    <3> QED
      BY <1>1, <1>2, <3>2, <3>3 DEF Worked
  <2> QED
    BY <2>1, <2>2, <2>3, <2>4
<1>5. ASSUME NEW w \in Workers, Worker(w)
      PROVE  rows'[d].status = "processing" => InHand(d)'
  <2>0. NoDelivery \notin Deliveries /\ Owner[w] \in Procs
    BY SendAssumption
  <2>1. ~WorkerExit(w) /\ ~LimiterFails(w)
    BY <2>0 DEF WorkerExit, LimiterFails, NothingWrong, AllUp
  <2>2. CASE Receive(w)
    <3>1. PICK e \in Deliveries :
            /\ held[w] = NoDelivery
            /\ held' = [held EXCEPT ![w] = e]
            /\ \A x \in Deliveries \ {e} : Queued(x) => Queued(x)'
      BY <2>2, ReceiveMoves
    <3>2. rows' = rows /\ batch' = batch
      BY <2>2 DEF Receive
    <3>3. d = e => Worked(d)'
      BY <3>1 DEF TypeOK, Worked
    <3>4. (Worked(d) => Worked(d)') /\ (Fetched(d) => Fetched(d)')
      BY <2>0, <3>1, <3>2 DEF TypeOK, Worked, Fetched
    <3> QED
      BY <1>1, <1>2, <3>1, <3>2, <3>3, <3>4
  <2>3. CASE SendRequest(w) \/ SendCancelled(w) \/ \E k \in AllReplies : Reply(w, k)
    <3>1. UNCHANGED <<rows, batch, sendCh, held>>
      BY <2>3 DEF SendRequest, SendCancelled, Reply
    <3> QED
      BY <1>1, <1>2, <3>1 DEF Fetched, Queued, Worked
  <2>4. CASE RecordFails(w) \/ (Record(w) /\ held[w] # d)
    <3>1. held[w] # d
      BY <2>4 DEF RecordFails, NothingWrong
    <3>2. rows'[d] = rows[d] /\ UNCHANGED <<batch, sendCh>>
      BY <2>4, <3>1 DEF Record, RecordFails, TypeOK
    <3>3. Worked(d) => Worked(d)'
      BY <2>4, <3>1 DEF Record, RecordFails, Released, TypeOK, Worked
    <3> QED
      BY <1>1, <1>2, <3>2, <3>3 DEF Fetched, Queued
  <2>5. CASE Record(w) /\ held[w] = d
    <3>1. pc[w] = "db" /\ rows'[d] = Outcome(w)
      BY <2>5 DEF Record, TypeOK
    <3>2. rows'[d].status # "processing"
      BY <2>5, <3>1, OutcomeRow DEF Exists, Statuses
    <3> QED
      BY <3>2
  <2> QED
    BY <1>5, <2>1, <2>2, <2>3, <2>4, <2>5 DEF Worker
<1>6. CASE UNCHANGED vars
  BY <1>1, <1>2, <1>6 DEF vars, Fetched, Queued, Worked
<1> QED
  BY <1>3, <1>4, <1>5, <1>6 DEF Next

\* A claim hands each row on, from the result set to the channel to a worker,
\* until its outcome is recorded: while the processes run, the database is
\* there and takes the text of the answers, no row stays in processing that
\* nobody will settle, also when operators interfere with the hands.
THEOREM NoneStranded == NothingWrong /\ Spec => []NothingStranded
<1> SUFFICES ASSUME NothingWrong PROVE Spec => []NothingStranded
  OBVIOUS
<1> DEFINE Inv == HandsInv /\ AllUp /\ NothingStranded
<1>1. Init => Inv
  <2>1. Init => AllUp
    BY DEF Init, AllUp
  <2>2. Init => NothingStranded
    BY InitStages DEF NothingStranded
  <2> QED
    BY <2>1, <2>2, InitHands
<1>2. Inv /\ [Next]_vars => Inv'
  <2> SUFFICES ASSUME Inv, [Next]_vars PROVE Inv'
    OBVIOUS
  <2>1. HandsInv' /\ AllUp' /\ TypeOK /\ OpenInv
    BY NextHands, StaysUp DEF HandsInv
  <2>2. NothingStranded'
    BY <2>1, StrandsNever DEF NothingStranded
  <2> QED
    BY <2>1, <2>2
<1>3. Inv => NothingStranded
  OBVIOUS
<1> QED
  BY <1>1, <1>2, <1>3, PTL DEF Spec

-----------------------------------------------------------------------------
(* SendPipeline implements DeliveryLifecycle.                              *)

\* The stage of a delivery that is sound is told by its status, and while
\* that says processing, by the hand that has it.
LEMMA StageByStatus ==
  ASSUME NEW d \in Deliveries
  PROVE  /\ ~Sound(d) => StageOf(d) = "adrift"
         /\ Sound(d) =>
              /\ rows[d].status = "ready" => StageOf(d) = "queued"
              /\ rows[d].status = "processing" => StageOf(d) = ClaimedStage(d)
              /\ rows[d].status = "awaiting_async" => StageOf(d) = "remote"
              /\ rows[d].status \in {"absent", "done", "failed", "deleted"}
                   => StageOf(d) = rows[d].status
<1>1. CASE ~Sound(d)
  BY <1>1 DEF StageOf
<1>2. CASE Sound(d)
  <2> DEFINE s == rows[d].status
             c == ClaimedStage(d)
  <2>1. StageOf(d) = CASE s = "ready"          -> "queued"
                       [] s = "processing"     -> c
                       [] s = "awaiting_async" -> "remote"
                       [] OTHER                -> s
    BY <1>2 DEF StageOf
  <2> HIDE DEF s, c
  <2>2. /\ s = "ready" => StageOf(d) = "queued"
        /\ s = "processing" => StageOf(d) = c
        /\ s = "awaiting_async" => StageOf(d) = "remote"
        /\ s \in {"absent", "done", "failed", "deleted"} => StageOf(d) = s
    BY <2>1
  <2> QED
    BY <1>2, <2>2 DEF s, c
<1> QED
  BY <1>1, <1>2

LEMMA StageByStatusNext ==
  ASSUME NEW d \in Deliveries
  PROVE  /\ ~Sound(d)' => StageOf(d)' = "adrift"
         /\ Sound(d)' =>
              /\ rows'[d].status = "ready" => StageOf(d)' = "queued"
              /\ rows'[d].status = "processing" => StageOf(d)' = ClaimedStage(d)'
              /\ rows'[d].status = "awaiting_async" => StageOf(d)' = "remote"
              /\ rows'[d].status \in {"absent", "done", "failed", "deleted"}
                   => StageOf(d)' = rows'[d].status
<1>1. CASE ~Sound(d)'
  BY <1>1 DEF StageOf
<1>2. CASE Sound(d)'
  <2> DEFINE s == rows'[d].status
             c == ClaimedStage(d)'
  <2>1. StageOf(d)' = CASE s = "ready"          -> "queued"
                        [] s = "processing"     -> c
                        [] s = "awaiting_async" -> "remote"
                        [] OTHER                -> s
    BY <1>2 DEF StageOf
  <2> HIDE DEF s, c
  <2>2. /\ s = "ready" => StageOf(d)' = "queued"
        /\ s = "processing" => StageOf(d)' = c
        /\ s = "awaiting_async" => StageOf(d)' = "remote"
        /\ s \in {"absent", "done", "failed", "deleted"} => StageOf(d)' = s
    BY <2>1
  <2> QED
    BY <1>2, <2>2 DEF s, c
<1> QED
  BY <1>1, <1>2

Extra(d) == patches[d] + undone[d]

\* What a step is to one delivery is a step of its lifecycle, or none.
StageStep(d) ==
  \/ /\ <<StageOf(d), StageOf(d)'>> \in Lifecycle!Paths
     /\ sends'[d] = sends[d] /\ Extra(d)' = Extra(d)
  \/ /\ <<StageOf(d), StageOf(d)'>> \in
          {<<"claimed", "sending">>, <<"deleted", "deleted">>, <<"adrift", "adrift">>}
     /\ sends[d] < MaxAttempts + Extra(d) /\ sends'[d] = sends[d] + 1
     /\ Extra(d)' = Extra(d)
  \/ /\ StageOf(d) \in Lifecycle!AtRest /\ StageOf(d)' \in Lifecycle!AtRest \cup {"lost"}
     /\ sends'[d] = sends[d] /\ Extra(d)' = Extra(d) + 1
  \/ /\ StageOf(d) \in Lifecycle!Live \cup {"adrift"} /\ StageOf(d)' = "adrift"
     /\ sends'[d] = sends[d] /\ Extra(d)' = Extra(d) + 1
  \/ StageOf(d)' = StageOf(d) /\ sends'[d] = sends[d] /\ Extra(d)' = Extra(d)

\* What a step costs: nothing, one request within the budget, or an
\* interference, which raises the budget by one.
LEMMA StepCosts ==
  ASSUME BudgetInv, [Next]_vars, NEW d \in Deliveries
  PROVE  \/ /\ sends'[d] = sends[d] /\ Extra(d)' = Extra(d)
            /\ d \in meddled' <=> d \in meddled
         \/ /\ sends[d] < MaxAttempts + Extra(d) /\ sends'[d] = sends[d] + 1
            /\ Extra(d)' = Extra(d)
            /\ d \in meddled' <=> d \in meddled
         \/ /\ sends'[d] = sends[d] /\ Extra(d)' = Extra(d) + 1
            /\ rows[d].status \in Statuses
<1>1. TypeOK /\ OpenInv /\ Budget(d)
  BY DEF BudgetInv, HandsInv
<1>2. Effect(d)
  BY <1>1, NextEffect
<1>3. /\ rows[d] \in Row /\ sends[d] \in Nat /\ patches[d] \in Nat /\ undone[d] \in Nat
      /\ MaxAttempts \in Nat /\ Unsent(d) \in Nat /\ Left(rows[d]) \in Nat
  BY <1>1, HandCounts, LeftNumbers, MaxAttemptsAssumption DEF TypeOK
<1>4. CASE Passes(d) \/ Taken(d) \/ Recorded(d)
  BY <1>4 DEF Passes, Taken, Recorded, SameCosts, Extra
<1>5. CASE GivenBack(d)
  BY <1>3, <1>5 DEF GivenBack, Extra, Statuses
<1>6. CASE Leaves(d)
  <2>1. sends[d] < MaxAttempts + patches[d] + undone[d]
    BY <1>1, <1>3, <1>6 DEF Leaves, Budget
  <2> QED
    BY <1>3, <1>6, <2>1 DEF Leaves, SameCosts, Extra
<1>7. CASE Stated(d)
  <2>1. TableStep(d) /\ sends'[d] = sends[d]
    BY <1>7 DEF Stated
  <2>2. \/ SameCosts(d)
        \/ /\ patches'[d] = patches[d] + 1 /\ undone'[d] = undone[d]
           /\ rows[d].status \in Statuses
    BY <1>1, <2>1, TableRow
  <2> QED
    BY <1>3, <2>1, <2>2 DEF SameCosts, Extra
<1> QED
  BY <1>2, <1>4, <1>5, <1>6, <1>7 DEF Effect

\* A delivery that stays sound.
LEMMA DeedIsStep ==
  ASSUME BudgetInv, [Next]_vars, NEW d \in Deliveries, Sound(d)'
  PROVE  StageStep(d)
<1> USE DEF Lifecycle!Paths, Lifecycle!AtRest, Lifecycle!Live, Lifecycle!Claimed
<1>0. HandsInv /\ rows[d].status \in Statuses \cup {"absent", "deleted"}
      /\ patches[d] \in Nat /\ undone[d] \in Nat
  BY DEF BudgetInv, HandsInv, TypeOK, Row
<1>1. Deed(d) /\ Sound(d) /\ Clear(d) /\ Clear(d)'
  BY <1>0, NextDeed
<1>2. /\ ClaimedStage(d) \in {"claimed", "sending", "accepted", "refused", "lost"}
      /\ ClaimedStage(d) # "lost" => rows[d].status \in {"processing", "deleted"}
  BY <1>1, StageNames DEF Clear, HandsApart
<1>3. CostsKept(d) => Extra(d)' = Extra(d)
  BY DEF CostsKept, Extra
<1>4. CASE Stays(d)
  <2>1. StageOf(d)' = StageOf(d)
    BY <1>1, <1>4 DEF StageOf, Stays, PlaceKept, RowKept, SameRow
  <2> QED
    BY <1>3, <1>4, <2>1 DEF StageStep, Stays, PlaceKept, RowKept
<1>5. CASE Inserted(d)
  BY <1>1, <1>3, <1>5, StageByStatus, StageByStatusNext DEF StageStep, Inserted, PlaceKept
<1>6. CASE Deleted(d)
  <2>1. StageOf(d)' = "deleted"
    BY <1>6, StageByStatusNext DEF Deleted
  <2>2. StageOf(d) \in Lifecycle!Live
    BY <1>1, <1>2, <1>6, StageByStatus DEF Deleted, Statuses
  <2> QED
    BY <1>3, <1>6, <2>1, <2>2 DEF StageStep, Deleted, PlaceKept
<1>7. CASE Told(d)
  BY <1>1, <1>3, <1>7, StageByStatus, StageByStatusNext DEF StageStep, Told, PlaceKept
<1>8. CASE Patched(d)
  <2>1. Extra(d)' = Extra(d) + 1
    BY <1>0, <1>8 DEF Patched, Extra
  <2>2. ClaimedStage(d)' = "lost"
    BY <1>2, <1>8 DEF Patched, PlaceKept, Statuses
  <2>3. StageOf(d) \in Lifecycle!AtRest
    BY <1>1, <1>8, StageByStatus DEF Patched, Statuses
  <2>4. StageOf(d)' \in Lifecycle!AtRest \cup {"lost"}
    BY <1>8, <2>2, StageByStatusNext DEF Patched, Statuses
  <2> QED
    BY <1>8, <2>1, <2>3, <2>4 DEF StageStep, Patched, PlaceKept
<1>9. CASE Granted(d) \/ HandedBack(d)
  BY <1>1, <1>3, <1>9, StageByStatus, StageByStatusNext
     DEF StageStep, Granted, HandedBack, HistoryKept
<1>10. CASE WentOut(d)
  <2>1. sends[d] < MaxAttempts + Extra(d) /\ Extra(d)' = Extra(d)
    BY <1>0, <1>3, <1>10, StepCosts DEF WentOut, RowKept, BudgetInv, HandsInv, TypeOK
  <2>2. rows[d].status \in {"processing", "deleted"}
    BY <1>2, <1>10 DEF WentOut
  <2> QED
    BY <1>1, <1>10, <2>1, <2>2, StageByStatus, StageByStatusNext
       DEF StageStep, WentOut, RowKept, SameRow
<1>11. CASE CalledOff(d) \/ GotReply(d) \/ Dropped(d)
  <2>1. rows[d].status \in {"processing", "deleted"}
    BY <1>2, <1>11 DEF CalledOff, GotReply, Dropped
  <2> QED
    BY <1>1, <1>3, <1>11, <2>1, StageByStatus, StageByStatusNext
       DEF StageStep, CalledOff, GotReply, Dropped, RowKept, HistoryKept, SameRow
<1>12. CASE WroteBack(d)
  BY <1>1, <1>3, <1>12, StageByStatus, StageByStatusNext DEF StageStep, WroteBack, HistoryKept
<1> QED
  BY <1>1, <1>4, <1>5, <1>6, <1>7, <1>8, <1>9, <1>10, <1>11, <1>12 DEF Deed

\* One that somebody interferes with, or did.
LEMMA AdriftIsStep ==
  ASSUME BudgetInv, [Next]_vars, NEW d \in Deliveries, ~Sound(d)'
  PROVE  StageStep(d)
<1> USE DEF Lifecycle!AtRest, Lifecycle!Live, Lifecycle!Claimed
<1>0. HandsInv /\ TypeOK /\ OpenInv
  BY DEF BudgetInv, HandsInv
<1>1. StageOf(d)' = "adrift"
  BY StageByStatusNext
<1>2. CASE ~Sound(d)
  <2>1. StageOf(d) = "adrift"
    BY <1>2, StageByStatus
  <2> QED
    BY <1>1, <2>1, StepCosts DEF StageStep
<1>3. CASE Sound(d)
  <2>1. /\ ClaimedStage(d) \in {"claimed", "sending", "accepted", "refused", "lost"}
    BY <1>0, <1>3, SoundIsClear, StageNames DEF ClearInv, Clear
  <2>2. rows[d].status \in Statuses => StageOf(d) \in Lifecycle!Live
    BY <1>3, <2>1, StageByStatus DEF Statuses
  <2>3. Extra(d)' # Extra(d) \/ ~(d \in meddled' <=> d \in meddled)
    <3>1. undone[d] = 0 /\ undone'[d] \in Nat /\ patches[d] \in Nat /\ patches'[d] \in Nat
          /\ d \notin meddled
      BY <1>0, <1>3, TypeStep DEF Sound, TypeOK
    <3>2. \/ SameCosts(d)
          \/ undone'[d] = undone[d] + 1 /\ patches'[d] = patches[d]
          \/ patches'[d] = patches[d] + 1 /\ undone'[d] = undone[d]
          \/ /\ patches'[d] = patches[d] /\ undone'[d] = undone[d]
             /\ d \in meddled' <=> d \in meddled
      BY <1>0, NextEffect, TableRow
         DEF Effect, Passes, Stated, Taken, GivenBack, Leaves, Recorded
    <3> QED
      BY <3>1, <3>2 DEF Extra, SameCosts, Sound
  <2>4. patches[d] \in Nat /\ undone[d] \in Nat
    BY <1>0 DEF TypeOK
  <2> QED
    BY <1>1, <2>2, <2>3, <2>4, StepCosts DEF StageStep, Extra
<1> QED
  BY <1>2, <1>3

LEMMA StepIsNext ==
  ASSUME \A d \in Deliveries : StageStep(d)
  PROVE  Lifecycle!Next
<1> DEFINE stage == [d \in Deliveries |-> StageOf(d)]
           extra == [d \in Deliveries |-> patches[d] + undone[d]]
<1> SUFFICES ASSUME NEW d \in Deliveries
             PROVE  \/ Lifecycle!Step(d)
                    \/ stage'[d] = stage[d] /\ sends'[d] = sends[d] /\ extra'[d] = extra[d]
  BY DEF Lifecycle!Next
<1>1. /\ stage[d] = StageOf(d) /\ stage'[d] = StageOf(d)'
      /\ extra[d] = Extra(d) /\ extra'[d] = Extra(d)'
  BY DEF Extra
<1> HIDE DEF stage, extra
<1> QED
  BY <1>1 DEF StageStep, Lifecycle!Step, Lifecycle!Move, Lifecycle!Send,
     Lifecycle!SendDeleted, Lifecycle!AskAgain, Lifecycle!GoAdrift, Lifecycle!Drift,
     stage, extra

\* The worker program keeps the promises of DeliveryLifecycle whatever the
\* number of processes, workers, deliveries and attempts, whatever goes wrong,
\* and however late the polls answer; where somebody interferes under it,
\* those that DeliveryLifecycle leaves of them.
THEOREM Implements == Spec => ImplementsLifecycle
<1> SUFFICES Spec => Lifecycle!Spec
  BY DEF ImplementsLifecycle
<1>1. Init => Lifecycle!Init
  BY InitStages, StageByStatus DEF Lifecycle!Init, Init
<1>2. BudgetInv /\ [Next]_vars => BudgetInv'
  BY NextBudget
<1>3. BudgetInv /\ [Next]_vars => [Lifecycle!Next]_(Lifecycle!lifecycle)
  BY DeedIsStep, AdriftIsStep, StepIsNext
<1> QED
  BY InitBudget, <1>1, <1>2, <1>3, PTL DEF Spec, Lifecycle!Spec
=============================================================================
