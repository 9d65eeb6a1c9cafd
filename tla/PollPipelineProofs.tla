------------------------- MODULE PollPipelineProofs ------------------------
(***************************************************************************)
(* Proofs about PollPipeline, for any number of deliveries, processes and  *)
(* poll workers, any batch size, any number of attempts, crashes and jobs. *)
(***************************************************************************)
EXTENDS PollPipeline, SequenceTheorems, TLAPS

-----------------------------------------------------------------------------
(* Type correctness.                                                       *)

\* What the statements of both halves make of a row is a row.
LEMMA RowsStayRows ==
  ASSUME NEW r \in Row
  PROVE  /\ ClaimedRow(r) \in Row /\ FinalizeFailedRow(r) \in Row
         /\ \A j \in Nat : StartAsyncRow(r, j) \in Row
         /\ \A s \in JobStates : UpdateAsyncRow(r, s) \in Row
         /\ \A s \in Statuses, due \in BOOLEAN : PatchedRow(r, s, due) \in Row
         /\ DeletedRow(r) \in Row /\ FinalizeOkRow(r) \in Row
         /\ [r EXCEPT !.due = TRUE] \in Row /\ [r EXCEPT !.status = "ready"] \in Row
<1> USE DEF Row, Statuses, Update
<1>1. FinalizeFailedRow(r) \in Row
  <2> DEFINE last == r.attempts + 1 >= MaxAttempts
             New(n, s, b) == [r EXCEPT !.attempts = n, !.status = s, !.due = b]
  <2>1. \A n \in Nat, s \in Statuses, b \in BOOLEAN : New(n, s, b) \in Row
    OBVIOUS
  <2>2. r.attempts + 1 \in Nat /\ last \in BOOLEAN
    OBVIOUS
  <2>3. FinalizeFailedRow(r) = Update(r, New(r.attempts + 1, IF last THEN "failed" ELSE "ready", last))
    BY DEF FinalizeFailedRow
  <2> HIDE DEF last, New
  <2> QED
    BY <2>1, <2>2, <2>3
<1>2. ClaimedRow(r) \in Row /\ DeletedRow(r) \in Row /\ FinalizeOkRow(r) \in Row
  BY DEF ClaimedRow, DeletedRow, AbsentRow, FinalizeOkRow
<1>3. \A j \in Nat : StartAsyncRow(r, j) \in Row
  BY DEF StartAsyncRow
<1>4. \A s \in JobStates : UpdateAsyncRow(r, s) \in Row
  BY DEF UpdateAsyncRow, JobStates
<1>5. \A s \in Statuses, due \in BOOLEAN : PatchedRow(r, s, due) \in Row
  BY DEF PatchedRow
<1> QED
  BY <1>1, <1>2, <1>3, <1>4, <1>5

\* A worker has a task or none.
LEMMA NoTaskIsNone == NoTask \notin Task
BY DEF NoTask, Task

LEMMA InitPolls == Init => TypeOK
<1> SUFFICES ASSUME Init PROVE TypeOK
  OBVIOUS
<1>1. InsertedRow \in Row
  BY DEF InsertedRow, AbsentRow, Row, Statuses
<1> QED
  BY <1>1, PollAssumption DEF Init, TypeOK, JobStates

\* One step of the environment.
EnvironmentAt(d) ==
  \/ SendClaims(d) \/ ClaimUndone(d)
  \/ SendStarts(d) \/ SendSucceeds(d) \/ SendFails(d)
  \/ \E j \in DOMAIN jobs[d], s \in JobStates : JobEnds(d, j, s)
  \/ BecomesDue(d) \/ ToggleSuspended(d)
  \/ \E s \in Statuses, due \in BOOLEAN : Patch(d, s, due)
  \/ Delete(d)

\* What a send worker leaves alone or writes in the row.
LEMMA SendEndsPolls ==
  ASSUME TypeOK, NEW d \in Deliveries, NEW r \in Row, SendEnds(d, r)
  PROVE  /\ rows' \in [Deliveries -> Row] /\ byHand' \subseteq Deliveries
         /\ sending' \in [Deliveries -> Nat]
         /\ UNCHANGED <<suspended, patches, meddled, jobless>>
BY DEF SendEnds, TypeOK, operators

LEMMA EnvironmentPolls == TypeOK /\ Environment => TypeOK'
<1> SUFFICES ASSUME TypeOK, NEW d \in Deliveries, EnvironmentAt(d)
             PROVE  TypeOK'
  BY DEF Environment, EnvironmentAt
<1> USE DEF procVars, workerVars, operators
<1>1. UNCHANGED <<procVars, workerVars>>
  BY DEF EnvironmentAt, SendClaims, ClaimUndone, SendStarts, SendSucceeds, SendFails,
     SendEnds, JobEnds, BecomesDue, ToggleSuspended, Patch, Delete
<1>2. /\ rows' \in [Deliveries -> Row] /\ suspended' \subseteq Deliveries
      /\ patches' \in [Deliveries -> Nat] /\ meddled' \subseteq Deliveries
      /\ jobless' \subseteq Deliveries /\ byHand' \subseteq Deliveries
      /\ sending' \in [Deliveries -> Nat] /\ plain' \subseteq Deliveries
      /\ jobs' \in [Deliveries -> Seq(JobStates)]
  <2>0. /\ rows[d] \in Row /\ rows \in [Deliveries -> Row]
        /\ suspended \subseteq Deliveries /\ patches \in [Deliveries -> Nat]
        /\ meddled \subseteq Deliveries /\ jobless \subseteq Deliveries
        /\ byHand \subseteq Deliveries /\ plain \subseteq Deliveries
        /\ sending \in [Deliveries -> Nat] /\ jobs \in [Deliveries -> Seq(JobStates)]
    BY DEF TypeOK
  <2>1. CASE SendClaims(d)
    <3>1. ClaimedRow(rows[d]) \in Row
      BY <2>0, RowsStayRows
    <3>2. sending[d] + 1 \in Nat
      BY <2>0
    <3> QED
      BY <2>0, <2>1, <3>1, <3>2 DEF SendClaims
  <2>2. CASE SendStarts(d)
    <3>1. Append(jobs[d], "RUNNING") \in Seq(JobStates)
      BY <2>0 DEF JobStates
    <3>2. jobs' \in [Deliveries -> Seq(JobStates)]
      BY <2>0, <2>2, <3>1 DEF SendStarts
    <3>3. StartAsyncRow(rows[d], Len(jobs'[d])) \in Row
      BY <2>0, <3>2, RowsStayRows, LenProperties
    <3> QED
      BY <2>0, <2>2, <3>2, <3>3, SendEndsPolls DEF SendStarts
  <2>3. CASE SendFails(d)
    BY <2>0, <2>3, RowsStayRows, SendEndsPolls DEF SendFails
  <2>4. CASE SendSucceeds(d)
    BY <2>0, <2>4, RowsStayRows, SendEndsPolls DEF SendSucceeds
  <2>5. CASE \E j \in DOMAIN jobs[d], s \in JobStates : JobEnds(d, j, s)
    <3> PICK j \in DOMAIN jobs[d], s \in JobStates : JobEnds(d, j, s)
      BY <2>5
    <3>1. [jobs[d] EXCEPT ![j] = s] \in Seq(JobStates)
      BY <2>0, ExceptSeq, LenProperties
    <3> QED
      BY <2>0, <3>1 DEF JobEnds, dbVars
  <2>6. CASE BecomesDue(d)
    BY <2>0, <2>6, RowsStayRows DEF BecomesDue, remoteVars
  <2>7. CASE ToggleSuspended(d)
    BY <2>0, <2>7 DEF ToggleSuspended, remoteVars
  <2>8. CASE \E s \in Statuses, due \in BOOLEAN : Patch(d, s, due)
    <3> PICK s \in Statuses, due \in BOOLEAN : Patch(d, s, due)
      BY <2>8
    <3>1. PatchedRow(rows[d], s, due) \in Row
      BY <2>0, RowsStayRows
    <3>0. patches[d] + 1 \in Nat
      BY <2>0
    <3>2. /\ rows' = [rows EXCEPT ![d] = PatchedRow(rows[d], s, due)]
          /\ patches' = [patches EXCEPT ![d] = patches[d] + 1]
          /\ meddled' \in {meddled, meddled \cup {d}}
          /\ jobless' \in {jobless, jobless \cup {d}}
          /\ byHand' = byHand \cup {d}
          /\ UNCHANGED <<suspended, sending, plain, jobs>>
      BY DEF Patch, remoteVars
    <3> QED
      BY <2>0, <3>0, <3>1, <3>2
  <2>9. CASE Delete(d)
    BY <2>0, <2>9, RowsStayRows DEF Delete, remoteVars
  <2>10. CASE ClaimUndone(d)
    BY <2>0, <2>10, RowsStayRows DEF ClaimUndone, remoteVars
  <2> QED
    BY <2>1, <2>2, <2>3, <2>4, <2>5, <2>6, <2>7, <2>8, <2>9, <2>10 DEF EnvironmentAt
<1> QED
  BY <1>1, <1>2 DEF TypeOK

LEMMA ProcessPolls ==
  ASSUME TypeOK, NEW p \in Procs,
         Dispatcher(p) \/ Signal(p) \/ Crash(p) \/ Start(p)
  PROVE  TypeOK'
<1> USE PollAssumption DEF TypeOK, dbVars, operators, remoteVars, workerVars
<1>1. CASE ClaimPolls(p)
  <2>1. \A S \in SUBSET Pollable :
          {[delivery |-> d, job |-> rows[d].job] : d \in S} \in SUBSET Task
    BY DEF Pollable, Task, Row
  <2> QED
    BY <1>1, <2>1 DEF ClaimPolls
<1>2. CASE \E t \in batch[p] : DispatchPoll(p, t)
  BY <1>2 DEF DispatchPoll
<1>3. CASE AbandonPolls(p)
  BY <1>3 DEF AbandonPolls
<1>4. CASE Exit(p)
  BY <1>4 DEF Exit, TeamOf
<1>5. CASE Signal(p)
  BY <1>5 DEF Signal
<1>6. CASE Crash(p)
  BY <1>6 DEF Crash
<1>7. CASE Start(p)
  BY <1>7 DEF Start
<1> QED
  BY <1>1, <1>2, <1>3, <1>4, <1>5, <1>6, <1>7 DEF Dispatcher

LEMMA WorkerPolls ==
  ASSUME TypeOK, NEW w \in Workers, Worker(w)
  PROVE  TypeOK'
<1> USE PollAssumption DEF TypeOK, dbVars, operators, remoteVars, procVars
<1>1. CASE Receive(w)
  <2>1. /\ Head(pollCh[Owner[w]]) \in Task /\ Tail(pollCh[Owner[w]]) \in Seq(Task)
    BY <1>1, HeadTailProperties DEF Receive
  <2> QED
    BY <1>1, <2>1, NoTaskIsNone DEF Receive
<1>2. CASE WorkerExit(w)
  BY <1>2 DEF WorkerExit
<1>3. CASE SendPoll(w)
  BY <1>3 DEF SendPoll
<1>4. CASE PollCancelled(w)
  BY <1>4 DEF PollCancelled, JobStates
<1>5. CASE LimiterFails(w)
  BY <1>5 DEF LimiterFails, Released
<1>6. CASE RecordPollFails(w)
  BY <1>6 DEF RecordPollFails, Released
<1>7. ASSUME NEW s \in JobStates, Answer(w, s) PROVE TypeOK'
  BY <1>7 DEF Answer, JobStates
<1>8. CASE RecordPoll(w)
  <2>1. task[w] \in Task /\ answer[w] \in JobStates
    BY <1>8 DEF RecordPoll
  <2>2. UpdateAsyncRow(rows[task[w].delivery], answer[w]) \in Row
    BY <2>1, RowsStayRows DEF Task
  <2> QED
    BY <1>8, <2>1, <2>2 DEF RecordPoll, Released
<1> QED
  BY <1>1, <1>2, <1>3, <1>4, <1>5, <1>6, <1>7, <1>8 DEF Worker

LEMMA NextPolls == TypeOK /\ [Next]_vars => TypeOK'
<1>1. TypeOK /\ UNCHANGED vars => TypeOK'
  BY DEF TypeOK, vars, dbVars, operators, remoteVars, procVars, workerVars
<1> QED
  BY <1>1, EnvironmentPolls, ProcessPolls, WorkerPolls DEF Next

\* Every reachable state has the types the model declares.
THEOREM TypeCorrect == Spec => []TypeOK
BY InitPolls, NextPolls, PTL DEF Spec

-----------------------------------------------------------------------------
(* What the program makes of a delivery is so.                             *)

\* The verdict the row gives, if it is the program's, is the job's, the last
\* send's or comes of the attempts.
Judged(d) ==
  d \notin byHand \cup jobless =>
    /\ rows[d].status = "done" => d \in plain \/ CameTo(d, "COMPLETED")
    /\ rows[d].status = "failed"
         => rows[d].attempts >= MaxAttempts \/ CameTo(d, "FAILED")

\* A row names a job the server started; a Sound one is in the hands of one
\* send worker at most, and then it is not settled or waiting for its job.
Settled(d) ==
  /\ rows[d].job <= Len(jobs[d])
  /\ rows[d].status = "awaiting_async" /\ d \notin jobless => rows[d].job # 0
  /\ Sound(d) => \/ sending[d] = 0
                 \/ sending[d] = 1 /\ rows[d].status \in {"processing", "deleted"}
  /\ Judged(d)

\* A poll that is out asks about a job of its delivery; of a Sound one, about
\* the job of its row, which no send worker has, and if that is settled
\* already, it is what the job came to.
Fits(d, j) ==
  /\ sending[d] = 0
  /\ rows[d].status \in {"awaiting_async", "done", "failed"}
  /\ rows[d].job = j
  /\ rows[d].status = "done" => jobs[d][j] = "COMPLETED"
  /\ rows[d].status = "failed" => jobs[d][j] = "FAILED"

Apt(d, j) ==
  /\ d \notin jobless => j \in DOMAIN jobs[d]
  /\ Sound(d) => \/ rows[d].status = "deleted" /\ sending[d] = 0
                 \/ Fits(d, j)

\* An answer that settles is what the job came to.
Heard == \A w \in Workers : answer[w] \in {"COMPLETED", "FAILED"} =>
           LET t == task[w] IN
           t.delivery \notin jobless => jobs[t.delivery][t.job] = answer[w]

JobsInv ==
  /\ TypeOK
  /\ \A d \in Deliveries : Settled(d)
  /\ \A t \in Out : Apt(t.delivery, t.job)
  /\ Heard

\* To be out is to be in one of the places.
IsOut(t) ==
  \/ \E p \in Procs : t \in batch[p]
  \/ \E p \in Procs : \E i \in DOMAIN pollCh[p] : t = pollCh[p][i]
  \/ \E w \in Workers : t = task[w] /\ t # NoTask

OutPlaces == \A t : t \in Out <=> IsOut(t)

LEMMA OutIs == OutPlaces
<1> SUFFICES ASSUME NEW t PROVE t \in Out <=> IsOut(t)
  BY DEF OutPlaces
<1> DEFINE Places(p) == {pollCh[p][i] : i \in DOMAIN pollCh[p]}
           Had == {task[w] : w \in Workers} \ {NoTask}
           Read == {batch[p] \cup Places(p) : p \in Procs}
           All == (UNION Read) \cup Had
<1>1. \A p : t \in Places(p) <=> \E i \in DOMAIN pollCh[p] : t = pollCh[p][i]
  OBVIOUS
<1>2. t \in Had <=> \E w \in Workers : t = task[w] /\ t # NoTask
  OBVIOUS
<1>3. t \in UNION Read <=> \E p \in Procs : t \in batch[p] \cup Places(p)
  <2> HIDE DEF Places
  <2> QED
    OBVIOUS
<1>4. Out = All
  BY DEF Out
<1>5. t \in Out <=> \/ \E p \in Procs : t \in batch[p] \cup Places(p)
                    \/ t \in Had
  <2>1. t \in All <=> t \in UNION Read \/ t \in Had
    <3> HIDE DEF Places, Had, Read
    <3> QED
      OBVIOUS
  <2>2. t \in Out <=> t \in All
    <3> HIDE DEF All
    <3> QED
      BY <1>4
  <2> HIDE DEF All, Places, Had, Read
  <2> QED
    BY <1>3, <2>1, <2>2, Zenon
<1>6. \A p : t \in batch[p] \cup Places(p) <=> t \in batch[p] \/ t \in Places(p)
  <2> HIDE DEF Places
  <2> QED
    OBVIOUS
<1> HIDE DEF All, Places, Had, Read
<1> QED
  BY <1>1, <1>2, <1>5, <1>6, Zenon DEF IsOut

\* Polls that are out are polls.
LEMMA OutTasks == TypeOK => Out \subseteq Task
<1> SUFFICES ASSUME TypeOK, NEW t \in Out PROVE t \in Task
  OBVIOUS
<1>1. CASE \E p \in Procs : t \in batch[p]
  BY <1>1 DEF TypeOK
<1>2. CASE \E p \in Procs : \E i \in DOMAIN pollCh[p] : t = pollCh[p][i]
  BY <1>2, LenProperties, ElementOfSeq DEF TypeOK
<1>3. CASE \E w \in Workers : t = task[w] /\ t # NoTask
  BY <1>3 DEF TypeOK
<1> QED
  BY <1>1, <1>2, <1>3, OutIs DEF OutPlaces, IsOut

\* Where the polls that are out may be.
LEMMA OutParts ==
  ASSUME TypeOK
  PROVE  /\ batch \in [Procs -> SUBSET Out]
         /\ pollCh \in [Procs -> Seq(Out)]
         /\ task \in [Workers -> Out \cup {NoTask}]
<1>1. \A p \in Procs : batch[p] \subseteq Out
  BY OutIs DEF OutPlaces, IsOut
<1>2. \A w \in Workers : task[w] \in Out \cup {NoTask}
  BY OutIs DEF OutPlaces, IsOut
<1>3. ASSUME NEW p \in Procs PROVE pollCh[p] \in Seq(Out)
  <2>1. \A i \in DOMAIN pollCh[p] : pollCh[p][i] \in Out
    BY <1>3, OutIs DEF OutPlaces, IsOut
  <2>2. pollCh[p] \in Seq(Task)
    BY DEF TypeOK
  <2>3. \A i \in 1 .. Len(pollCh[p]) : pollCh[p][i] \in Out
    BY <2>1, <2>2, LenProperties
  <2> QED
    BY <2>2, <2>3, SeqDef, LenProperties
<1> QED
  BY <1>1, <1>2, <1>3 DEF TypeOK

\* Conversely, what is in none of the places is not out.
LEMMA OutWithin ==
  ASSUME NEW S, batch' \in [Procs -> SUBSET S], pollCh' \in [Procs -> Seq(S)],
         task' \in [Workers -> S \cup {NoTask}]
  PROVE  Out' \subseteq S
<1> SUFFICES ASSUME NEW t \in Out' PROVE t \in S
  OBVIOUS
<1>0. OutPlaces'
  BY OutIs, PTL
<1>1. CASE \E p \in Procs : t \in batch'[p]
  BY <1>1
<1>2. CASE \E p \in Procs : \E i \in DOMAIN pollCh'[p] : t = pollCh'[p][i]
  BY <1>2, LenProperties, ElementOfSeq
<1>3. CASE \E w \in Workers : t = task'[w] /\ t # NoTask
  BY <1>3
<1> QED
  BY <1>0, <1>1, <1>2, <1>3 DEF OutPlaces, IsOut

\* What these invariants say of a delivery is told by the following.
Same(e) ==
  /\ UNCHANGED <<rows[e], sending[e], jobs[e]>>
  /\ e \in meddled' <=> e \in meddled
  /\ e \in jobless' <=> e \in jobless
  /\ e \in byHand' <=> e \in byHand
  /\ e \in plain' <=> e \in plain

LEMMA SameKeeps ==
  ASSUME NEW e \in Deliveries, Same(e)
  PROVE  /\ Settled(e) => Settled(e)'
         /\ \A j : Apt(e, j) => Apt(e, j)'
BY DEF Same, Settled, Judged, CameTo, JobOf, Apt, Fits, Sound

LEMMA InitJobs == Init => JobsInv
<1> SUFFICES ASSUME Init PROVE JobsInv
  OBVIOUS
<1>1. TypeOK
  BY InitPolls
<1>2. \A t : t \notin Out
  BY OutIs, PollAssumption DEF OutPlaces, IsOut, Init
<1>3. ASSUME NEW d \in Deliveries PROVE Settled(d)
  <2>1. jobs[d] = <<>> /\ rows[d] = InsertedRow /\ sending[d] = 0
    BY DEF Init
  <2>2. InsertedRow.status = "ready" /\ InsertedRow.job = 0 /\ Len(<<>>) = 0
    BY DEF InsertedRow, AbsentRow
  <2> QED
    BY <2>1, <2>2 DEF Settled, Judged
<1>4. Heard
  BY DEF Init, Heard
<1> QED
  BY <1>1, <1>2, <1>3, <1>4 DEF JobsInv

\* A step of the environment about one delivery leaves the others alone.
LEMMA EnvironmentSame ==
  ASSUME TypeOK, NEW d \in Deliveries, EnvironmentAt(d), NEW e \in Deliveries \ {d}
  PROVE  Same(e)
<1> USE DEF dbVars, remoteVars, operators
<1>0. /\ rows \in [Deliveries -> Row] /\ sending \in [Deliveries -> Nat]
      /\ jobs \in [Deliveries -> Seq(JobStates)]
  BY DEF TypeOK
<1>1. CASE SendClaims(d) \/ BecomesDue(d) \/ ToggleSuspended(d) \/ Delete(d) \/ ClaimUndone(d)
  BY <1>0, <1>1 DEF SendClaims, BecomesDue, ToggleSuspended, Delete, ClaimUndone, Same
<1>2. CASE SendStarts(d) \/ SendSucceeds(d) \/ SendFails(d)
  BY <1>0, <1>2 DEF SendStarts, SendSucceeds, SendFails, SendEnds, Same
<1>3. CASE \E j \in DOMAIN jobs[d], s \in JobStates : JobEnds(d, j, s)
  <2> PICK j \in DOMAIN jobs[d], s \in JobStates : JobEnds(d, j, s)
    BY <1>3
  <2>1. jobs' = [jobs EXCEPT ![d] = [jobs[d] EXCEPT ![j] = s]] /\ UNCHANGED <<dbVars, sending, plain>>
    BY DEF JobEnds
  <2> QED
    BY <1>0, <2>1 DEF Same
<1>4. CASE \E s \in Statuses, due \in BOOLEAN : Patch(d, s, due)
  <2> PICK s \in Statuses, due \in BOOLEAN : Patch(d, s, due)
    BY <1>4
  <2>1. /\ rows' = [rows EXCEPT ![d] = PatchedRow(rows[d], s, due)]
        /\ meddled' \in {meddled, meddled \cup {d}} /\ jobless' \in {jobless, jobless \cup {d}}
        /\ byHand' = byHand \cup {d} /\ UNCHANGED <<sending, plain, jobs>>
    BY DEF Patch
  <2> QED
    BY <1>0, <2>1 DEF Same
<1> QED
  BY <1>1, <1>2, <1>3, <1>4 DEF EnvironmentAt

\* A server does not forget a job, and a job that ended does not change.
JobsLast(d) ==
  \A j \in DOMAIN jobs[d] :
    /\ j \in DOMAIN jobs'[d]
    /\ jobs[d][j] # "RUNNING" => jobs'[d][j] = jobs[d][j]

\* What a worker writes for its send settles the delivery as it should, and no
\* poll of a Sound one is out then.
LEMMA SendEndsSettles ==
  ASSUME JobsInv, NEW d \in Deliveries,
         SendStarts(d) \/ SendSucceeds(d) \/ SendFails(d)
  PROVE  /\ JobsLast(d) /\ Settled(d)' /\ UNCHANGED <<meddled, jobless>>
         /\ \A t \in Out : t.delivery = d => Apt(d, t.job)'
<1> DEFINE r == rows[d]
<1>0. /\ r \in Row /\ rows \in [Deliveries -> Row] /\ Settled(d)
      /\ sending \in [Deliveries -> Nat] /\ sending[d] > 0 /\ byHand \subseteq Deliveries
      /\ jobs \in [Deliveries -> Seq(JobStates)] /\ plain \subseteq Deliveries
      /\ jobs[d] \in Seq(JobStates) /\ Len(jobs[d]) \in Nat /\ r.job \in Nat
      /\ \A t \in Out : t.delivery = d => Apt(d, t.job)
  BY LenProperties DEF JobsInv, TypeOK, SendStarts, SendSucceeds, SendFails, SendEnds, Row
<1>1. UNCHANGED <<meddled, jobless>> /\ sending'[d] = sending[d] - 1
  BY <1>0 DEF SendStarts, SendSucceeds, SendFails, SendEnds, operators
<1>2. Sound(d) => sending[d] = 1 /\ r.status \in {"processing", "deleted"}
  BY <1>0 DEF Settled
<1>3. JobsLast(d) /\ Len(jobs'[d]) >= Len(jobs[d]) /\ Len(jobs'[d]) \in Nat
  <2>1. CASE SendStarts(d)
    <3>1. jobs'[d] = Append(jobs[d], "RUNNING") /\ "RUNNING" \in JobStates
      BY <1>0, <2>1 DEF SendStarts, JobStates
    <3>2. /\ Len(jobs'[d]) = Len(jobs[d]) + 1 /\ DOMAIN jobs'[d] = 1 .. Len(jobs[d]) + 1
          /\ \A j \in 1 .. Len(jobs[d]) : jobs'[d][j] = jobs[d][j]
          /\ DOMAIN jobs[d] = 1 .. Len(jobs[d])
      BY <1>0, <3>1, AppendProperties, LenProperties
    <3> QED
      BY <1>0, <3>2 DEF JobsLast
  <2>2. CASE SendSucceeds(d) \/ SendFails(d)
    BY <1>0, <2>2 DEF SendSucceeds, SendFails, JobsLast
  <2> QED
    BY <2>1, <2>2
<1>4. \A t \in Out : t.delivery = d => Apt(d, t.job)'
  <2> SUFFICES ASSUME NEW t \in Out, t.delivery = d PROVE Apt(d, t.job)'
    OBVIOUS
  <2>1. Apt(d, t.job)
    BY <1>0
  <2>2. ~Sound(d) /\ ~Sound(d)'
    BY <1>0, <1>1, <1>2, <2>1 DEF Apt, Fits, Sound
  <2> QED
    BY <1>1, <1>3, <2>1, <2>2 DEF Apt, JobsLast
<1>5. \/ ~Exists(r) /\ rows'[d] = r
      \/ /\ rows'[d].job \in Nat /\ rows'[d].job <= Len(jobs'[d])
         /\ rows'[d].status = "awaiting_async" => rows'[d].job # 0
         /\ rows'[d].status = "done" => d \in plain'
         /\ rows'[d].status = "failed" => rows'[d].attempts >= MaxAttempts
  <2>1. CASE SendStarts(d)
    <3>1. rows'[d] = StartAsyncRow(r, Len(jobs'[d])) /\ Len(jobs'[d]) = Len(jobs[d]) + 1
      <4>1. jobs'[d] = Append(jobs[d], "RUNNING")
        BY <1>0, <2>1 DEF SendStarts
      <4> QED
        BY <1>0, <2>1, <4>1, AppendProperties DEF SendStarts, SendEnds, JobStates
    <3>2. \/ ~Exists(r) /\ rows'[d] = r
          \/ rows'[d].status = "awaiting_async" /\ rows'[d].job = Len(jobs[d]) + 1
      BY <1>0, <3>1 DEF StartAsyncRow, Update, Row
    <3> QED
      BY <1>0, <1>3, <3>1, <3>2
  <2>2. CASE SendSucceeds(d)
    <3>1. rows'[d] = FinalizeOkRow(r) /\ d \in plain'
      BY <1>0, <2>2 DEF SendSucceeds, SendEnds
    <3>2. \/ ~Exists(r) /\ rows'[d] = r
          \/ rows'[d].status = "done" /\ rows'[d].job = r.job
      BY <1>0, <3>1 DEF FinalizeOkRow, Update, Row
    <3>3. r.job <= Len(jobs'[d])
      BY <1>0, <1>3 DEF Settled
    <3> QED
      BY <1>0, <3>1, <3>2, <3>3
  <2>3. CASE SendFails(d)
    <3>1. rows'[d] = FinalizeFailedRow(r) /\ MaxAttempts \in Nat /\ r.attempts \in Nat
      BY <1>0, <2>3, MaxAttemptsAssumption DEF SendFails, SendEnds, Row
    <3>2. \/ ~Exists(r) /\ rows'[d] = r
          \/ /\ rows'[d].job = r.job
             /\ \/ rows'[d].status = "ready"
                \/ rows'[d].status = "failed" /\ rows'[d].attempts >= MaxAttempts
      BY <1>0, <3>1 DEF FinalizeFailedRow, Update, Row
    <3>3. r.job <= Len(jobs'[d])
      BY <1>0, <1>3 DEF Settled
    <3> QED
      BY <1>0, <3>1, <3>2, <3>3
  <2> QED
    BY <2>1, <2>2, <2>3
<1>6. Settled(d)'
  <2>1. Sound(d)' => sending'[d] = 0
    BY <1>0, <1>1, <1>2 DEF Sound
  <2>2. Judged(d)'
    BY <1>5 DEF Judged, Exists, Statuses
  <2>3. rows'[d].job <= Len(jobs'[d])
    BY <1>0, <1>3, <1>5 DEF Settled
  <2>4. rows'[d].status = "awaiting_async" => rows'[d].job # 0
    BY <1>5 DEF Exists, Statuses
  <2> QED
    BY <2>1, <2>2, <2>3, <2>4 DEF Settled
<1> QED
  BY <1>1, <1>3, <1>4, <1>6

\* What else happens to a delivery: it is claimed for sending, its claim is
\* rolled back, its job ends, time passes, operators act.
LEMMA OthersSettle ==
  ASSUME JobsInv, NEW d \in Deliveries,
         \/ SendClaims(d) \/ ClaimUndone(d) \/ BecomesDue(d) \/ ToggleSuspended(d)
         \/ \E j \in DOMAIN jobs[d], s \in JobStates : JobEnds(d, j, s)
         \/ \E s \in Statuses, due \in BOOLEAN : Patch(d, s, due)
         \/ Delete(d)
  PROVE  /\ JobsLast(d) /\ Settled(d)' /\ jobless \subseteq jobless'
         /\ \A t \in Out : t.delivery = d => Apt(d, t.job)'
<1> DEFINE r == rows[d]
<1> USE DEF dbVars, remoteVars, operators
<1>0. /\ r \in Row /\ rows \in [Deliveries -> Row] /\ Settled(d)
      /\ sending \in [Deliveries -> Nat] /\ byHand \subseteq Deliveries
      /\ jobs \in [Deliveries -> Seq(JobStates)] /\ plain \subseteq Deliveries
      /\ jobs[d] \in Seq(JobStates) /\ Len(jobs[d]) \in Nat /\ r.job \in Nat
      /\ \A t \in Out : t.delivery = d => Apt(d, t.job)
      /\ DOMAIN jobs[d] = 1 .. Len(jobs[d]) /\ sending[d] \in Nat
  BY LenProperties DEF JobsInv, TypeOK, Row
<1>1. CASE SendClaims(d)
  <2>1. /\ r.status = "ready" /\ rows'[d].status = "processing" /\ rows'[d].job = r.job
        /\ sending'[d] = sending[d] + 1 /\ UNCHANGED <<jobs, meddled, jobless>>
    BY <1>0, <1>1 DEF SendClaims, Ready, ClaimedRow, Row
  <2>2. Settled(d)'
    BY <1>0, <2>1 DEF Settled, Judged, Sound
  <2>3. \A t \in Out : t.delivery = d => Apt(d, t.job)'
    BY <1>0, <2>1 DEF Apt, Fits, Sound
  <2> QED
    BY <2>1, <2>2, <2>3 DEF JobsLast
<1>2. CASE ClaimUndone(d)
  <2>1. /\ rows'[d].status = "ready" /\ rows'[d].job = r.job /\ d \in meddled'
        /\ UNCHANGED <<jobs, jobless>>
    BY <1>0, <1>2 DEF ClaimUndone, Row
  <2>2. Settled(d)'
    BY <1>0, <2>1 DEF Settled, Judged, Sound
  <2>3. \A t \in Out : t.delivery = d => Apt(d, t.job)'
    BY <1>0, <2>1 DEF Apt, Sound
  <2> QED
    BY <2>1, <2>2, <2>3 DEF JobsLast
<1>3. CASE BecomesDue(d) \/ ToggleSuspended(d)
  <2>1. /\ rows'[d].status = r.status /\ rows'[d].job = r.job /\ rows'[d].attempts = r.attempts
        /\ UNCHANGED <<jobs, sending, meddled, jobless, byHand, plain>>
    BY <1>0, <1>3 DEF BecomesDue, ToggleSuspended, Row
  <2>2. Settled(d)'
    BY <1>0, <2>1 DEF Settled, Judged, CameTo, JobOf, Sound
  <2>3. \A t \in Out : t.delivery = d => Apt(d, t.job)'
    BY <1>0, <2>1 DEF Apt, Fits, Sound
  <2> QED
    BY <2>1, <2>2, <2>3 DEF JobsLast
<1>4. CASE \E j \in DOMAIN jobs[d], s \in JobStates : JobEnds(d, j, s)
  <2> PICK j \in DOMAIN jobs[d], s \in JobStates : JobEnds(d, j, s)
    BY <1>4
  <2>1. /\ jobs'[d] = [jobs[d] EXCEPT ![j] = s] /\ jobs[d][j] = "RUNNING"
        /\ UNCHANGED <<rows, sending, meddled, jobless, byHand, plain>>
    BY <1>0 DEF JobEnds
  <2>2. /\ Len(jobs'[d]) = Len(jobs[d]) /\ DOMAIN jobs'[d] = DOMAIN jobs[d]
        /\ \A k \in DOMAIN jobs[d] \ {j} : jobs'[d][k] = jobs[d][k]
    BY <1>0, <2>1, ExceptSeq, LenProperties
  <2>3. \A S \in {"COMPLETED", "FAILED"}, k \in DOMAIN jobs[d] :
          jobs[d][k] = S => jobs'[d][k] = S
    BY <2>1, <2>2
  <2>4. \A S \in {"COMPLETED", "FAILED"} : CameTo(d, S) => CameTo(d, S)'
    BY <2>1, <2>2, <2>3 DEF CameTo, JobOf, Sound
  <2>5. Settled(d)'
    BY <1>0, <2>1, <2>2, <2>4 DEF Settled, Judged, Sound
  <2>6. \A t \in Out : t.delivery = d => Apt(d, t.job)'
    <3> SUFFICES ASSUME NEW t \in Out, t.delivery = d PROVE Apt(d, t.job)'
      OBVIOUS
    <3>1. Apt(d, t.job)
      BY <1>0
    <3>2. ASSUME Sound(d) PROVE t.job \in DOMAIN jobs[d]
      BY <3>1, <3>2 DEF Apt, Sound
    <3> QED
      BY <2>1, <2>2, <2>3, <3>1, <3>2 DEF Apt, Fits, Sound
  <2> QED
    BY <2>1, <2>2, <2>5, <2>6 DEF JobsLast
<1>5. CASE \E s \in Statuses, due \in BOOLEAN : Patch(d, s, due)
  <2> PICK s \in Statuses, due \in BOOLEAN : Patch(d, s, due)
    BY <1>5
  <2>1. r.status \in Statuses
    BY PollAssumption DEF Patch
  <2>2. /\ rows'[d].status = s /\ rows'[d].job = r.job
        /\ UNCHANGED <<jobs, sending>> /\ d \in byHand'
        /\ jobless \subseteq jobless' /\ meddled \subseteq meddled'
        /\ Meddles(d) => d \in meddled'
        /\ s = "awaiting_async" /\ r.job = 0 => d \in jobless'
    BY <1>0, <2>1 DEF Patch, PatchedRow, Update, Exists, Row
  <2>3. Settled(d)'
    <3>1. Sound(d)' => sending'[d] = 0
      BY <1>0, <2>2 DEF Sound, Meddles
    <3> QED
      BY <1>0, <2>2, <3>1 DEF Settled, Judged
  <2>4. \A t \in Out : t.delivery = d => Apt(d, t.job)'
    <3> SUFFICES ASSUME NEW t \in Out, t.delivery = d PROVE Apt(d, t.job)'
      OBVIOUS
    <3>1. d \in meddled' /\ Apt(d, t.job)
      BY <1>0, <2>2 DEF Meddles, PollsOut
    <3> QED
      BY <2>2, <3>1 DEF Apt, Sound
  <2> QED
    BY <2>2, <2>3, <2>4 DEF JobsLast
<1>6. CASE Delete(d)
  <2>1. /\ rows'[d].status = "deleted" /\ rows'[d].job = 0
        /\ UNCHANGED <<jobs, sending, meddled, jobless>>
    BY <1>0, <1>6 DEF Delete, DeletedRow, Update, AbsentRow
  <2>2. Settled(d)'
    BY <1>0, <2>1 DEF Settled, Judged, Sound
  <2>3. \A t \in Out : t.delivery = d => Apt(d, t.job)'
    BY <1>0, <2>1 DEF Apt, Fits, Sound
  <2> QED
    BY <2>1, <2>2, <2>3 DEF JobsLast
<1> QED
  BY <1>1, <1>2, <1>3, <1>4, <1>5, <1>6

LEMMA EnvironmentJobs ==
  ASSUME JobsInv, Environment
  PROVE  JobsInv'
<1> PICK d \in Deliveries : EnvironmentAt(d)
  BY DEF Environment, EnvironmentAt
<1>1. TypeOK' /\ TypeOK
  BY EnvironmentPolls DEF JobsInv
<1>2. UNCHANGED <<batch, pollCh, task, answer>>
  BY DEF EnvironmentAt, SendClaims, ClaimUndone, SendStarts, SendSucceeds, SendFails,
     SendEnds, JobEnds, BecomesDue, ToggleSuspended, Patch, Delete, procVars, workerVars
<1>3. Out' = Out
  BY <1>2 DEF Out
<1>4. /\ JobsLast(d) /\ Settled(d)' /\ jobless \subseteq jobless'
      /\ \A t \in Out : t.delivery = d => Apt(d, t.job)'
  BY SendEndsSettles, OthersSettle DEF EnvironmentAt
<1>5. \A e \in Deliveries \ {d} : Same(e)
  BY <1>1, EnvironmentSame
<1>6. \A e \in Deliveries : Settled(e)'
  BY <1>4, <1>5, SameKeeps DEF JobsInv
<1>7. \A t \in Out' : Apt(t.delivery, t.job)'
  <2> SUFFICES ASSUME NEW t \in Out PROVE Apt(t.delivery, t.job)'
    BY <1>3
  <2>1. t.delivery \in Deliveries /\ Apt(t.delivery, t.job)
    BY <1>1, OutTasks DEF JobsInv, Task
  <2> QED
    BY <1>4, <1>5, <2>1, SameKeeps
<1>8. \A e \in Deliveries : JobsLast(e)
  BY <1>4, <1>5 DEF Same, JobsLast
<1>9. Heard'
  <2> SUFFICES ASSUME NEW w \in Workers, answer[w] \in {"COMPLETED", "FAILED"},
                      task[w].delivery \notin jobless'
               PROVE  jobs'[task[w].delivery][task[w].job] = answer[w]
    BY <1>2 DEF Heard
  <2> DEFINE t == task[w]
  <2>1. t # NoTask
    BY <1>1 DEF TypeOK
  <2>2. t \in Out /\ t \in Task
    BY <1>1, <2>1, OutIs, OutTasks DEF OutPlaces, IsOut
  <2>3. t.delivery \in Deliveries /\ t.delivery \notin jobless
    BY <1>4, <2>2 DEF Task
  <2>4. t.job \in DOMAIN jobs[t.delivery] /\ jobs[t.delivery][t.job] = answer[w]
    BY <2>2, <2>3 DEF JobsInv, Apt, Heard
  <2> QED
    BY <1>8, <2>3, <2>4 DEF JobsLast
<1> QED
  BY <1>1, <1>6, <1>7, <1>9 DEF JobsInv

\* The polls a claim may make.
Claimable == {t \in Task : /\ rows[t.delivery].status = "awaiting_async"
                           /\ rows[t.delivery].job = t.job}

\* A process makes polls only by claiming, and leaves the table alone.
LEMMA ProcessOut ==
  ASSUME TypeOK, NEW p \in Procs,
         Dispatcher(p) \/ Signal(p) \/ Crash(p) \/ Start(p)
  PROVE  Out' \subseteq Out \cup Claimable /\ UNCHANGED <<dbVars, remoteVars>>
<1> DEFINE S == Out \cup Claimable
<1>0. /\ batch \in [Procs -> SUBSET S] /\ pollCh \in [Procs -> Seq(S)]
      /\ task \in [Workers -> S \cup {NoTask}] /\ rows \in [Deliveries -> Row]
  <2>1. \A T : T \in Seq(Out) => T \in Seq(S)
    BY SeqDef
  <2> QED
    BY <2>1, OutParts DEF TypeOK
<1>1. /\ batch' \in [Procs -> SUBSET S] /\ pollCh' \in [Procs -> Seq(S)]
      /\ task' \in [Workers -> S \cup {NoTask}] /\ UNCHANGED <<dbVars, remoteVars>>
  <2> HIDE DEF S
  <2>1. CASE ClaimPolls(p)
    <3> PICK T \in SUBSET Pollable :
          batch' = [batch EXCEPT ![p] = {[delivery |-> d, job |-> rows[d].job] : d \in T}]
      BY <2>1 DEF ClaimPolls
    <3>1. {[delivery |-> d, job |-> rows[d].job] : d \in T} \subseteq Claimable
      BY <1>0 DEF Pollable, Claimable, Task, Row
    <3>2. Claimable \subseteq S
      BY DEF S
    <3>3. batch' \in [Procs -> SUBSET S]
      BY <1>0, <3>1, <3>2
    <3> QED
      BY <1>0, <2>1, <3>3 DEF ClaimPolls, workerVars
  <2>2. CASE \E t \in batch[p] : DispatchPoll(p, t)
    <3> PICK t \in batch[p] : DispatchPoll(p, t)
      BY <2>2
    <3>1. Append(pollCh[p], t) \in Seq(S) /\ batch[p] \ {t} \in SUBSET S
      BY <1>0
    <3> QED
      BY <1>0, <3>1 DEF DispatchPoll, workerVars
  <2>3. CASE AbandonPolls(p) \/ Exit(p) \/ Signal(p) \/ Start(p)
    <3>1. /\ batch' \in {batch, [batch EXCEPT ![p] = {}]}
          /\ pollCh' \in {pollCh, [pollCh EXCEPT ![p] = <<>>]}
          /\ task' = task /\ UNCHANGED <<dbVars, remoteVars>>
      BY <2>3 DEF AbandonPolls, Exit, Signal, Start, workerVars
    <3>2. <<>> \in Seq(S)
      BY EmptySeq
    <3> QED
      BY <1>0, <3>1, <3>2
  <2>4. CASE Crash(p)
    <3>1. /\ batch' = [batch EXCEPT ![p] = {}] /\ pollCh' = [pollCh EXCEPT ![p] = <<>>]
          /\ task' = [v \in Workers |-> IF Owner[v] = p THEN NoTask ELSE task[v]]
          /\ UNCHANGED <<dbVars, remoteVars>>
      BY <2>4 DEF Crash
    <3>2. <<>> \in Seq(S)
      BY EmptySeq
    <3>3. task' \in [Workers -> S \cup {NoTask}]
      BY <1>0, <3>1
    <3> QED
      BY <1>0, <3>1, <3>2, <3>3
  <2> QED
    BY <2>1, <2>2, <2>3, <2>4 DEF Dispatcher
<1> QED
  BY <1>1, OutWithin

LEMMA ProcessJobs ==
  ASSUME JobsInv, NEW p \in Procs,
         Dispatcher(p) \/ Signal(p) \/ Crash(p) \/ Start(p)
  PROVE  JobsInv'
<1>1. TypeOK /\ TypeOK'
  BY ProcessPolls DEF JobsInv
<1>2. Out' \subseteq Out \cup Claimable /\ UNCHANGED <<dbVars, remoteVars>>
  BY <1>1, ProcessOut
<1>3. \A d \in Deliveries : Same(d)
  BY <1>2 DEF Same, dbVars, remoteVars, operators
<1>4. \A d \in Deliveries : Settled(d)'
  BY <1>3, SameKeeps DEF JobsInv
<1>5. \A t \in Out' : Apt(t.delivery, t.job)'
  <2> SUFFICES ASSUME NEW t \in Out' PROVE Apt(t.delivery, t.job)'
    OBVIOUS
  <2>1. t \in Task
    BY <1>1, <1>2, OutTasks DEF Claimable
  <2> DEFINE d == t.delivery
  <2>2. d \in Deliveries /\ t.job \in Nat
    BY <2>1 DEF Task
  <2>3. Apt(d, t.job)
    <3>1. CASE t \in Claimable
      <4>1. rows[d].status = "awaiting_async" /\ rows[d].job = t.job
        BY <3>1 DEF Claimable
      <4>2. Settled(d) /\ jobs[d] \in Seq(JobStates)
        BY <2>2 DEF JobsInv, TypeOK
      <4>3. d \notin jobless => t.job \in DOMAIN jobs[d]
        BY <2>2, <4>1, <4>2, LenProperties DEF Settled
      <4>4. Sound(d) => sending[d] = 0
        BY <4>1, <4>2 DEF Settled
      <4> QED
        BY <4>1, <4>3, <4>4 DEF Apt, Fits
    <3> QED
      BY <1>2, <3>1 DEF JobsInv
  <2> QED
    BY <1>3, <2>2, <2>3, SameKeeps
<1>6. Heard'
  <2>1. \A w \in Workers : \/ UNCHANGED <<task[w], answer[w]>>
                           \/ answer'[w] = "none"
    BY <1>1 DEF Dispatcher, ClaimPolls, DispatchPoll, AbandonPolls, Exit, Signal, Crash,
                Start, workerVars, TypeOK
  <2> QED
    BY <1>2, <2>1 DEF Heard, JobsInv, dbVars, remoteVars, operators
<1> QED
  BY <1>1, <1>4, <1>5, <1>6 DEF JobsInv

\* A worker makes no polls.
LEMMA WorkerOut ==
  ASSUME TypeOK, NEW w \in Workers, Worker(w)
  PROVE  Out' \subseteq Out
<1>0. /\ batch \in [Procs -> SUBSET Out] /\ pollCh \in [Procs -> Seq(Out)]
      /\ task \in [Workers -> Out \cup {NoTask}] /\ Owner[w] \in Procs
  BY OutParts, PollAssumption
<1> DEFINE S == Out
<1> USE DEF procVars
<1>1. /\ batch' \in [Procs -> SUBSET S] /\ pollCh' \in [Procs -> Seq(S)]
      /\ task' \in [Workers -> S \cup {NoTask}]
  <2>1. CASE Receive(w)
    <3>1. Head(pollCh[Owner[w]]) \in S /\ Tail(pollCh[Owner[w]]) \in Seq(S)
      BY <1>0, <2>1, HeadTailProperties DEF Receive
    <3> HIDE DEF S
    <3>2. /\ batch \in [Procs -> SUBSET S] /\ pollCh \in [Procs -> Seq(S)]
          /\ task \in [Workers -> S \cup {NoTask}] /\ Owner[w] \in Procs
      BY <1>0 DEF S
    <3> QED
      BY <2>1, <3>1, <3>2 DEF Receive
  <2>2. CASE ~Receive(w)
    <3>1. /\ UNCHANGED <<batch, pollCh>>
          /\ task' = task \/ task' = [task EXCEPT ![w] = NoTask]
      BY <2>2 DEF Worker, WorkerExit, LimiterFails, SendPoll, PollCancelled, Answer,
         RecordPoll, RecordPollFails, Released
    <3> QED
      BY <1>0, <3>1
  <2> QED
    BY <2>1, <2>2
<1> HIDE DEF S
<1>2. Out' \subseteq S
  BY <1>1, OutWithin
<1> QED
  BY <1>2 DEF S

\* An answer a worker hears, or has heard, is what the job came to.
LEMMA WorkerHears ==
  ASSUME JobsInv, NEW w \in Workers, Worker(w)
  PROVE  Heard' /\ UNCHANGED <<patches, meddled, jobless, sending, plain, jobs>>
<1> USE DEF dbVars, remoteVars, procVars, operators
<1>0. UNCHANGED <<patches, meddled, jobless, sending, plain, jobs>>
  BY DEF Worker, Receive, WorkerExit, LimiterFails, SendPoll, PollCancelled, Answer,
         RecordPoll, RecordPollFails
<1>1. TypeOK /\ Heard
  BY DEF JobsInv
<1>2. CASE \E s \in JobStates : Answer(w, s)
  <2> PICK s \in JobStates : Answer(w, s)
    BY <1>2
  <2> DEFINE t == task[w]
  <2>1. /\ task' = task /\ answer' = [answer EXCEPT ![w] = s] /\ s \in Answers(t)
        /\ t # NoTask /\ answer \in [Workers -> JobStates \cup {"none"}]
    BY <1>1 DEF Answer, TypeOK
  <2>2. t \in Out
    BY <2>1, OutIs DEF OutPlaces, IsOut
  <2>3. t.delivery \notin jobless => t.job \in DOMAIN jobs[t.delivery]
    BY <2>2 DEF JobsInv, Apt
  <2>4. t.delivery \notin jobless => s \in {jobs[t.delivery][t.job], "RUNNING"}
    BY <2>1, <2>3 DEF Answers
  <2> HIDE DEF t
  <2>5. task[w] = t
    BY DEF t
  <2> QED
    BY <1>0, <1>1, <2>1, <2>4, <2>5 DEF Heard
<1>3. CASE ~(\E s \in JobStates : Answer(w, s))
  <2>1. \A v \in Workers : \/ UNCHANGED <<task[v], answer[v]>>
                           \/ answer'[v] \in {"none", "RUNNING"}
    BY <1>1, <1>3 DEF Worker, Receive, WorkerExit, LimiterFails, SendPoll, PollCancelled,
         RecordPoll, RecordPollFails, Released, TypeOK
  <2> QED
    BY <1>0, <1>1, <2>1 DEF Heard
<1> QED
  BY <1>0, <1>2, <1>3

\* What a poll writes: what the job came to, or nothing that matters here.
LEMMA RecordPollWrites ==
  ASSUME JobsInv, NEW w \in Workers, RecordPoll(w)
  PROVE  LET d == task[w].delivery
             j == task[w].job
             s == answer[w]
         IN
         /\ d \in Deliveries /\ Apt(d, j)
         /\ \A e \in Deliveries \ {d} : Same(e)
         /\ patches' = patches /\ rows'[d].job = rows[d].job
         /\ rows'[d].attempts = rows[d].attempts
         /\ \/ ~Exists(rows[d]) /\ rows'[d] = rows[d]
            \/ s = "RUNNING" /\ rows'[d].status = rows[d].status /\ byHand' = byHand
            \/ /\ Exists(rows[d])
               /\ s \in {"COMPLETED", "FAILED"}
               /\ rows'[d].status = IF s = "COMPLETED" THEN "done" ELSE "failed"
               /\ d \notin jobless => j \in DOMAIN jobs[d] /\ jobs[d][j] = s
<1> DEFINE t == task[w]
           d == task[w].delivery
           s == answer[w]
<1>1. /\ rows \in [Deliveries -> Row] /\ t \in Task /\ t # NoTask /\ s \in JobStates
      /\ byHand \subseteq Deliveries
  BY NoTaskIsNone DEF JobsInv, TypeOK, RecordPoll
<1>2. t \in Out
  BY <1>1, OutIs DEF OutPlaces, IsOut
<1>3. d \in Deliveries /\ Apt(d, t.job) /\ rows[d] \in Row
  BY <1>1, <1>2 DEF JobsInv, Task
<1>4. /\ rows' = [rows EXCEPT ![d] = UpdateAsyncRow(rows[d], s)]
      /\ byHand' = IF s = "RUNNING" THEN byHand ELSE byHand \ {d}
      /\ UNCHANGED <<patches, meddled, jobless, sending, plain, jobs>>
  BY DEF RecordPoll, operators, remoteVars
<1>5. rows'[d] = UpdateAsyncRow(rows[d], s)
  BY <1>1, <1>3, <1>4
<1>6. \A e \in Deliveries \ {d} : Same(e)
  BY <1>1, <1>4 DEF Same
<1>7. /\ rows'[d].job = rows[d].job /\ rows'[d].attempts = rows[d].attempts
      /\ \/ ~Exists(rows[d]) /\ rows'[d] = rows[d]
         \/ s = "RUNNING" /\ rows'[d].status = rows[d].status
         \/ /\ Exists(rows[d]) /\ s \in {"COMPLETED", "FAILED"}
            /\ rows'[d].status = IF s = "COMPLETED" THEN "done" ELSE "failed"
  <2> DEFINE r == rows[d]
             new == UpdateAsyncRow(r, s)
  <2>1. /\ s = "RUNNING" => new = Update(r, [r EXCEPT !.due = FALSE])
        /\ s = "COMPLETED" => new = Update(r, [r EXCEPT !.status = "done"])
        /\ s = "FAILED" => new = Update(r, [r EXCEPT !.status = "failed"])
    BY DEF UpdateAsyncRow, SuccessValues, FailValues
  <2>2. r \in Row /\ s \in {"RUNNING", "COMPLETED", "FAILED"} /\ rows'[d] = new
    BY <1>1, <1>3, <1>5 DEF JobStates
  <2> HIDE DEF new, s, d
  <2>3. /\ new.job = r.job /\ new.attempts = r.attempts
        /\ \/ ~Exists(r) /\ new = r
           \/ s = "RUNNING" /\ new.status = r.status
           \/ /\ Exists(r) /\ s \in {"COMPLETED", "FAILED"}
              /\ new.status = IF s = "COMPLETED" THEN "done" ELSE "failed"
    BY <2>1, <2>2 DEF Update, Row
  <2> QED
    BY <2>2, <2>3
<1>8. s \in {"COMPLETED", "FAILED"} /\ d \notin jobless
        => t.job \in DOMAIN jobs[d] /\ jobs[d][t.job] = s
  BY <1>3 DEF JobsInv, Heard, Apt
<1> QED
  BY <1>3, <1>4, <1>6, <1>7, <1>8

LEMMA RecordPollJobs ==
  ASSUME JobsInv, NEW w \in Workers, RecordPoll(w)
  PROVE  /\ \A e \in Deliveries : Settled(e)'
         /\ \A t \in Out : Apt(t.delivery, t.job)'
<1> PICK d \in Deliveries : d = task[w].delivery
  BY RecordPollWrites
<1> PICK k : k = task[w].job
  OBVIOUS
<1> PICK s : s = answer[w]
  OBVIOUS
<1> DEFINE done == IF s = "COMPLETED" THEN "done" ELSE "failed"
<1>1. /\ d \in Deliveries /\ Apt(d, k) /\ Settled(d)
      /\ \A e \in Deliveries \ {d} : Same(e)
      /\ UNCHANGED <<rows[d].job, rows[d].attempts>>
      /\ \A t \in Out : t.delivery \in Deliveries /\ Apt(t.delivery, t.job)
  BY RecordPollWrites, OutTasks DEF JobsInv, Task
<1>2. UNCHANGED <<meddled, jobless, sending, plain, jobs>>
  BY DEF RecordPoll, operators, remoteVars
<1>3. Settled(d)' /\ \A j : Apt(d, j) => Apt(d, j)'
  <2>1. CASE ~Exists(rows[d]) /\ rows'[d] = rows[d]
    <3>1. Judged(d)'
      BY <2>1 DEF Judged, Exists, Statuses
    <3> QED
      BY <1>1, <1>2, <2>1, <3>1 DEF Settled, Apt, Fits, Sound
  <2>2. CASE rows'[d].status = rows[d].status /\ byHand' = byHand
    BY <1>1, <1>2, <2>2 DEF Settled, Judged, CameTo, JobOf, Apt, Fits, Sound
  <2>3. ASSUME Exists(rows[d]), s \in {"COMPLETED", "FAILED"}, rows'[d].status = done,
               d \notin jobless => k \in DOMAIN jobs[d] /\ jobs[d][k] = s
        PROVE  Settled(d)' /\ \A j : Apt(d, j) => Apt(d, j)'
    <3>1. rows[d].status # "deleted"
      BY <2>3 DEF Exists, Statuses
    <3>2. Sound(d) => sending[d] = 0 /\ rows[d].job = k
      BY <1>1, <3>1 DEF Apt, Fits
    <3>3. d \notin jobless => CameTo(d, s)'
      BY <1>1, <1>2, <2>3, <3>2 DEF CameTo, JobOf, Sound
    <3>4. Judged(d)'
      BY <1>2, <2>3, <3>3 DEF Judged
    <3>5. Settled(d)'
      BY <1>1, <1>2, <2>3, <3>2, <3>4 DEF Settled, Sound
    <3>6. ASSUME NEW j, Apt(d, j) PROVE Apt(d, j)'
      <4>1. Sound(d) => sending[d] = 0 /\ j = k /\ jobs[d][k] = s
        BY <2>3, <3>1, <3>2, <3>6 DEF Apt, Fits, Sound
      <4> QED
        BY <1>1, <1>2, <2>3, <3>2, <3>6, <4>1 DEF Apt, Fits, Sound
    <3> QED
      BY <3>5, <3>6
  <2> QED
    BY <2>1, <2>2, <2>3, RecordPollWrites
<1> QED
  BY <1>1, <1>3, SameKeeps DEF JobsInv

LEMMA WorkerJobs ==
  ASSUME JobsInv, NEW w \in Workers, Worker(w)
  PROVE  JobsInv'
<1>1. TypeOK' /\ Out' \subseteq Out /\ Heard'
  BY WorkerPolls, WorkerOut, WorkerHears DEF JobsInv
<1>2. CASE RecordPoll(w)
  BY <1>1, <1>2, RecordPollJobs DEF JobsInv
<1>3. CASE UNCHANGED <<rows, byHand>>
  <2>1. \A d \in Deliveries : Same(d)
    BY <1>3, WorkerHears DEF Same
  <2>2. \A t \in Out : t.delivery \in Deliveries
    BY OutTasks DEF JobsInv, Task
  <2> QED
    BY <1>1, <2>1, <2>2, SameKeeps DEF JobsInv
<1>4. RecordPoll(w) \/ UNCHANGED <<rows, byHand>>
  BY DEF Worker, Receive, WorkerExit, LimiterFails, SendPoll, PollCancelled, Answer,
         RecordPollFails, dbVars
<1> QED
  BY <1>2, <1>3, <1>4

LEMMA NextJobs == JobsInv /\ [Next]_vars => JobsInv'
<1>1. JobsInv /\ UNCHANGED vars => JobsInv'
  <2> SUFFICES ASSUME JobsInv, UNCHANGED vars PROVE JobsInv'
    OBVIOUS
  <2> USE DEF vars, dbVars, operators, remoteVars, procVars, workerVars
  <2>1. \A d \in Deliveries : Same(d)
    BY DEF Same
  <2>2. Out' = Out
    BY DEF Out
  <2>3. \A t \in Out : t.delivery \in Deliveries
    BY OutTasks DEF JobsInv, Task
  <2>4. Heard'
    BY DEF JobsInv, Heard
  <2>5. TypeOK'
    BY NextPolls DEF JobsInv
  <2> QED
    BY <2>1, <2>2, <2>3, <2>4, <2>5, SameKeeps DEF JobsInv
<1> QED
  BY <1>1, EnvironmentJobs, ProcessJobs, WorkerJobs DEF Next

LEMMA JobsInvHolds == Spec => []JobsInv
BY InitJobs, NextJobs, PTL DEF Spec

\* However often a delivery is polled, by whichever processes, however late,
\* lost or cut short the polls are, and whatever operators patch meanwhile: a
\* row the program calls done was accepted outright or its job completed, and
\* one it calls failed has no attempt left or its job failed.
THEOREM VerdictsAreTrue == Spec => []TrueVerdict
<1>1. JobsInv => TrueVerdict
  BY DEF JobsInv, Settled, Judged, TrueVerdict
<1> QED
  BY JobsInvHolds, <1>1, PTL

\* No step but an operator's takes a delivery out of its final status, whoever
\* set it, unless an operator once changed its status while a send worker or a
\* poll was out for it: a poll that comes after the verdict, of the same or of
\* another process, can only repeat it.
THEOREM VerdictsStay == Spec => VerdictStable
<1> DEFINE Stays == \A d \in Deliveries :
              rows[d].status \in Terminal /\ Sound(d) /\ patches'[d] = patches[d]
                => rows'[d].status \in {rows[d].status, "deleted"}
<1>1. JobsInv /\ [Next]_vars => [Stays]_vars
  <2> SUFFICES ASSUME JobsInv, Next, NEW d \in Deliveries,
                      rows[d].status \in Terminal, Sound(d), patches'[d] = patches[d]
               PROVE  rows'[d].status \in {rows[d].status, "deleted"}
    OBVIOUS
  <2>1. /\ TypeOK /\ Settled(d) /\ rows[d] \in Row /\ patches[d] \in Nat
        /\ rows \in [Deliveries -> Row] /\ patches \in [Deliveries -> Nat]
    BY DEF JobsInv, TypeOK
  <2>2. sending[d] = 0
    BY <2>1 DEF Settled, Terminal
  <2>3. CASE Environment
    <3> PICK e \in Deliveries : EnvironmentAt(e)
      BY <2>3 DEF Environment, EnvironmentAt
    <3>1. CASE e # d
      BY <2>1, <3>1, EnvironmentSame DEF Same
    <3>2. CASE e = d
      <4>1. ~SendClaims(d) /\ ~ClaimUndone(d)
        BY DEF SendClaims, ClaimUndone, Ready, Terminal
      <4>2. ~SendStarts(d) /\ ~SendSucceeds(d) /\ ~SendFails(d)
        BY <2>2 DEF SendStarts, SendSucceeds, SendFails, SendEnds
      <4>3. \A s \in Statuses, due \in BOOLEAN : ~Patch(d, s, due)
        <5>1. patches[d] + 1 # patches[d]
          BY <2>1
        <5> QED
          BY <2>1, <5>1 DEF Patch
      <4>4. CASE Delete(d)
        BY <2>1, <4>4 DEF Delete, DeletedRow, Update, AbsentRow
      <4>5. CASE \/ BecomesDue(d) \/ ToggleSuspended(d)
                 \/ \E j \in DOMAIN jobs[d], s \in JobStates : JobEnds(d, j, s)
        <5>1. rows'[d] = rows[d] \/ rows'[d] = [rows[d] EXCEPT !.due = TRUE]
          BY <2>1, <4>5 DEF BecomesDue, ToggleSuspended, JobEnds, dbVars
        <5> QED
          BY <2>1, <5>1 DEF Row
      <4> QED
        BY <3>2, <4>1, <4>2, <4>3, <4>4, <4>5 DEF EnvironmentAt
    <3> QED
      BY <3>1, <3>2
  <2>4. CASE \E p \in Procs : Dispatcher(p) \/ Signal(p) \/ Crash(p) \/ Start(p)
    BY <2>1, <2>4, ProcessOut DEF dbVars
  <2>5. ASSUME NEW w \in Workers, Worker(w)
        PROVE  rows'[d].status \in {rows[d].status, "deleted"}
    <3>1. CASE RecordPoll(w)
      <4>1. CASE d # task[w].delivery
        BY <3>1, <4>1, RecordPollWrites DEF Same
      <4>2. CASE d = task[w].delivery
        <5>1. Fits(d, task[w].job)
          BY <3>1, <4>2, RecordPollWrites DEF Apt, Terminal
        <5>2. d \notin jobless
          BY DEF Sound
        <5> QED
          BY <3>1, <4>2, <5>1, <5>2, RecordPollWrites DEF Fits, Terminal
      <4> QED
        BY <4>1, <4>2
    <3>2. RecordPoll(w) \/ rows' = rows
      BY <2>5 DEF Worker, Receive, WorkerExit, LimiterFails, SendPoll,
         PollCancelled, Answer, RecordPollFails, dbVars
    <3> QED
      BY <3>1, <3>2
  <2> QED
    BY <2>3, <2>4, <2>5 DEF Next
<1> QED
  BY JobsInvHolds, <1>1, PTL DEF VerdictStable, Spec
=============================================================================
