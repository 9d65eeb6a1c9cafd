---------------------------- MODULE SendPipeline ---------------------------
(***************************************************************************)
(* The sending half of the worker program (main.go) over the table         *)
(* deliveries: rows are inserted by the API, claimed in batches by the     *)
(* dispatcher of each worker process, handed through the buffered channel  *)
(* sendCh to that process's send workers, sent over HTTP after the rate    *)
(* limiter let them pass, and recorded back with finalize_delivery or      *)
(* start_async_delivery.  Several processes share the table.  Operators    *)
(* suspend, patch and delete rows meanwhile, and polls of the polling half *)
(* answer; processes are signalled, crash and are started again; database  *)
(* calls fail.                                                             *)
(*                                                                         *)
(* A claim is one statement whose result is streamed: its rows reach the   *)
(* dispatcher while it may still be rolled back.  Until it commits others  *)
(* skip its rows or wait for their locks, so that `rows` can say           *)
(* "processing" of them from the start.                                    *)
(***************************************************************************)
EXTENDS Naturals, Sequences, FiniteSets, DeliveryRow

CONSTANTS
  Deliveries,   \* ids of deliveries
  NoDelivery,   \* what an idle send worker holds
  Procs,        \* processes running the worker program
  Workers,      \* send worker goroutines of all processes
  Owner,        \* the process of each of them
  Batch,        \* cfg.ClaimBatch
  Async,        \* deliveries of servers with use_async
  NullAsync,    \* deliveries of servers whose use_async is NULL
  BadRate,      \* deliveries whose rate limiter has burst 0
  BadText,      \* deliveries whose server may answer what PostgreSQL refuses:
                \* NUL, no UTF-8, or a character that truncate cuts in two
  Suspendable,  \* deliveries whose server or request may be suspended
  PatchPairs,   \* the status changes an operator makes, <<from, to>>
  MaxPatches,   \* bound: PATCHes of one delivery
  MaxUndone,    \* bound: claims of one delivery rolled back after Dispatch
  Faults        \* what goes wrong: some of "stop", "crash", "db"

ASSUME SendAssumption ==
  /\ NoDelivery \notin Deliveries
  /\ Owner \in [Workers -> Procs]
  /\ Batch \in Nat \ {0}
  /\ PatchPairs \subseteq Statuses \X Statuses
  /\ MaxPatches \in Nat /\ MaxUndone \in Nat
  /\ IsFiniteSet(Procs) /\ IsFiniteSet(Workers)

VARIABLES
  rows,       \* the table
  suspended,  \* deliveries of a suspended server or request
  polling,    \* deliveries of which polls are out, one or more
  life,       \* "up", "stopping" (its context is cancelled) or "down"
  open,       \* rows of the process's claim, while that has not committed
  batch,      \* rows of the dispatcher's result set still to be read
  sendCh,     \* the buffered channel of each process
  pc,         \* where each send worker is
  held,       \* the DeliveryRow it works on
  reply,      \* what the HTTP request gave it
  sends,      \* history: requests of the delivery that went out
  acked,      \* history: deliveries a worker saw accepted by the server
  patches,    \* history: PATCHes of the delivery
  meddled,    \* history: deliveries patched while somebody worked on them,
              \* or set to awaiting_async
  undone,     \* history: claims of it rolled back after Dispatch
  verdict     \* history: how polls said its last job came out, or "none"

operators == <<patches, meddled>>
asked == <<polling, verdict>>
dbVars == <<rows, suspended, asked, operators, undone>>
workerVars == <<pc, held, reply>>
procVars == <<life, open, batch, sendCh>>
history == <<sends, acked>>
vars == <<dbVars, procVars, workerVars, history>>

\* handleSendResty's outcomes: a 2xx, a 202 with a job id from a server that
\* works asynchronously, an error, 429, 5xx or 202 without job id, and any
\* other status.
Replies(d) == {"ok", "retryable", "terminal"}
                \cup (IF d \in Async THEN {"job"} ELSE {})
AllReplies == {"none", "ok", "job", "retryable", "terminal"}

TeamOf(p) == {w \in Workers : Owner[w] = p}

\* Nobody interfered with what the program was doing with d: no operator
\* changed its status under a worker or a poll, no claim of it that had been
\* handed on was rolled back.
Sound(d) == d \notin meddled /\ undone[d] = 0

\* Statements on a row of an open claim wait for its lock.
Locked(d) == \E p \in Procs : d \in open[p]

-----------------------------------------------------------------------------
\* The table and those who change it other than the send workers.

Init ==
  /\ rows = [d \in Deliveries |-> AbsentRow]
  /\ suspended = {}
  /\ polling = {} /\ verdict = [d \in Deliveries |-> "none"]
  /\ patches = [d \in Deliveries |-> 0] /\ meddled = {}
  /\ undone = [d \in Deliveries |-> 0]
  /\ life = [p \in Procs |-> "up"]
  /\ open = [p \in Procs |-> {}] /\ batch = [p \in Procs |-> {}]
  /\ sendCh = [p \in Procs |-> <<>>]
  /\ pc = [w \in Workers |-> "idle"]
  /\ held = [w \in Workers |-> NoDelivery]
  /\ reply = [w \in Workers |-> "none"]
  /\ sends = [d \in Deliveries |-> 0]
  /\ acked = {}

\* expand_request_to_deliveries inserts the row.
Insert(d) ==
  /\ rows[d].status = "absent"
  /\ rows' = [rows EXCEPT ![d] = InsertedRow]
  /\ UNCHANGED <<suspended, asked, operators, undone, procVars, workerVars,
                 history>>

\* Time passes next_run_at.
BecomesDue(d) ==
  /\ Exists(rows[d]) /\ ~rows[d].due
  /\ rows' = [rows EXCEPT ![d].due = TRUE]
  /\ UNCHANGED <<suspended, asked, operators, undone, procVars, workerVars,
                 history>>

\* An update of the server or the request sets or clears its suspended flag.
ToggleSuspended(d) ==
  /\ d \in Suspendable
  /\ suspended' = IF d \in suspended THEN suspended \ {d}
                                     ELSE suspended \cup {d}
  /\ UNCHANGED <<rows, asked, operators, undone, procVars, workerVars, history>>

\* PATCH /deliveries/:id: no look at what is going on with the row.
Meddles(d, s) ==
  rows[d].status = "processing" \/ d \in polling \/ s = "awaiting_async"

Patch(d, s, due) ==
  /\ <<rows[d].status, s>> \in PatchPairs
  /\ ~Locked(d) /\ patches[d] < MaxPatches
  /\ rows' = [rows EXCEPT ![d] = PatchedRow(rows[d], s, due)]
  /\ patches' = [patches EXCEPT ![d] = @ + 1]
  /\ meddled' = IF Meddles(d, s) THEN meddled \cup {d} ELSE meddled
  /\ UNCHANGED <<suspended, asked, undone, procVars, workerVars, history>>

\* DELETE /deliveries/:id, or of the request, which cascades.
Delete(d) ==
  /\ Exists(rows[d]) /\ ~Locked(d)
  /\ rows' = [rows EXCEPT ![d] = DeletedRow(rows[d])]
  /\ UNCHANGED <<suspended, asked, operators, undone, procVars, workerVars,
                 history>>

-----------------------------------------------------------------------------
\* The polling half, as far as it writes the table (see PollPipeline).

\* claim_async_polls leaves the row as it is; the server's flag, not the
\* request's, may keep it from being claimed.
PollClaimed(d) ==
  /\ rows[d].status = "awaiting_async" /\ rows[d].due /\ ~Locked(d)
  /\ d \notin polling
  /\ polling' = polling \cup {d}
  /\ UNCHANGED <<rows, suspended, verdict, operators, undone, procVars,
                 workerVars, history>>

\* What a poll may come back with.  Answers about one job agree once it has
\* ended, but for those that come late or fail, which read RUNNING.  Polls of
\* two jobs, or of none, are out only of deliveries that are not Sound.
Answers(d) ==
  IF Sound(d) /\ verdict[d] # "none" THEN {verdict[d], "RUNNING"}
                                     ELSE {"RUNNING", "COMPLETED", "FAILED"}

\* update_async_status by the id of the delivery, whatever its row says by
\* now.  Another poll of it may still be out.
Polled(d, s) ==
  /\ d \in polling /\ ~Locked(d)
  /\ s \in Answers(d)
  /\ rows' = [rows EXCEPT ![d] = UpdateAsyncRow(rows[d], s)]
  /\ verdict' = IF s = "RUNNING" THEN verdict ELSE [verdict EXCEPT ![d] = s]
  /\ UNCHANGED <<suspended, polling, operators, undone, procVars, workerVars,
                 history>>

\* The last of them is answered or dropped.
PollsEnd(d) ==
  /\ d \in polling
  /\ polling' = polling \ {d}
  /\ UNCHANGED <<rows, suspended, verdict, operators, undone, procVars,
                 workerVars, history>>

-----------------------------------------------------------------------------
\* The dispatcher: main's select loop and the first half of claimAndDispatch.

Claimable == {d \in Deliveries : Ready(rows[d]) /\ d \notin suspended}

\* The rows claim_deliveries may pick.  Any of the claimable rows may be
\* locked by another transaction and skipped, so any of them may be among
\* the first Batch of those left, and RETURNING gives them in any order.
Picks == {S \in SUBSET Claimable : S # {} /\ Cardinality(S) <= Batch}

\* Mutant: the rows are selected but not set to processing.
ClaimedUnmarked(S) == [d \in Deliveries |-> rows[d]]

Claimed(S) == [d \in Deliveries |->
                 IF d \in S THEN ClaimedRow(rows[d]) ELSE rows[d]]

ClaimDeliveries(p) ==
  /\ life[p] = "up" /\ batch[p] = {} /\ open[p] = {}
  /\ \E S \in Picks :
       /\ rows' = Claimed(S)
       /\ batch' = [batch EXCEPT ![p] = S]
       /\ open' = [open EXCEPT ![p] = S]
  /\ UNCHANGED <<suspended, asked, operators, undone, life, sendCh, workerVars,
                 history>>

\* The database ends the statement when the network has taken its result (see
\* Dispatcher for a result that is larger).
Commit(p) ==
  /\ open[p] # {}
  /\ open' = [open EXCEPT ![p] = {}]
  /\ UNCHANGED <<dbVars, life, batch, sendCh, workerVars, history>>

\* The claim commits but its answer does not arrive: pool.Query fails.
ClaimLost(p) ==
  /\ "db" \in Faults
  /\ life[p] = "up" /\ batch[p] = {} /\ open[p] = {}
  /\ \E S \in Picks : rows' = Claimed(S)
  /\ UNCHANGED <<suspended, asked, operators, undone, procVars, workerVars,
                 history>>

\* Scan of one row, and the send to the channel, which has room.
Dispatch(p, d) ==
  /\ life[p] # "down"
  /\ d \in batch[p] \ NullAsync
  /\ Len(sendCh[p]) < 2 * Batch
  /\ batch' = [batch EXCEPT ![p] = @ \ {d}]
  /\ sendCh' = [sendCh EXCEPT ![p] = Append(@, d)]
  /\ UNCHANGED <<dbVars, life, open, workerVars, history>>

\* Scan cannot put NULL into ServerUseAsync.  The loop goes on, but the
\* failed Scan has closed the rows, which takes the rest of the result.
ScanFails(p, d) ==
  /\ life[p] # "down"
  /\ d \in batch[p] \cap NullAsync
  /\ batch' = [batch EXCEPT ![p] = {}]
  /\ UNCHANGED <<dbVars, life, open, sendCh, workerVars, history>>

\* The connection of a claim that may not have committed is gone: it has, or
\* the database rolls it back, also under the rows that were handed on.
RolledBack(p) ==
  LET handedOn == open[p] \ batch[p] IN
  /\ open[p] # {} /\ \A d \in handedOn : undone[d] < MaxUndone
  /\ rows' = [d \in Deliveries |->
                IF d \in open[p] THEN [rows[d] EXCEPT !.status = "ready"]
                                 ELSE rows[d]]
  /\ undone' = [d \in Deliveries |->
                  IF d \in handedOn THEN undone[d] + 1 ELSE undone[d]]

ClaimEnds(p) ==
  /\ RolledBack(p) \/ UNCHANGED <<rows, undone>>
  /\ open' = [open EXCEPT ![p] = {}]
  /\ batch' = [batch EXCEPT ![p] = {}]

\* Mutant: no case <-ctx.Done() beside the send to the channel.
AbandonBatchNotOnDone(p) ==
  /\ life[p] = "up" /\ "db" \in Faults
  /\ batch[p] # {} \/ open[p] # {}
  /\ ClaimEnds(p)
  /\ UNCHANGED <<suspended, asked, operators, life, sendCh, workerVars, history>>

\* The rest of the result set is not read: the context is done, or the
\* connection broke, which rows.Next reports as the end and nobody asks why.
AbandonBatch(p) ==
  /\ \/ life[p] = "stopping"
     \/ life[p] = "up" /\ "db" \in Faults
  /\ batch[p] # {} \/ open[p] # {}
  /\ ClaimEnds(p)
  /\ UNCHANGED <<suspended, asked, operators, life, sendCh, workerVars, history>>

\* SIGINT or SIGTERM.  A claim_deliveries under way may still commit in the
\* server while its caller is told that the context was cancelled.
Signal(p) ==
  /\ "stop" \in Faults
  /\ life[p] = "up"
  /\ life' = [life EXCEPT ![p] = "stopping"]
  /\ \/ rows' = rows
     \/ /\ batch[p] = {} /\ open[p] = {}
        /\ \E S \in Picks : rows' = Claimed(S)
  /\ UNCHANGED <<suspended, asked, operators, undone, open, batch, sendCh,
                 workerVars, history>>

\* Mutant: no wg.Wait.
ExitAtOnce(p) ==
  /\ life[p] = "stopping" /\ batch[p] = {} /\ open[p] = {}
  /\ life' = [life EXCEPT ![p] = "down"]
  /\ sendCh' = [sendCh EXCEPT ![p] = <<>>]
  /\ UNCHANGED <<dbVars, open, batch, workerVars, history>>

\* main closes the channels, waits for its workers and returns.
Exit(p) ==
  /\ life[p] = "stopping" /\ batch[p] = {} /\ open[p] = {}
  /\ \A w \in TeamOf(p) : pc[w] = "exit"
  /\ life' = [life EXCEPT ![p] = "down"]
  /\ sendCh' = [sendCh EXCEPT ![p] = <<>>]
  /\ UNCHANGED <<dbVars, open, batch, workerVars, history>>

\* Everything the process had in memory is gone.
Crash(p) ==
  /\ "crash" \in Faults
  /\ life[p] # "down"
  /\ life' = [life EXCEPT ![p] = "down"]
  /\ ClaimEnds(p)
  /\ sendCh' = [sendCh EXCEPT ![p] = <<>>]
  /\ pc' = [w \in Workers |-> IF Owner[w] = p THEN "exit" ELSE pc[w]]
  /\ held' = [w \in Workers |-> IF Owner[w] = p THEN NoDelivery ELSE held[w]]
  /\ reply' = [w \in Workers |-> IF Owner[w] = p THEN "none" ELSE reply[w]]
  /\ UNCHANGED <<suspended, asked, operators, history>>

\* Mutant: a start gives every row left in processing back.
StartGivesBack(p) ==
  /\ life[p] = "down"
  /\ life' = [life EXCEPT ![p] = "up"]
  /\ pc' = [w \in Workers |-> IF Owner[w] = p THEN "idle" ELSE pc[w]]
  /\ rows' = [d \in Deliveries |->
                IF rows[d].status = "processing"
                THEN [rows[d] EXCEPT !.status = "ready"] ELSE rows[d]]
  /\ UNCHANGED <<suspended, asked, operators, undone, open, batch, sendCh, held,
                 reply, history>>

\* The program is started again: nothing looks for rows left in processing.
Start(p) ==
  /\ life[p] = "down"
  /\ life' = [life EXCEPT ![p] = "up"]
  /\ pc' = [w \in Workers |-> IF Owner[w] = p THEN "idle" ELSE pc[w]]
  /\ UNCHANGED <<dbVars, open, batch, sendCh, held, reply, history>>

-----------------------------------------------------------------------------
\* A send worker.

\* The worker is back at its select, with nothing in hand.
Released(w) ==
  /\ pc' = [pc EXCEPT ![w] = "idle"]
  /\ held' = [held EXCEPT ![w] = NoDelivery]
  /\ reply' = [reply EXCEPT ![w] = "none"]

\* The select may choose the channel even when the context is done.
Receive(w) ==
  LET p == Owner[w] IN
  /\ pc[w] = "idle" /\ sendCh[p] # <<>>
  /\ pc' = [pc EXCEPT ![w] = "limit"]
  /\ held' = [held EXCEPT ![w] = Head(sendCh[p])]
  /\ sendCh' = [sendCh EXCEPT ![p] = Tail(@)]
  /\ UNCHANGED <<dbVars, life, open, batch, reply, history>>

WorkerExit(w) ==
  /\ pc[w] = "idle" /\ life[Owner[w]] = "stopping"
  /\ pc' = [pc EXCEPT ![w] = "exit"]
  /\ UNCHANGED <<dbVars, procVars, held, reply, history>>

\* Mutant: the limiter refuses a row instead of letting it wait.
LimiterRefuses(w) ==
  /\ pc[w] = "limit"
  /\ Released(w)
  /\ UNCHANGED <<dbVars, procVars, history>>

\* ls.wait fails and the loop goes on to the next row.
LimiterFails(w) ==
  /\ pc[w] = "limit"
  /\ life[Owner[w]] = "stopping" \/ held[w] \in BadRate
  /\ Released(w)
  /\ UNCHANGED <<dbVars, procVars, history>>

\* The limiter lets the row pass and the request goes out.
SendRequest(w) ==
  /\ pc[w] = "limit" /\ held[w] \notin BadRate
  /\ pc' = [pc EXCEPT ![w] = "http"]
  /\ sends' = [sends EXCEPT ![held[w]] = @ + 1]
  /\ UNCHANGED <<dbVars, procVars, held, reply, acked>>

\* Mutant: a request that never went out is recorded as one that failed.
SendSkipped(w) ==
  /\ pc[w] = "limit" /\ held[w] \notin BadRate
  /\ pc' = [pc EXCEPT ![w] = "db"]
  /\ reply' = [reply EXCEPT ![w] = "retryable"]
  /\ UNCHANGED <<dbVars, procVars, held, history>>

\* The context is done between limiter and request: Execute fails at once.
SendCancelled(w) ==
  /\ pc[w] = "limit" /\ held[w] \notin BadRate
  /\ life[Owner[w]] = "stopping"
  /\ pc' = [pc EXCEPT ![w] = "db"]
  /\ reply' = [reply EXCEPT ![w] = "retryable"]
  /\ UNCHANGED <<dbVars, procVars, held, history>>

\* The response, or the client's timeout, which is an error like any other.
Reply(w, k) ==
  /\ pc[w] = "http"
  /\ k \in Replies(held[w])
  /\ pc' = [pc EXCEPT ![w] = "db"]
  /\ reply' = [reply EXCEPT ![w] = k]
  /\ acked' = IF k \in {"ok", "job"} THEN acked \cup {held[w]} ELSE acked
  /\ UNCHANGED <<dbVars, procVars, held, sends>>

\* Mutant: a 202 with a job id is written as a failure.
OutcomeJobFailed(w) ==
  LET r == rows[held[w]] IN
  IF reply[w] = "ok" THEN FinalizeOkRow(r) ELSE FinalizeFailedRow(r)

\* What the worker writes for its reply.  A terminal failure is written
\* exactly like a retryable one; which job it is makes no difference here.
Outcome(w) ==
  LET r == rows[held[w]] IN
  CASE reply[w] = "ok"  -> FinalizeOkRow(r)
    [] reply[w] = "job" -> StartAsyncRow(r, 1)
    [] OTHER            -> FinalizeFailedRow(r)

\* finalize or startAsync; a new job is not settled yet.
Record(w) ==
  LET d == held[w] IN
  /\ pc[w] = "db" /\ ~Locked(d)
  /\ rows' = [rows EXCEPT ![d] = Outcome(w)]
  /\ verdict' = IF reply[w] = "job" THEN [verdict EXCEPT ![d] = "none"]
                                    ELSE verdict
  /\ Released(w)
  /\ UNCHANGED <<suspended, polling, operators, undone, procVars, history>>

\* The database call fails, or the database refuses the text of the answer;
\* sendWorker logs it and takes the next row.
RecordFails(w) ==
  /\ pc[w] = "db"
  /\ "db" \in Faults \/ held[w] \in BadText
  /\ Released(w)
  /\ UNCHANGED <<dbVars, procVars, history>>

-----------------------------------------------------------------------------
Table ==
  \E d \in Deliveries :
    \/ Insert(d)
    \/ BecomesDue(d)
    \/ ToggleSuspended(d)
    \/ \E s \in Statuses, due \in BOOLEAN : Patch(d, s, due)
    \/ Delete(d)
    \/ PollClaimed(d)
    \/ \E s \in Answers(d) : Polled(d, s)
    \/ PollsEnd(d)

Dispatcher(p) ==
  \/ ClaimDeliveries(p)
  \/ Commit(p)
  \/ ClaimLost(p)
  \/ \E d \in Deliveries : Dispatch(p, d)
  \/ \E d \in Deliveries : ScanFails(p, d)
  \/ AbandonBatch(p)
  \/ Exit(p)

Operation(p) == Signal(p) \/ Crash(p) \/ Start(p)

Worker(w) ==
  \/ Receive(w)
  \/ WorkerExit(w)
  \/ LimiterFails(w)
  \/ SendRequest(w)
  \/ SendCancelled(w)
  \/ \E k \in AllReplies : Reply(w, k)
  \/ Record(w)
  \/ RecordFails(w)

Next ==
  \/ Table
  \/ \E p \in Procs : Dispatcher(p) \/ Operation(p)
  \/ \E w \in Workers : Worker(w)

Spec == Init /\ [][Next]_vars

\* The clock moves, the dispatcher's ticker fires and its loop runs, and a
\* goroutine that can go on does: every HTTP request has a timeout.  A job
\* that is polled again and again is seen to have ended (PollPipeline derives
\* that from less).  Nothing makes an operator act.
Fairness ==
  /\ \A d \in Deliveries :
       /\ WF_vars(BecomesDue(d))
       /\ WF_vars(PollClaimed(d))
       /\ SF_vars(Polled(d, "COMPLETED") \/ Polled(d, "FAILED"))
  /\ \A p \in Procs : WF_vars(Dispatcher(p))
  /\ \A w \in Workers : WF_vars(Worker(w))

FairSpec == Spec /\ Fairness

-----------------------------------------------------------------------------
(* Properties.                                                             *)

TypeOK ==
  /\ rows \in [Deliveries -> Row]
  /\ suspended \subseteq Deliveries
  /\ polling \subseteq Deliveries
  /\ verdict \in [Deliveries -> {"none", "COMPLETED", "FAILED"}]
  /\ patches \in [Deliveries -> Nat]
  /\ meddled \subseteq Deliveries
  /\ undone \in [Deliveries -> Nat]
  /\ life \in [Procs -> {"up", "stopping", "down"}]
  /\ open \in [Procs -> SUBSET Deliveries]
  /\ batch \in [Procs -> SUBSET Deliveries]
  /\ sendCh \in [Procs -> Seq(Deliveries)]
  /\ pc \in [Workers -> {"idle", "limit", "http", "db", "exit"}]
  /\ held \in [Workers -> Deliveries \cup {NoDelivery}]
  /\ \A w \in Workers : held[w] = NoDelivery <=> pc[w] \in {"idle", "exit"}
  /\ reply \in [Workers -> AllReplies]
  /\ \A w \in Workers : reply[w] = "none" <=> pc[w] # "db"
  /\ \A w \in Workers : life[Owner[w]] = "down" => pc[w] = "exit"
  /\ sends \in [Deliveries -> Nat]
  /\ acked \subseteq Deliveries

\* Where a claimed delivery can be in the memory of the processes: in a result
\* set, at a place of a channel, or with a send worker.
Fetchers(d) == {p \in Procs : d \in batch[p]}
Places(d) == UNION {{<<p, i>> : i \in {j \in DOMAIN sendCh[p] : sendCh[p][j] = d}}
                      : p \in Procs}
Holders(d) == {w \in Workers : held[w] = d}

Hands(d) == Cardinality(Fetchers(d)) + Cardinality(Places(d))
              + Cardinality(Holders(d))

InHand(d) == Fetchers(d) # {} \/ Places(d) # {} \/ Holders(d) # {}

\* A delivery is in the hands of one goroutine of one process at most: in one
\* open result set, at one place of one channel, or with one send worker.
\* It is what claiming with FOR UPDATE SKIP LOCKED is for, and has to survive
\* crashes, restarts, retries, deletions and late polls.  An operator who
\* patches a row under a worker or a poll breaks it, and so does a stop that
\* rolls a claim back under rows it has dispatched (claimAndDispatch sends to
\* the channel before the claim has committed).
HeldOnce == \A d \in Deliveries : Sound(d) => Hands(d) <= 1

\* What a process has in hand is, in the table, claimed (or deleted since):
\* nothing makes the row claimable while somebody still works on it.
HeldIsProcessing ==
  \A d \in Deliveries :
    Sound(d) /\ InHand(d) => rows[d].status \in {"processing", "deleted"}

\* A delivery goes out at most max_attempts times, and once more for every
\* time an operator patched it, in whatever state it was then, and for every
\* claim rolled back after it was handed on; whatever crashed or was restarted
\* meanwhile: the attempts are counted in the table only after the request was
\* sent, by every hand that has the delivery.
SendsBounded ==
  \A d \in Deliveries : sends[d] <= MaxAttempts + patches[d] + undone[d]

\* Once a worker saw the server accept a delivery (2xx, or 202 with a job
\* id), it does not go out again unless an operator asks for it or its claim
\* was rolled back, not even when recording the success fails.
AckedNotResent ==
  [][\A d \in Deliveries :
       d \in acked /\ patches[d] = 0 /\ undone[d] = 0 => sends'[d] = sends[d]]_vars

\* A row that no operator patched says done only if a worker saw the server
\* accept the delivery, also when its claim was rolled back under it: late
\* polls write by id alone (update_async_status), but polls are out only of
\* what was accepted.
DoneWasAcked ==
  \A d \in Deliveries :
    rows[d].status = "done" /\ patches[d] = 0 => d \in acked

\* It says failed only when its attempts are used up or its job failed.
FailedIsExhausted ==
  \A d \in Deliveries :
    rows[d].status = "failed" /\ patches[d] = 0 /\ undone[d] = 0
      => rows[d].attempts = MaxAttempts \/ verdict[d] = "FAILED"

FinalIsEarned == DoneWasAcked /\ FailedIsExhausted

\* Every row in processing is in somebody's hands, so that somebody will
\* record its outcome.  It holds while no process stops, crashes or loses a
\* database call, no server has a NULL use_async, no limiter burst 0, and of
\* the deliveries whose servers answer what PostgreSQL takes.
NothingStranded ==
  \A d \in Deliveries \ BadText : rows[d].status = "processing" => InHand(d)

\* An attempt that is counted was a request that went out, of its own: those
\* whose outcome is still to be recorded are not counted yet.  It holds until
\* a process is told to stop, whatever operators patch.
AttemptsWereSent ==
  \A d \in Deliveries :
    rows[d].attempts
      + Cardinality({w \in Holders(d) : pc[w] \in {"http", "db"}}) <= sends[d]

Settled(d) == rows[d].status \in Terminal \cup {"deleted"}

\* When nothing goes wrong, every delivery is settled in the end, though its
\* server refuses it, or its job fails: of servers and requests that are not
\* suspended, and of servers whose answers PostgreSQL takes as text.
EverySettles ==
  \A d \in Deliveries \ (Suspendable \cup BadText) :
    rows[d].status = "ready" ~> Settled(d)

\* A process told to stop does stop: no worker, channel or result set keeps
\* main from getting through wg.Wait.
ShutdownCompletes ==
  \A p \in Procs : life[p] = "stopping" ~> life[p] = "down"

\* main logs "graceful shutdown complete" (main.go:251) when the workers are
\* gone: a process that has stopped, and was not killed, leaves no delivery
\* half done.
GracefulStop ==
  (\A p \in Procs : life[p] = "down")
    => \A d \in Deliveries : rows[d].status # "processing"
=============================================================================
