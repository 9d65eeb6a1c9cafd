---------------------------- MODULE PollPipeline ---------------------------
(***************************************************************************)
(* The polling half of the worker program (main.go): deliveries that a     *)
(* server accepted with a job id are in awaiting_async; each tick the      *)
(* dispatcher of each process claims those that are due with               *)
(* claim_async_polls, hands them through the buffered channel pollCh to    *)
(* that process's poll workers, which ask the server about the job and     *)
(* write its answer with update_async_status.  claim_async_polls changes   *)
(* nothing a later claim looks at, so a delivery is polled by as many      *)
(* workers as there are ticks before its first answer is written.          *)
(*                                                                         *)
(* The sending half is the environment here: see SendPipeline for it.  So  *)
(* are the operators, who may change the status of any row at any time.    *)
(***************************************************************************)
EXTENDS Naturals, Sequences, FiniteSets, DeliveryRow

CONSTANTS
  Deliveries,   \* ids of deliveries, all of servers with use_async
  Procs,        \* processes running the worker program
  Workers,      \* poll worker goroutines of all processes
  Owner,        \* the process of each of them
  Batch,        \* cfg.ClaimBatch
  Suspendable,  \* deliveries whose server may be suspended
  BadRate,      \* deliveries whose limiter may have burst 0 (a process keeps
                \* the limiter it made for the first row of the key)
  BadText,      \* deliveries whose server may answer what jsonb refuses: NUL
  PatchPairs,   \* the status changes an operator makes, <<from, to>>
  MaxPatches,   \* bound: PATCHes of one delivery
  MaxSending,   \* bound: send workers that have one delivery at a time
  MaxJobs,      \* bound: jobs the server starts for one delivery
  MaxCrashes,   \* bound: crashes of one process
  Faults        \* what goes wrong: some of "stop", "crash", "db"

ASSUME PollAssumption ==
  /\ Owner \in [Workers -> Procs]
  /\ Batch \in Nat \ {0}
  /\ PatchPairs \subseteq Statuses \X Statuses
  /\ MaxPatches \in Nat /\ MaxSending \in Nat
  /\ MaxJobs \in Nat /\ MaxCrashes \in Nat

VARIABLES
  rows,       \* the table
  suspended,  \* deliveries of a suspended server
  patches,    \* history: PATCHes of the delivery
  meddled,    \* history: deliveries patched while a send worker or a poll
              \* was out for them, or sent twice for a claim rolled back
  jobless,    \* history: those an operator set to awaiting_async with no job
  byHand,     \* history: those whose status an operator was the last to set
  sending,    \* how many send workers have the delivery in hand
  plain,      \* history: those whose last send was a success without job
  jobs,       \* the jobs the server started for each delivery, in order
  life,       \* "up", "stopping" (its context is cancelled) or "down"
  crashes,    \* history: crashes of the process
  batch,      \* polls of the dispatcher's open result set still to be read
  pollCh,     \* the buffered channel of each process
  pc,         \* where each poll worker is
  task,       \* the PollRow it works on
  answer      \* the status it learned

operators == <<patches, meddled, jobless>>
dbVars == <<rows, suspended, operators, byHand>>
remoteVars == <<sending, plain, jobs>>
procVars == <<life, crashes, batch, pollCh>>
workerVars == <<pc, task, answer>>
vars == <<dbVars, remoteVars, procVars, workerVars>>

\* A PollRow: the delivery and, in its poll_url, the job to ask about.
Task == [delivery : Deliveries, job : Nat]
NoTask == <<>>

JobStates == {"RUNNING", "COMPLETED", "FAILED"}

\* What mapDhis2Job makes of the answer to a poll, given the job it names as
\* it is now.  An error of any kind, and a body that is no JSON or has no
\* known status, counts as RUNNING; the HTTP status is not looked at.  A row
\* without a poll_url asks the server's own url, which may say anything.
Answers(t) == IF t.job \in DOMAIN jobs[t.delivery]
              THEN {jobs[t.delivery][t.job], "RUNNING"}
              ELSE JobStates

\* The polls that are out, wherever they wait.
Out == (UNION {batch[p] \cup {pollCh[p][i] : i \in DOMAIN pollCh[p]} :
                 p \in Procs})
         \cup ({task[w] : w \in Workers} \ {NoTask})

PollsOut(d) == \E t \in Out : t.delivery = d

\* Nobody interfered with what the program was doing with d.
Sound(d) == d \notin meddled \cup jobless

TeamOf(p) == {w \in Workers : Owner[w] = p}

Init ==
  /\ rows = [d \in Deliveries |-> InsertedRow]
  /\ suspended = {}
  /\ patches = [d \in Deliveries |-> 0]
  /\ meddled = {} /\ jobless = {} /\ byHand = {}
  /\ sending = [d \in Deliveries |-> 0]
  /\ plain = {}
  /\ jobs = [d \in Deliveries |-> <<>>]
  /\ life = [p \in Procs |-> "up"]
  /\ crashes = [p \in Procs |-> 0]
  /\ batch = [p \in Procs |-> {}]
  /\ pollCh = [p \in Procs |-> <<>>]
  /\ pc = [w \in Workers |-> "idle"]
  /\ task = [w \in Workers |-> NoTask]
  /\ answer = [w \in Workers |-> "none"]

-----------------------------------------------------------------------------
\* The environment: the sending half, the servers, the clock, operators.

SendClaims(d) ==
  /\ Ready(rows[d]) /\ d \notin suspended /\ sending[d] < MaxSending
  /\ rows' = [rows EXCEPT ![d] = ClaimedRow(rows[d])]
  /\ byHand' = byHand \ {d}
  /\ sending' = [sending EXCEPT ![d] = @ + 1]
  /\ UNCHANGED <<suspended, operators, plain, jobs, procVars, workerVars>>

\* The claim is rolled back when the row has been handed to a send worker.
ClaimUndone(d) ==
  /\ Faults # {}
  /\ rows[d].status = "processing" /\ sending[d] > 0
  /\ rows' = [rows EXCEPT ![d].status = "ready"]
  /\ meddled' = meddled \cup {d}
  /\ UNCHANGED <<suspended, patches, jobless, byHand, remoteVars, procVars,
                 workerVars>>

\* A send worker writes what its request came to.
SendEnds(d, row) ==
  /\ sending[d] > 0
  /\ rows' = [rows EXCEPT ![d] = row]
  /\ byHand' = byHand \ {d}
  /\ sending' = [sending EXCEPT ![d] = @ - 1]
  /\ UNCHANGED <<suspended, operators, procVars, workerVars>>

\* The server answers 202 with the id of a new job.
SendStarts(d) ==
  /\ Len(jobs[d]) < MaxJobs
  /\ jobs' = [jobs EXCEPT ![d] = Append(@, "RUNNING")]
  /\ plain' = plain \ {d}
  /\ SendEnds(d, StartAsyncRow(rows[d], Len(jobs'[d])))

\* Any other 2xx is a success, of a server with use_async too.
SendSucceeds(d) ==
  /\ plain' = plain \cup {d}
  /\ SendEnds(d, FinalizeOkRow(rows[d]))
  /\ UNCHANGED jobs

SendFails(d) ==
  /\ plain' = plain \ {d}
  /\ SendEnds(d, FinalizeFailedRow(rows[d]))
  /\ UNCHANGED jobs

\* A job ends once, well or badly.
JobEnds(d, j, s) ==
  /\ j \in DOMAIN jobs[d] /\ jobs[d][j] = "RUNNING" /\ s # "RUNNING"
  /\ jobs' = [jobs EXCEPT ![d][j] = s]
  /\ UNCHANGED <<dbVars, sending, plain, procVars, workerVars>>

BecomesDue(d) ==
  /\ Exists(rows[d]) /\ ~rows[d].due
  /\ rows' = [rows EXCEPT ![d].due = TRUE]
  /\ UNCHANGED <<suspended, operators, byHand, remoteVars, procVars, workerVars>>

\* Only the server's flag keeps polls back, not the request's.
ToggleSuspended(d) ==
  /\ d \in Suspendable
  /\ suspended' = IF d \in suspended THEN suspended \ {d}
                                     ELSE suspended \cup {d}
  /\ UNCHANGED <<rows, operators, byHand, remoteVars, procVars, workerVars>>

Meddles(d) == sending[d] > 0 \/ PollsOut(d)

\* PATCH /deliveries/:id, whatever goes on with the row.
Patch(d, s, due) ==
  /\ <<rows[d].status, s>> \in PatchPairs
  /\ patches[d] < MaxPatches
  /\ rows' = [rows EXCEPT ![d] = PatchedRow(rows[d], s, due)]
  /\ patches' = [patches EXCEPT ![d] = @ + 1]
  /\ meddled' = IF Meddles(d) THEN meddled \cup {d} ELSE meddled
  /\ jobless' = IF s = "awaiting_async" /\ rows[d].job = 0
                THEN jobless \cup {d} ELSE jobless
  /\ byHand' = byHand \cup {d}
  /\ UNCHANGED <<suspended, remoteVars, procVars, workerVars>>

Delete(d) ==
  /\ Exists(rows[d])
  /\ rows' = [rows EXCEPT ![d] = DeletedRow(rows[d])]
  /\ UNCHANGED <<suspended, operators, byHand, remoteVars, procVars, workerVars>>

-----------------------------------------------------------------------------
\* The dispatcher: the second half of claimAndDispatch, and main.

\* What claim_async_polls may pick.
Pollable == {d \in Deliveries : /\ rows[d].status = "awaiting_async"
                                /\ rows[d].due /\ d \notin suspended}

\* Mutant: a claimed poll is marked as claimed, like a claimed send.
ClaimPollsMarked(p) ==
  /\ life[p] = "up" /\ batch[p] = {}
  /\ \E S \in SUBSET Pollable :
       /\ S # {} /\ Cardinality(S) <= Batch
       /\ rows' = [d \in Deliveries |->
                      IF d \in S THEN ClaimedRow(rows[d]) ELSE rows[d]]
       /\ batch' = [batch EXCEPT
            ![p] = {[delivery |-> d, job |-> rows[d].job] : d \in S}]
  /\ UNCHANGED <<suspended, operators, byHand, remoteVars, life, crashes,
                 pollCh, workerVars>>

\* The rows are locked, read and left as they are but for updated_at.
ClaimPolls(p) ==
  /\ life[p] = "up" /\ batch[p] = {}
  /\ \E S \in SUBSET Pollable :
       /\ S # {} /\ Cardinality(S) <= Batch
       /\ batch' = [batch EXCEPT
            ![p] = {[delivery |-> d, job |-> rows[d].job] : d \in S}]
  /\ UNCHANGED <<dbVars, remoteVars, life, crashes, pollCh, workerVars>>

DispatchPoll(p, t) ==
  /\ life[p] # "down"
  /\ t \in batch[p] /\ Len(pollCh[p]) < 2 * Batch
  /\ batch' = [batch EXCEPT ![p] = @ \ {t}]
  /\ pollCh' = [pollCh EXCEPT ![p] = Append(@, t)]
  /\ UNCHANGED <<dbVars, remoteVars, life, crashes, workerVars>>

\* The context is done, or the connection broke.
AbandonPolls(p) ==
  /\ \/ life[p] = "stopping"
     \/ life[p] = "up" /\ "db" \in Faults
  /\ batch[p] # {}
  /\ batch' = [batch EXCEPT ![p] = {}]
  /\ UNCHANGED <<dbVars, remoteVars, life, crashes, pollCh, workerVars>>

Signal(p) ==
  /\ "stop" \in Faults
  /\ life[p] = "up"
  /\ life' = [life EXCEPT ![p] = "stopping"]
  /\ UNCHANGED <<dbVars, remoteVars, crashes, batch, pollCh, workerVars>>

\* Mutant: no wg.Wait.
ExitAtOnce(p) ==
  /\ life[p] = "stopping" /\ batch[p] = {}
  /\ life' = [life EXCEPT ![p] = "down"]
  /\ pollCh' = [pollCh EXCEPT ![p] = <<>>]
  /\ UNCHANGED <<dbVars, remoteVars, crashes, batch, workerVars>>

Exit(p) ==
  /\ life[p] = "stopping" /\ batch[p] = {}
  /\ \A w \in TeamOf(p) : pc[w] = "exit"
  /\ life' = [life EXCEPT ![p] = "down"]
  /\ pollCh' = [pollCh EXCEPT ![p] = <<>>]
  /\ UNCHANGED <<dbVars, remoteVars, crashes, batch, workerVars>>

Crash(p) ==
  /\ "crash" \in Faults
  /\ life[p] # "down" /\ crashes[p] < MaxCrashes
  /\ life' = [life EXCEPT ![p] = "down"]
  /\ crashes' = [crashes EXCEPT ![p] = @ + 1]
  /\ batch' = [batch EXCEPT ![p] = {}]
  /\ pollCh' = [pollCh EXCEPT ![p] = <<>>]
  /\ pc' = [w \in Workers |-> IF Owner[w] = p THEN "exit" ELSE pc[w]]
  /\ task' = [w \in Workers |-> IF Owner[w] = p THEN NoTask ELSE task[w]]
  /\ answer' = [w \in Workers |-> IF Owner[w] = p THEN "none" ELSE answer[w]]
  /\ UNCHANGED <<dbVars, remoteVars>>

Start(p) ==
  /\ life[p] = "down"
  /\ life' = [life EXCEPT ![p] = "up"]
  /\ pc' = [w \in Workers |-> IF Owner[w] = p THEN "idle" ELSE pc[w]]
  /\ UNCHANGED <<dbVars, remoteVars, crashes, batch, pollCh, task, answer>>

-----------------------------------------------------------------------------
\* A poll worker.

Released(w) ==
  /\ pc' = [pc EXCEPT ![w] = "idle"]
  /\ task' = [task EXCEPT ![w] = NoTask]
  /\ answer' = [answer EXCEPT ![w] = "none"]

Receive(w) ==
  LET p == Owner[w] IN
  /\ pc[w] = "idle" /\ pollCh[p] # <<>>
  /\ pc' = [pc EXCEPT ![w] = "limit"]
  /\ task' = [task EXCEPT ![w] = Head(pollCh[p])]
  /\ pollCh' = [pollCh EXCEPT ![p] = Tail(@)]
  /\ UNCHANGED <<dbVars, remoteVars, life, crashes, batch, answer>>

WorkerExit(w) ==
  /\ pc[w] = "idle" /\ life[Owner[w]] = "stopping"
  /\ pc' = [pc EXCEPT ![w] = "exit"]
  /\ UNCHANGED <<dbVars, remoteVars, procVars, task, answer>>

\* A poll the limiter does not let pass is forgotten; the row stays claimable.
LimiterFails(w) ==
  /\ pc[w] = "limit"
  /\ life[Owner[w]] = "stopping" \/ task[w].delivery \in BadRate
  /\ Released(w)
  /\ UNCHANGED <<dbVars, remoteVars, procVars>>

SendPoll(w) ==
  /\ pc[w] = "limit"
  /\ pc' = [pc EXCEPT ![w] = "http"]
  /\ UNCHANGED <<dbVars, remoteVars, procVars, task, answer>>

\* The cancelled request is an error, and an error is written as RUNNING.
PollCancelled(w) ==
  /\ pc[w] = "limit" /\ life[Owner[w]] = "stopping"
  /\ pc' = [pc EXCEPT ![w] = "db"]
  /\ answer' = [answer EXCEPT ![w] = "RUNNING"]
  /\ UNCHANGED <<dbVars, remoteVars, procVars, task>>

\* The server answers about the job as it is now.
Answer(w, s) ==
  /\ pc[w] = "http"
  /\ s \in Answers(task[w])
  /\ pc' = [pc EXCEPT ![w] = "db"]
  /\ answer' = [answer EXCEPT ![w] = s]
  /\ UNCHANGED <<dbVars, remoteVars, procVars, task>>

\* Mutant: a poll that could not be understood counts as a failed job.
RecordPollUnknownFails(w) ==
  LET d == task[w].delivery
      s == IF answer[w] = "RUNNING" THEN "FAILED" ELSE answer[w]
  IN
  /\ pc[w] = "db"
  /\ rows' = [rows EXCEPT ![d] = UpdateAsyncRow(rows[d], s)]
  /\ byHand' = byHand \ {d}
  /\ Released(w)
  /\ UNCHANGED <<suspended, operators, remoteVars, procVars>>

\* update_async_status, by the id of the delivery only.
RecordPoll(w) ==
  LET d == task[w].delivery IN
  /\ pc[w] = "db"
  /\ rows' = [rows EXCEPT ![d] = UpdateAsyncRow(rows[d], answer[w])]
  /\ byHand' = IF answer[w] = "RUNNING" THEN byHand ELSE byHand \ {d}
  /\ Released(w)
  /\ UNCHANGED <<suspended, operators, remoteVars, procVars>>

\* The database call fails, or jsonb refuses a string of the answer.
RecordPollFails(w) ==
  /\ pc[w] = "db"
  /\ "db" \in Faults \/ task[w].delivery \in BadText
  /\ Released(w)
  /\ UNCHANGED <<dbVars, remoteVars, procVars>>

-----------------------------------------------------------------------------
Environment ==
  \E d \in Deliveries :
    \/ SendClaims(d)
    \/ ClaimUndone(d)
    \/ SendStarts(d)
    \/ SendSucceeds(d)
    \/ SendFails(d)
    \/ \E j \in DOMAIN jobs[d], s \in JobStates : JobEnds(d, j, s)
    \/ BecomesDue(d)
    \/ ToggleSuspended(d)
    \/ \E s \in Statuses, due \in BOOLEAN : Patch(d, s, due)
    \/ Delete(d)

Dispatcher(p) ==
  \/ ClaimPolls(p)
  \/ \E t \in batch[p] : DispatchPoll(p, t)
  \/ AbandonPolls(p)
  \/ Exit(p)

Worker(w) ==
  \/ Receive(w)
  \/ WorkerExit(w)
  \/ LimiterFails(w)
  \/ SendPoll(w)
  \/ PollCancelled(w)
  \/ \E s \in JobStates : Answer(w, s)
  \/ RecordPoll(w)
  \/ RecordPollFails(w)

Next ==
  \/ Environment
  \/ \E p \in Procs : Dispatcher(p) \/ Signal(p) \/ Crash(p) \/ Start(p)
  \/ \E w \in Workers : Worker(w)

Spec == Init /\ [][Next]_vars

\* The clock, the ticker and the goroutines go on, a process that is down is
\* started again (docker restarts it, or an operator does), and jobs end.
\* Errors of the poll requests do not go on for ever.
Fairness ==
  /\ \A d \in Deliveries :
       /\ WF_vars(BecomesDue(d))
       /\ \A j \in 1 .. MaxJobs : WF_vars(\E s \in JobStates : JobEnds(d, j, s))
  /\ \A p \in Procs : WF_vars(Dispatcher(p)) /\ WF_vars(Start(p))
  /\ \A w \in Workers :
       /\ WF_vars(Worker(w))
       /\ SF_vars(\E s \in JobStates \ {"RUNNING"} : Answer(w, s))

FairSpec == Spec /\ Fairness

-----------------------------------------------------------------------------
(* Properties.                                                             *)

TypeOK ==
  /\ rows \in [Deliveries -> Row]
  /\ suspended \subseteq Deliveries
  /\ patches \in [Deliveries -> Nat]
  /\ meddled \subseteq Deliveries
  /\ jobless \subseteq Deliveries
  /\ byHand \subseteq Deliveries
  /\ sending \in [Deliveries -> Nat]
  /\ plain \subseteq Deliveries
  /\ jobs \in [Deliveries -> Seq(JobStates)]
  /\ life \in [Procs -> {"up", "stopping", "down"}]
  /\ crashes \in [Procs -> Nat]
  /\ batch \in [Procs -> SUBSET Task]
  /\ pollCh \in [Procs -> Seq(Task)]
  /\ pc \in [Workers -> {"idle", "limit", "http", "db", "exit"}]
  /\ task \in [Workers -> Task \cup {NoTask}]
  /\ \A w \in Workers : task[w] = NoTask <=> pc[w] \in {"idle", "exit"}
  /\ answer \in [Workers -> JobStates \cup {"none"}]
  /\ \A w \in Workers : answer[w] = "none" <=> pc[w] # "db"
  /\ \A w \in Workers : life[Owner[w]] = "down" => pc[w] = "exit"

\* The state of the job the row names; a row without job has none.
JobOf(d) == IF rows[d].job \in DOMAIN jobs[d]
            THEN jobs[d][rows[d].job] ELSE "none"

\* What the row's own job came to; once somebody interfered, any of its jobs,
\* for polls of an older one may then still be out.
CameTo(d, s) == IF Sound(d) THEN JobOf(d) = s
                ELSE \E j \in DOMAIN jobs[d] : jobs[d][j] = s

\* What the program makes of a delivery is so: it says done only if the
\* server answered the last send with a success or completed the job, and
\* failed only when the attempts are used up or the job failed.  Duplicate
\* and late polls, errors read as RUNNING, lost answers and restarts do not
\* make a poll settle a delivery against its job; not even under an operator
\* who patches it at the same time does it say what no job of it came to.
\* (A row an operator left to be polled without a job takes what the server's
\* own url answers.)
TrueVerdict ==
  \A d \in Deliveries \ (byHand \cup jobless) :
    /\ rows[d].status = "done" => d \in plain \/ CameTo(d, "COMPLETED")
    /\ rows[d].status = "failed"
         => rows[d].attempts >= MaxAttempts \/ CameTo(d, "FAILED")

\* A final status stays until the operator changes it or deletes the row, be
\* it a job's, the attempts' or what an operator gave up with no poll out:
\* the polls still under way when a row is settled can only say the same.
\* Given up while a poll of it is out (it is in meddled then), a delivery may
\* be overruled by the answer.
VerdictStable ==
  [][\A d \in Deliveries :
       rows[d].status \in Terminal /\ Sound(d) /\ patches'[d] = patches[d]
         => rows'[d].status \in {rows[d].status, "deleted"}]_vars

\* A delivery whose server accepted it is settled in the end, though its
\* process crashes with the poll in hand: polls, unlike sends, are claimed
\* again.  Of servers that are not suspended, that the limiter lets through
\* and whose answers jsonb takes, and of rows no operator moves.
EveryJobSettles ==
  \A d \in Deliveries \ (Suspendable \cup BadRate \cup BadText) :
    rows[d].status = "awaiting_async" /\ Sound(d)
      ~> rows[d].status \in Terminal \cup {"deleted"}
=============================================================================
