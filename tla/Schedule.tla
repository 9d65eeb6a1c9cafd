------------------------------ MODULE Schedule -----------------------------
(***************************************************************************)
(* When a delivery is sent: the order in which claim_deliveries takes the  *)
(* rows that are due, and the time that finalize_delivery puts the next    *)
(* attempt off.  Time is told from each row's own point of view, in        *)
(* seconds until its next_run_at or since.                                 *)
(***************************************************************************)
EXTENDS Integers, FiniteSets

CONSTANTS
  Jobs,             \* deliveries of different servers
  Copies,           \* those made for a cc server: priority 50, not 100
  Batch,            \* p_limit
  AttemptsLimit,    \* 8 unless the row says otherwise
  BackoffMin, BackoffMax,   \* 2 and 120
  Headers,          \* what Retry-After asks for, in seconds from now
  MaxLate           \* bound: beyond it, how late a row is makes no difference

ASSUME ScheduleAssumption ==
  /\ Jobs \subseteq Nat /\ Copies \subseteq Jobs
  /\ Batch \in Nat \ {0} /\ AttemptsLimit \in Nat \ {0}
  /\ BackoffMin \in Nat \ {0} /\ BackoffMax \in Nat /\ BackoffMin <= BackoffMax
  /\ Headers \subseteq Int /\ MaxLate \in Nat
  /\ BackoffMax + 1 + MaxLate \notin Headers

\* What parseRetryAfterStr makes of an answer: a time, past or to come, or none.
NoHeader == BackoffMax + 1 + MaxLate
RetryAfter == Headers \cup {NoHeader}

VARIABLES
  status, attempts,
  due       \* seconds until next_run_at

scheduleVars == <<status, attempts, due>>

ScheduleInit ==
  /\ status = [j \in Jobs |-> "none"]
  /\ attempts = [j \in Jobs |-> 0]
  /\ due = [j \in Jobs |-> 0]

\* expand_request_to_deliveries inserts a row that is due.
InsertRow(j) ==
  /\ status[j] = "none"
  /\ status' = [status EXCEPT ![j] = "ready"]
  /\ UNCHANGED <<attempts, due>>

Ready(j) == status[j] = "ready" /\ due[j] <= 0
Priority(j) == IF j \in Copies THEN 50 ELSE 100

\* ORDER BY priority DESC, next_run_at, id.
Precedes(i, j) ==
  \/ Priority(i) > Priority(j)
  \/ /\ Priority(i) = Priority(j)
     /\ due[i] < due[j] \/ (due[i] = due[j] /\ i < j)

Claim ==
  LET picked == {j \in Jobs : Ready(j)
                   /\ Cardinality({i \in Jobs : Ready(i) /\ Precedes(i, j)}) < Batch}
  IN
  /\ picked # {}
  /\ status' = [j \in Jobs |-> IF j \in picked THEN "processing" ELSE status[j]]
  /\ UNCHANGED <<attempts, due>>

\* n is the number of attempts before this one.
Backoff(n) ==
  LET doubled == BackoffMin * 2 ^ (IF n < 1 THEN 1 ELSE n)
  IN  IF doubled \in 0..BackoffMax THEN doubled ELSE BackoffMax

Ok(j) ==
  /\ status[j] = "processing"
  /\ status' = [status EXCEPT ![j] = "done"]
  /\ UNCHANGED <<attempts, due>>

FailedWith(j, header, last, counts) ==
  /\ status[j] = "processing"
  /\ status' = [status EXCEPT ![j] = IF last THEN "failed" ELSE "ready"]
  /\ attempts' = [attempts EXCEPT ![j] = IF counts THEN @ + 1 ELSE @]
  /\ due' = [due EXCEPT ![j] = IF last THEN 0 ELSE IF header = NoHeader
                               THEN Backoff(attempts[j]) ELSE header]

\* Mutant: an answer that says when to come back does not count as an attempt.
FailedUncounted(j, header) ==
  LET counts == header = NoHeader IN
  FailedWith(j, header, counts /\ attempts[j] + 1 >= AttemptsLimit, counts)

Failed(j, header) ==
  FailedWith(j, header, attempts[j] + 1 >= AttemptsLimit, TRUE)

Second ==
  /\ due' = [j \in Jobs |-> IF status[j] = "ready" /\ due[j] > -MaxLate
                            THEN due[j] - 1 ELSE due[j]]
  /\ UNCHANGED <<status, attempts>>

ScheduleNext ==
  \/ Claim \/ Second
  \/ \E j \in Jobs : InsertRow(j) \/ Ok(j) \/ \E h \in RetryAfter : Failed(j, h)

\* The dispatcher ticks, workers answer, time passes.
ScheduleFairness ==
  /\ WF_scheduleVars(Claim) /\ WF_scheduleVars(Second)
  /\ \A j \in Jobs :
       WF_scheduleVars(Ok(j) \/ \E h \in RetryAfter : Failed(j, h))

ScheduleSpec == ScheduleInit /\ [][ScheduleNext]_scheduleVars /\ ScheduleFairness
-----------------------------------------------------------------------------
(* Properties.                                                             *)

\* Types; whatever the attempt, a delivery is put off by the longest backoff at
\* most, or as far as a server asked for (finalize_delivery).
ScheduleTypeOK ==
  /\ status \in [Jobs -> {"none", "ready", "processing", "done", "failed"}]
  /\ attempts \in [Jobs -> 0..AttemptsLimit]
  /\ due \in [Jobs -> Int]
  /\ \A j \in Jobs : due[j] <= BackoffMax \/ \E h \in Headers : due[j] <= h

\* A copy waits for every destination that is due (ORDER BY priority DESC), and
\* a server may call its deliveries back at once or time and again; but as no
\* delivery is sent more often than its attempts allow, each gets its turn, and
\* is settled.  New destinations without end are another matter.
TurnComes ==
  \A j \in Jobs : status[j] = "ready" ~> status[j] \in {"done", "failed"}
=============================================================================
