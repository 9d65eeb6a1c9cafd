---------------------------- MODULE DeliveryRow ----------------------------
(***************************************************************************)
(* One row of the table deliveries and what each SQL statement of the      *)
(* system makes of it.  Every statement names its row by id and commits on *)
(* its own, so each is one function from the row before to the row after.  *)
(*                                                                         *)
(* next_run_at is kept as `due`: whether next_run_at <= now().  A          *)
(* statement that moves next_run_at to a later time clears it, and the     *)
(* passing of time sets it.  The columns that only record what happened    *)
(* (last_error, status_code, async_status, sent_at, ...) are left out.     *)
(***************************************************************************)
EXTENDS Naturals

CONSTANT MaxAttempts    \* COALESCE(max_attempts, p_default_max_attempts)

ASSUME MaxAttemptsAssumption == MaxAttempts \in Nat \ {0}

\* The CHECK constraint on deliveries.status.
Statuses == {"ready", "processing", "awaiting_async", "done", "failed"}

Terminal == {"done", "failed"}

\* p_terminal_success_values and p_terminal_fail_values, of which the workers
\* only ever send the first: mapDhis2Job folds SUCCESS and OK into COMPLETED
\* and ERROR into FAILED.
SuccessValues == {"COMPLETED"}
FailValues == {"FAILED"}

\* A row, or "absent" before its INSERT and "deleted" after its DELETE.
\* job identifies the downstream job of async_jobid and async_poll_url.
Row == [status : Statuses \cup {"absent", "deleted"}, attempts : Nat,
        due : BOOLEAN, job : Nat]

Exists(r) == r.status \in Statuses

AbsentRow == [status |-> "absent", attempts |-> 0, due |-> FALSE, job |-> 0]

\* The column defaults: ready, no attempts, next_run_at = now().
InsertedRow == [AbsentRow EXCEPT !.status = "ready", !.due = TRUE]

\* Every UPDATE ... WHERE id = p_delivery_id leaves a missing row missing.
Update(r, new) == IF Exists(r) THEN new ELSE r

Ready(r) == r.status = "ready" /\ r.due

ClaimedRow(r) == [r EXCEPT !.status = "processing"]

FinalizeOkRow(r) == Update(r, [r EXCEPT !.status = "done"])

\* Mutants: one attempt too many, one too few, status left alone.
FinalizeOneMore(r) ==
  LET last == r.attempts + 1 > MaxAttempts
  IN  Update(r, [r EXCEPT !.attempts = r.attempts + 1,
                          !.status = IF last THEN "failed" ELSE "ready",
                          !.due = last])
FinalizeOneLess(r) ==
  LET last == r.attempts + 2 >= MaxAttempts
  IN  Update(r, [r EXCEPT !.attempts = r.attempts + 1,
                          !.status = IF last THEN "failed" ELSE "ready",
                          !.due = last])
FinalizeNotReset(r) ==
  LET last == r.attempts + 1 >= MaxAttempts
  IN  Update(r, [r EXCEPT !.attempts = r.attempts + 1,
                          !.status = IF last THEN "failed" ELSE r.status,
                          !.due = last])

\* finalize_delivery with p_ok false, whatever the reason was: one more
\* attempt, then failed when they are used up, or ready again later.
FinalizeFailedRow(r) ==
  LET last == r.attempts + 1 >= MaxAttempts
  IN  Update(r, [r EXCEPT !.attempts = r.attempts + 1,
                          !.status = IF last THEN "failed" ELSE "ready",
                          !.due = last])

StartAsyncRow(r, j) ==
  Update(r, [r EXCEPT !.status = "awaiting_async", !.job = j, !.due = FALSE])

\* Mutant: an answer that is not terminal writes awaiting_async again.
UpdateAsyncReopens(r, s) ==
  Update(r, IF s \in SuccessValues THEN [r EXCEPT !.status = "done"]
            ELSE IF s \in FailValues THEN [r EXCEPT !.status = "failed"]
            ELSE [r EXCEPT !.status = "awaiting_async", !.due = FALSE])

\* update_async_status: a terminal answer settles the row, any other answer
\* puts the next poll off.  The row's current status is not looked at.
UpdateAsyncRow(r, s) ==
  Update(r, IF s \in SuccessValues THEN [r EXCEPT !.status = "done"]
            ELSE IF s \in FailValues THEN [r EXCEPT !.status = "failed"]
            ELSE [r EXCEPT !.due = FALSE])

\* The operator's PATCH of status and next_run_at.
PatchedRow(r, s, due) == Update(r, [r EXCEPT !.status = s, !.due = due])

DeletedRow(r) == Update(r, [AbsentRow EXCEPT !.status = "deleted"])
=============================================================================
