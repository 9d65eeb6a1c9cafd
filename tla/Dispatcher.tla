----------------------------- MODULE Dispatcher ----------------------------
(***************************************************************************)
(* The one goroutine of a worker process that claims for both pipelines    *)
(* (main, claimAndDispatch), its two channels and its workers.             *)
(*                                                                         *)
(* A claim is one statement: the database locks the rows it picks, of      *)
(* deliveries and of their servers and requests, and commits only when it  *)
(* has passed the result on.  What the network does not take waits for the *)
(* dispatcher, which waits for room in the channel, which waits for the    *)
(* workers, whose own statements wait for the locks.  Others see the rows  *)
(* as they were until the claim commits, and skip them while it is open.   *)
(* A stop closes the result set; a claim that is still open then commits   *)
(* or is rolled back.                                                      *)
(*                                                                         *)
(* The deliveries are of one server.  Outcomes, attempts and answers of    *)
(* jobs are in SendPipeline and PollPipeline.                              *)
(***************************************************************************)
EXTENDS Naturals, Sequences, SequencesExt, FiniteSetsExt

CONSTANTS
  Sends,        \* deliveries to a synchronous server
  Polls,        \* deliveries that wait for a job
  Refused,      \* those of them whose requests may fail (a bound)
  SendWorkers, PollWorkers,
  Nobody,
  Batch,        \* CLAIM_BATCH
  SendBuffer,   \* rows of a result that the network takes off the database
  PollBuffer

Kinds == {"send", "poll"}
Deliveries == Sends \cup Polls
Workers == SendWorkers \cup PollWorkers

ASSUME DispatcherAssumption ==
  /\ Sends \cap Polls = {} /\ Refused \subseteq Sends /\ Nobody \notin Deliveries
  /\ SendWorkers \cap PollWorkers = {}
  /\ IsFiniteSet(Deliveries)
  /\ Batch \in Nat \ {0} /\ SendBuffer \in Nat /\ PollBuffer \in Nat

VARIABLES
  row,      \* status of each delivery, as committed
  due,      \* polls whose next_run_at has come
  locked,   \* the rows of the claim that is open
  unread,   \* rows of its result that the dispatcher has not read
  turn,     \* what the dispatcher does: "idle", "send", "poll", "left"
  ch,       \* sendCh and pollCh
  hand,     \* the row each worker has
  at,       \* where it is
  life,     \* of the process: "up", "stopping", "gone"
  other,    \* the delivery that another process has in its hands
  lost      \* history: rows dispatched from a claim that was rolled back

table == <<row, due, other>>
claim == <<locked, unread, turn>>
workers == <<hand, at>>
vars == <<table, claim, ch, workers, life, lost>>

KindOf(w) == IF w \in SendWorkers THEN "send" ELSE "poll"

\* Mutant: channels for one row.
CapacityOne == 1

Capacity == 2 * Batch

Buffer(k) == IF k = "send" THEN SendBuffer ELSE PollBuffer

\* A retry is due at once here; the delays are in SendPipeline.
Claimable(k) == IF k = "send" THEN {d \in Sends : row[d] = "ready"}
                ELSE {d \in due : row[d] = "awaiting"}

Init ==
  /\ row = [d \in Deliveries |-> IF d \in Sends THEN "ready" ELSE "awaiting"]
  /\ due = {}
  /\ locked = {} /\ unread = <<>> /\ turn = "idle"
  /\ ch = [k \in Kinds |-> <<>>]
  /\ hand = [w \in Workers |-> Nobody] /\ at = [w \in Workers |-> "idle"]
  /\ life = "up" /\ other = Nobody /\ lost = {}
-----------------------------------------------------------------------------
(* The dispatcher.                                                         *)

\* The statement locks and returns rows that are due, up to the limit.
Picks(k) ==
  /\ \E S \in SUBSET Claimable(k) :
       /\ S = Claimable(k) \/ Cardinality(S) = Batch
       /\ Cardinality(S) <= Batch
       /\ locked' = S
       /\ unread' = SetToSeq(S)
  /\ turn' = k
  /\ UNCHANGED <<table, ch, workers, life, lost>>

\* rows.Next says that the result is at its end only when the statement is.
AtEnd == unread = <<>> /\ locked = {}

ClaimSends == life = "up" /\ turn = "idle" /\ Picks("send")
ClaimPolls == life = "up" /\ turn = "send" /\ AtEnd /\ Picks("poll")

EndTick ==
  /\ turn = "poll" /\ AtEnd
  /\ turn' = "idle"
  /\ UNCHANGED <<table, locked, unread, ch, workers, life, lost>>

Dispatch ==
  /\ unread # <<>> /\ Len(ch[turn]) < Capacity
  /\ ch' = [ch EXCEPT ![turn] = Append(@, Head(unread))]
  /\ unread' = Tail(unread)
  /\ UNCHANGED <<table, locked, turn, workers, life, lost>>

\* The effect of a claim that commits: polls stay as they are.
Committed ==
  /\ row' = [d \in Deliveries |-> IF d \in locked \cap Sends THEN "processing"
                                  ELSE row[d]]
  /\ locked' = {}

Commit ==
  /\ locked # {} /\ Len(unread) <= Buffer(turn)
  /\ Committed
  /\ UNCHANGED <<due, other, unread, turn, ch, workers, life, lost>>

RolledBack ==
  /\ locked' = {}
  /\ lost' = lost \cup ((locked \cap Sends) \ ToSet(unread))
  /\ UNCHANGED <<row, due>>

\* Mutants: the result set stays open; the dispatcher hears of the stop only
\* while the channel has room.
AbandonUnclosed ==
  /\ life = "stopping" /\ turn \in Kinds
  /\ turn' = "left"
  /\ UNCHANGED <<table, locked, unread, ch, workers, life, lost>>

AbandonWithRoom ==
  /\ life = "stopping" /\ turn \in Kinds /\ Len(ch[turn]) < Capacity
  /\ Committed /\ unread' = <<>> /\ turn' = "left"
  /\ UNCHANGED <<due, other, ch, workers, life, lost>>

\* ctx.Done while the dispatcher reads or waits for room: rows.Close.
Abandon ==
  /\ life = "stopping" /\ turn \in Kinds
  /\ \/ Committed /\ UNCHANGED lost
     \/ locked # {} /\ RolledBack
  /\ unread' = <<>> /\ turn' = "left"
  /\ UNCHANGED <<due, other, ch, workers, life>>

\* main closes the channels,
Leave ==
  /\ life = "stopping" /\ turn = "idle"
  /\ turn' = "left"
  /\ UNCHANGED <<table, locked, unread, ch, workers, life, lost>>

\* and returns when every worker has.
Gone ==
  /\ life = "stopping" /\ turn = "left" /\ \A w \in Workers : at[w] = "exit"
  /\ life' = "gone"
  /\ UNCHANGED <<table, claim, ch, workers, lost>>

Signal ==
  /\ life = "up"
  /\ life' = "stopping"
  /\ UNCHANGED <<table, claim, ch, workers, lost>>
-----------------------------------------------------------------------------
(* The workers.                                                            *)

Goes(w, from, to) ==
  /\ at[w] = from
  /\ at' = [at EXCEPT ![w] = to]

Receive(w) ==
  /\ ch[KindOf(w)] # <<>>
  /\ Goes(w, "idle", "busy")
  /\ hand' = [hand EXCEPT ![w] = Head(ch[KindOf(w)])]
  /\ ch' = [ch EXCEPT ![KindOf(w)] = Tail(@)]
  /\ UNCHANGED <<table, claim, life, lost>>

\* The limiter lets the row pass, the request goes out, and there is an
\* answer, a timeout or a cancelled request to be recorded.
Answer(w) ==
  /\ Goes(w, "busy", "db")
  /\ UNCHANGED <<table, claim, ch, hand, life, lost>>

\* After a stop the limiter's wait fails and the row is dropped.
Drop(w) ==
  /\ life = "stopping" /\ Goes(w, "busy", "idle")
  /\ hand' = [hand EXCEPT ![w] = Nobody]
  /\ UNCHANGED <<table, claim, ch, life, lost>>

\* A delivery is settled, or ready again, or its next poll is put off.
Writes(d) ==
  /\ \/ row' = [row EXCEPT ![d] = "done"]
     \/ d \in Refused /\ row' = [row EXCEPT ![d] = "ready"]
     \/ d \in Polls /\ UNCHANGED row
  /\ due' = due \ {d}

\* finalize_delivery and update_async_status wait for the lock of the row.
Record(w) ==
  /\ Goes(w, "db", "idle") /\ hand[w] \notin locked
  /\ Writes(hand[w])
  /\ hand' = [hand EXCEPT ![w] = Nobody]
  /\ UNCHANGED <<other, claim, ch, life, lost>>

Exit(w) ==
  /\ life = "stopping" /\ Goes(w, "idle", "exit")
  /\ UNCHANGED <<table, claim, ch, hand, life, lost>>
-----------------------------------------------------------------------------
(* The clock and another process.                                          *)

BecomesDue(d) ==
  /\ row[d] = "awaiting" /\ d \notin due
  /\ due' = due \cup {d}
  /\ UNCHANGED <<row, other, claim, ch, workers, life, lost>>

\* Alone, the mutant of OtherClaims: no regard for locks.
OtherTakes(d) ==
  /\ other = Nobody /\ d \in Claimable("send")
  /\ row' = [row EXCEPT ![d] = "processing"]
  /\ other' = d
  /\ UNCHANGED <<due, claim, ch, workers, life, lost>>

\* FOR UPDATE SKIP LOCKED: while a claim is open the server's row is locked,
\* and every delivery to it is passed over.
OtherClaims(d) == locked = {} /\ OtherTakes(d)

OtherRecords(d) ==
  /\ other = d /\ d \notin locked
  /\ Writes(d)
  /\ other' = Nobody
  /\ UNCHANGED <<claim, ch, workers, life, lost>>
-----------------------------------------------------------------------------
Dispatching == ClaimSends \/ ClaimPolls \/ EndTick \/ Dispatch \/ Abandon
               \/ Leave \/ Gone

Work(w) == Receive(w) \/ Answer(w) \/ Drop(w) \/ Record(w)
           \/ Exit(w)

Next ==
  \/ Dispatching \/ Commit \/ Signal
  \/ \E w \in Workers : Work(w)
  \/ \E d \in Polls : BecomesDue(d)
  \/ \E d \in Sends : OtherClaims(d) \/ OtherRecords(d)

Spec == Init /\ [][Next]_vars

\* The ticker fires and goroutines that can go on do; the database finishes a
\* statement once its result is taken; the clock moves.
Fairness ==
  /\ WF_vars(Dispatching) /\ WF_vars(Commit)
  /\ \A w \in Workers : WF_vars(Work(w))
  /\ \A d \in Polls : WF_vars(BecomesDue(d))

FairSpec == Spec /\ Fairness
-----------------------------------------------------------------------------
(* Properties.                                                             *)

\* Types; a claim is open only while the dispatcher reads it, and a worker has
\* a row exactly while it works.
TypeOK ==
  /\ row \in [Deliveries -> {"ready", "processing", "awaiting", "done"}]
  /\ due \subseteq Polls /\ ch \in [Kinds -> Seq(Deliveries)]
  /\ locked \subseteq Deliveries /\ unread \in Seq(Deliveries)
  /\ turn \in Kinds \cup {"idle", "left"}
  /\ hand \in [Workers -> Deliveries \cup {Nobody}]
  /\ at \in [Workers -> {"idle", "busy", "db", "exit"}]
  /\ life \in {"up", "stopping", "gone"}
  /\ other \in Sends \cup {Nobody} /\ lost \subseteq Sends
  /\ locked # {} \/ unread # <<>> => turn \in Kinds
  /\ \A k \in Kinds : Len(ch[k]) <= Capacity
  /\ \A w \in Workers : hand[w] # Nobody <=> at[w] \in {"busy", "db"}

\* A delivery is on its way in one place only, in the result set, in sendCh,
\* with a worker or in the other process, although a claim becomes visible
\* only after part of it was dispatched (claim_deliveries, claimAndDispatch).
\* The exception is a claim that a stop rolled back under rows it had
\* dispatched.
OnePlace ==
  \A d \in Sends \ lost :
    Cardinality({i \in DOMAIN unread : unread[i] = d})
      + Cardinality({i \in DOMAIN ch["send"] : ch["send"][i] = d})
      + Cardinality({w \in Workers : hand[w] = d})
      + (IF d = other THEN 1 ELSE 0) <= 1

\* While the process is up every delivery that is ready is claimed, however
\* many polls of unanswered jobs the ticks put into pollCh (claimAndDispatch):
\* the dispatcher does not wait for ever for room in a channel that only
\* workers could make who wait for the locks of its own claim.  For the polls
\* claim_async_polls says "Call this on a separate poller loop".
SendsGoOn ==
  \A d \in Sends : row[d] = "ready" ~> row[d] # "ready" \/ life # "up"

\* After a signal the process ends (main): main gets through wg.Wait with
\* either channel full and a claim open.
StopCompletes == life = "stopping" ~> life = "gone"
=============================================================================
