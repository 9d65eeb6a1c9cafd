------------------------- MODULE DeliveryLifecycle -------------------------
(***************************************************************************)
(* What the sending half of the worker promises of each delivery, without  *)
(* processes, channels, batches or goroutines: the stages a delivery goes  *)
(* through, one request per claim, a budget of requests, nothing after an  *)
(* acceptance.  SendRefinement shows that SendPipeline implements it.      *)
(***************************************************************************)
EXTENDS Naturals

CONSTANTS
  Deliveries,
  MaxAttempts   \* requests a delivery may cost while nobody interferes

VARIABLES
  stage,   \* where each delivery is
  sent,    \* requests that went out for it
  extra    \* times an operator patched it, or a claim of it was undone

lifecycle == <<stage, sent, extra>>

\* "sending": a request is out.  "accepted", "refused": its answer is known
\* but not yet recorded.  "remote": a job of the server works on it.  "lost":
\* claimed, and nobody works on it any more.  "adrift": somebody interfered
\* while the program worked on it.
Claimed == {"claimed", "sending", "accepted", "refused"}
AtRest == {"queued", "remote", "done", "failed"}
Live == Claimed \cup AtRest \cup {"lost"}

Init ==
  /\ stage = [d \in Deliveries |-> "absent"]
  /\ sent = [d \in Deliveries |-> 0]
  /\ extra = [d \in Deliveries |-> 0]

\* The ways from stage to stage that cost no request.
Paths ==
  {<<"absent", "queued">>,
   <<"queued", "claimed">>, <<"queued", "lost">>,
   <<"claimed", "queued">>,                       \* the claim is rolled back
   <<"claimed", "refused">>,                      \* cancelled before it went out
   <<"sending", "accepted">>, <<"sending", "refused">>,
   <<"accepted", "remote">>, <<"accepted", "done">>,
   <<"refused", "queued">>, <<"refused", "failed">>,
   <<"remote", "done">>, <<"remote", "failed">>}
  \cup (Claimed \X {"lost"}) \cup (Live \X {"deleted"})

Move(d) ==
  /\ <<stage[d], stage'[d]>> \in Paths
  /\ UNCHANGED <<sent[d], extra[d]>>

Send(d) ==
  /\ stage[d] = "claimed" /\ stage'[d] = "sending"
  /\ sent[d] < MaxAttempts + extra[d]
  /\ sent'[d] = sent[d] + 1
  /\ UNCHANGED extra[d]

\* A worker does not learn that the row it was given has been deleted.
SendDeleted(d) ==
  /\ stage[d] = "deleted" /\ stage'[d] = "deleted"
  /\ sent[d] < MaxAttempts + extra[d]
  /\ sent'[d] = sent[d] + 1
  /\ UNCHANGED extra[d]

\* An operator gives a delivery that nobody works on another status: each
\* time it may cost one more request.
AskAgain(d) ==
  /\ stage[d] \in AtRest /\ stage'[d] \in AtRest \cup {"lost"}
  /\ extra'[d] = extra[d] + 1
  /\ UNCHANGED sent[d]

\* Somebody interferes while the program works on the delivery.  From then on
\* it may be in several hands, and only the budget is kept, which each
\* interference raises by one.
GoAdrift(d) ==
  /\ stage[d] \in Live /\ stage'[d] = "adrift"
  /\ extra'[d] = extra[d] + 1
  /\ UNCHANGED sent[d]

Drift(d) ==
  /\ stage[d] = "adrift" /\ stage'[d] = "adrift"
  /\ \/ /\ sent[d] < MaxAttempts + extra[d]
        /\ sent'[d] = sent[d] + 1
        /\ UNCHANGED extra[d]
     \/ extra'[d] = extra[d] + 1 /\ UNCHANGED sent[d]

Step(d) ==
  Move(d) \/ Send(d) \/ SendDeleted(d) \/ AskAgain(d) \/ GoAdrift(d) \/ Drift(d)

\* A claim or a crash moves several deliveries at once.
Next ==
  \A d \in Deliveries : Step(d) \/ UNCHANGED <<stage[d], sent[d], extra[d]>>

Spec == Init /\ [][Next]_lifecycle
=============================================================================
