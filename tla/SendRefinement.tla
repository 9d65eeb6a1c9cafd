--------------------------- MODULE SendRefinement --------------------------
(***************************************************************************)
(* SendPipeline implements DeliveryLifecycle: what the table and the       *)
(* memory of all processes together say of a delivery is its stage.        *)
(***************************************************************************)
EXTENDS SendPipeline

\* Some worker holds d, at one of the given points and with one of the
\* given replies.
At(d, points, replies) ==
  \E w \in Workers : held[w] = d /\ pc[w] \in points /\ reply[w] \in replies

ClaimedStage(d) ==
  CASE At(d, {"http"}, AllReplies)     -> "sending"
    [] At(d, {"db"}, {"ok", "job"})    -> "accepted"
    [] At(d, {"db"}, {"retryable", "terminal"}) -> "refused"
    [] Fetchers(d) # {} \/ Places(d) # {} \/ At(d, {"limit"}, AllReplies) -> "claimed"
    [] OTHER -> "lost"

StageOf(d) ==
  IF ~Sound(d) THEN "adrift" ELSE
  CASE rows[d].status = "ready"          -> "queued"
    [] rows[d].status = "processing"     -> ClaimedStage(d)
    [] rows[d].status = "awaiting_async" -> "remote"
    [] OTHER                             -> rows[d].status

Lifecycle == INSTANCE DeliveryLifecycle
  WITH stage <- [d \in Deliveries |-> StageOf(d)],
       sent <- sends, extra <- [d \in Deliveries |-> patches[d] + undone[d]]

\* Whatever the processes do, and whatever goes wrong with them, each
\* delivery goes through the stages of DeliveryLifecycle: a request goes out
\* once per claim and within the budget, an accepted delivery is recorded or
\* lost but not sent again, and only an operator reopens a settled one: the
\* polls of its job that are still out do not.
ImplementsLifecycle == Lifecycle!Spec
=============================================================================
