------------------------------- MODULE MCPoll ------------------------------
(* One delivery, whose polls are enough to fill a process: one in the      *)
(* result set, two in the channel, one with each worker.  One process of   *)
(* two poll workers for the verdicts, two of one worker for the progress.  *)
EXTENDS PollPipeline, TLC

CONSTANTS d1, p1, p2, w1, w2

MCOwner == (w1 :> p1) @@ (w2 :> p2)
MCOneProcess == (w1 :> p1) @@ (w2 :> p1)

\* Given up, sent again from where it waits for its job, and sent again after
\* it failed: with the polls of its first job out or not.
MCPatches == {<<"awaiting_async", "failed">>, <<"awaiting_async", "ready">>,
              <<"failed", "ready">>}

\* The two workers of the one process are interchangeable.
MCSymmetry == Permutations({w1, w2})
=============================================================================
