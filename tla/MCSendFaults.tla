---------------------------- MODULE MCSendFaults ---------------------------
(* Two worker processes of one send worker each, and a delivery to an      *)
(* asynchronous server that both may come to work on; everything may go    *)
(* wrong, and operators patch it in whatever state it is.                  *)
EXTENDS SendRefinement, TLC

CONSTANTS d1, p1, p2, w1, w2

MCOwner == (w1 :> p1) @@ (w2 :> p2)

\* The two processes, each with its worker, are interchangeable.
MCSymmetry == {(p1 :> p) @@ (p2 :> q) @@ (w1 :> v) @@ (w2 :> w) :
                 <<p, q, v, w>> \in {<<p1, p2, w1, w2>>, <<p2, p1, w2, w1>>}}

\* Requeues, of rows at rest and of rows that are worked on, and a row that is
\* taken away from the dispatchers.
MCPatchPairs ==
  {<<"failed", "ready">>, <<"awaiting_async", "ready">>,
   <<"processing", "ready">>, <<"ready", "processing">>}
=============================================================================
