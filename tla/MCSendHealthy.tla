--------------------------- MODULE MCSendHealthy ---------------------------
(* One process with two send workers and two deliveries, claimed together  *)
(* or one by one; nothing goes wrong but the answers of the servers, one   *)
(* of which may be text that PostgreSQL refuses.  A request may be         *)
(* suspended, and no operator patches.                                     *)
EXTENDS SendPipeline, TLC

CONSTANTS d1, d2, p1, w1, w2

MCOwner == (w1 :> p1) @@ (w2 :> p1)
=============================================================================
