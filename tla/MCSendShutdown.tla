--------------------------- MODULE MCSendShutdown --------------------------
(* One process with one send worker and a channel for two rows, and four   *)
(* deliveries, so that the channel can be full while the dispatcher holds  *)
(* one more; one server has a NULL use_async, one a limiter of burst 0.    *)
EXTENDS SendPipeline, TLC

CONSTANTS d1, d2, d3, d4, p1, w1

MCOwner == w1 :> p1
=============================================================================
