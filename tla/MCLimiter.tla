------------------------------ MODULE MCLimiter ----------------------------
(* Two workers on three keys: one has the slot of k1 or waits for it while *)
(* the other comes again and again, for any key.                           *)
EXTENDS LimiterSet, TLC

CONSTANTS k1, k2, k3, w1, w2

Ask(k, b, c) == [key |-> k, burst |-> b, conc |-> c]

\* One setting per key.  k3 is a server with rps below 1 and no burst:
\* burst = int(rps) = 0.
MCSteady == {Ask(k1, 2, 1), Ask(k2, 1, 0), Ask(k3, 0, 1)}
=============================================================================
