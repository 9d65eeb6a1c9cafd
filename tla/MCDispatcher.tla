---------------------------- MODULE MCDispatcher ---------------------------
(* Three sends, claimed at once and streamed without a buffer, and a job   *)
(* that is polled; one worker of each kind.                                *)
EXTENDS Dispatcher

CONSTANTS s1, s2, s3, p1, v1, w1
=============================================================================
