------------------------------- MODULE MCStore ------------------------------
(* Three modules that share no state are checked in one run: a behaviour is *)
(* one of RequestStore, of Startup or of Schedule, and the others stand    *)
(* still.                                                                  *)
EXTENDS RequestStore, Startup, Schedule

VARIABLE part

vars == <<part, storeVars, startVars, scheduleVars>>

Init ==
  /\ StoreInit /\ StartInit /\ ScheduleInit
  /\ part \in {"store", "start", "schedule"}

Next ==
  \/ part = "store" /\ StoreNext /\ UNCHANGED <<part, startVars, scheduleVars>>
  \/ part = "start" /\ StartNext /\ UNCHANGED <<part, storeVars, scheduleVars>>
  \/ part = "schedule" /\ ScheduleNext /\ UNCHANGED <<part, storeVars, startVars>>

\* Nothing is due in a part that has not begun: its fairness asks for no step.
Spec ==
  Init /\ [][Next]_vars /\ StoreFairness /\ StartFairness /\ ScheduleFairness

\* The types of the three parts; for each delivery its request and server are
\* there (Joinable).
StoreTypesOK == StoreTypeOK /\ Joinable /\ StartTypeOK /\ ScheduleTypeOK

MCCopyLists == {<<>>, <<"s1">>, <<"s2">>, <<"s2", "s1">>}
MCHeaders == {-1, 2}
=============================================================================
