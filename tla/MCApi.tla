-------------------------------- MODULE MCApi -------------------------------
(* Three modules that share no state are checked in one run: a behaviour is *)
(* one of Accounts, of Access or of Listing, and the others stand still.   *)
EXTENDS Accounts, Access, Listing, TLC

VARIABLE part

vars == <<part, accVars, accessVars, listVars>>

Init ==
  /\ AccInit /\ AccessInit /\ ListInit
  /\ part \in {"accounts", "access", "listing"}
  /\ kind = "requests" \/ part = "listing"

Next ==
  \/ part = "accounts" /\ AccNext /\ UNCHANGED <<part, accessVars, listVars>>
  \/ part = "access" /\ AccessNext /\ UNCHANGED <<part, accVars, listVars>>
  \/ part = "listing" /\ ListNext /\ UNCHANGED <<part, accVars, accessVars>>

Spec == Init /\ [][Next]_vars

\* The types of the three parts; every grant and role in use has its row
\* (References).
ApiTypesOK == AccTypeOK /\ AccessTypeOK /\ References /\ ListTypeOK

Symmetry == Permutations(ApiProcesses)
MCSeedCodes == <<"admin", "view">>
=============================================================================
