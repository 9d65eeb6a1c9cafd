------------------------------ MODULE MCSessions ---------------------------
(* Three tokens for two users: two sessions, one of which is refreshed, or *)
(* one that is refreshed twice; two requests at a time.                    *)
EXTENDS Sessions, TLC

MCSymmetry ==
  Permutations(Users) \cup Permutations(Tokens) \cup Permutations(Handlers)
=============================================================================
