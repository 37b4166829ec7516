---------------------------- MODULE MCWebClient ----------------------------
(* Two tabs with two calls under way, for TLC.                             *)
EXTENDS WebClient, TLC

CONSTANTS a, b, c1, c2, operator, reviewer

Symmetry == Permutations(Calls) \cup Permutations(Users)

=============================================================================
