------------------------------ MODULE MCServer ------------------------------
(* Two requests over one connection, as with sqlite, for TLC.              *)
EXTENDS Server

CONSTANTS r1, r2

=============================================================================
