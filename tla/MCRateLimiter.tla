--------------------------- MODULE MCRateLimiter ---------------------------
(* Two goroutines, two clients of one endpoint, for TLC.                   *)
EXTENDS RateLimiter, TLC

CONSTANTS trustAnchorImport, here, there, w1, w2

Symmetry == Permutations(Workers)

=============================================================================
