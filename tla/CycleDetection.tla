--------------------------- MODULE CycleDetection ---------------------------
(***************************************************************************)
(* What it means for a dependency graph to have a cycle.  A graph is a     *)
(* function from services to the set of services they depend on; a         *)
(* dependency outside its domain leads nowhere.                            *)
(***************************************************************************)

\* Some services each depend on another one of them, so that following the
\* dependencies from any of them never ends.
Cyclic(graph) ==
    \E knot \in SUBSET DOMAIN graph :
        /\ knot # {}
        /\ \A id \in knot : graph[id] \cap knot # {}

=============================================================================
