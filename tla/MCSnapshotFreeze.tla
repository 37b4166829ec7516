-------------------------- MODULE MCSnapshotFreeze --------------------------
(* A page of two chains, two of which exist at first, for TLC.             *)
EXTENDS SnapshotFreeze

Scenario(old, new, end, candidates) ==
    [OldAnchorID |-> old, NewAnchorID |-> new, OverlapStart |-> 2,
     OverlapEnd |-> end, SimulationTime |-> 4, CandidateChainIDs |-> candidates]

\* The anchors that exist at first with either or both chains, an anchor and a
\* chain imported later, and two that are refused.
MCRequests ==
    {Scenario(1, 2, 6, {1, 2}), Scenario(1, 3, 6, {2}), Scenario(1, 2, 6, {3}),
     Scenario(1, 1, 6, {1}), Scenario(1, 2, 2, {1})}

MCFirstAnchors == [id \in {1, 2} |-> "valid"]
MCFirstChains == [id \in {1, 2} |-> [ValidTo |-> 10 * id, State |-> "validated"]]
MCFirstServices ==
    [id \in {1, 2} |-> [ChainID |-> id, DependencyIDs |-> {1, 2} \cap {id - 1},
                        State |-> "active"]]

=============================================================================
