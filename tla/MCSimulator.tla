---------------------------- MODULE MCSimulator ----------------------------
(* Two anchors, a chain under each, and three services, for TLC.           *)
EXTENDS Simulator

CONSTANTS api, worker   \* leaf identities

Config(candidates, end, at) ==
    [OldAnchorID |-> 1, NewAnchorID |-> 2, OverlapStart |-> 2, OverlapEnd |-> end,
     SimulationTime |-> at, CandidateChainIDs |-> candidates]

\* Windows of length 4, evaluated at 1, 2, 4, 6 and 7, one of length 1, and
\* one that is refused.
MCConfigs ==
    {Config({1, 2}, 6, 4), Config({2}, 6, 9), Config({1}, 3, 3), Config({2}, 2, 2)}

Chain(anchor, leaf, from, to, chainState) ==
    [AnchorID |-> anchor, LeafSubject |-> leaf, ValidFrom |-> from,
     ValidTo |-> to, State |-> chainState]

\* The chain under the old anchor may expire within the window or be out of
\* use; that under the new one may start late or be for another leaf, or the
\* freeze may not see it.
MCChainTables ==
    LET old == {Chain(1, api, 0, to, "validated") : to \in {3, 5, 9}}
               \cup {Chain(1, api, 0, 9, "deprecated")}
        new == {Chain(2, leaf, from, 9, "validated") : leaf \in {api, worker}, from \in {0, 4}}
    IN  {<<c, d>> : c \in old, d \in new} \cup {<<c>> : c \in old}

Service(chain, trust, deps, serviceState) ==
    [ChainID |-> chain, TrustAnchorIDs |-> trust, DependencyIDs |-> deps,
     State |-> serviceState]

MCServiceTables ==
    {<<Service(c, t, a, "active"), Service(1, {1, 2}, b, s), Service(1, u, d, "active")>> :
        c \in {1, 2}, t \in {{1}, {1, 2}}, a \in {{}, {2}, {2, 3}},
        b \in {{}, {3}}, s \in {"active", "inactive"},
        u \in {{1}, {1, 2}}, d \in {{}, {1}}}

=============================================================================
