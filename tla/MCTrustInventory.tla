-------------------------- MODULE MCTrustInventory --------------------------
(* The seeded anchors and chains, and imports of one more anchor and of    *)
(* chains that need an intermediate, for TLC.                              *)
EXTENDS TrustInventory, TLC

CONSTANTS operator, w1, w2,          \* an account and the goroutines
          legacy, next, partner,     \* anchor codes
          tlsLegacy, tlsNext, tlsA, tlsB,         \* chain codes
          oldRoot, newRoot, oldLeaf, newLeaf,     \* certificates of the seed
          otherRoot,                 \* a root to be imported
          leaf, issuing, crossed     \* a later leaf and its issuing authority,
                                     \* signed by the new and by the old root

MCRoleOf == operator :> "pki_operator"

\* The seed ran in month 36.  The old leaf and the issuing authority expire in
\* month 40, its cross-signed certificate in month 39, the old root in 42.
Now == 36
Pki == GenerateDemoPKI(Now)
Issuing(root, notAfter) ==
    [createRoot(3, 5, Now, notAfter)
        EXCEPT !.issuer = root.subject, !.signer = root.key]
MCContent ==
    (oldRoot :> Pki.oldRoot) @@ (newRoot :> Pki.newRoot) @@
    (oldLeaf :> Pki.oldLeaf) @@ (newLeaf :> Pki.newLeaf) @@
    (otherRoot :> createRoot(5, 7, Now - 1, 39)) @@
    (issuing :> Issuing(Pki.newRoot, 40)) @@ (crossed :> Issuing(Pki.oldRoot, 39)) @@
    (leaf :> createLeaf(4, 6, Now, Now + 9, Issuing(Pki.newRoot, 40)))

MCFirstAnchors == (legacy :> oldRoot) @@ (next :> newRoot)
MCFirstChains ==
    (tlsLegacy :> [anchor |-> legacy, bundle |-> <<oldLeaf>>]) @@
    (tlsNext :> [anchor |-> next, bundle |-> <<newLeaf>>])

MCAnchorImports ==
    {[id |-> partner, text |-> EncodePEM(<<otherRoot>>)],
     [id |-> partner, text |-> EncodePEM(<<newRoot>>)],               \* known already
     [id |-> partner, text |-> EncodePEM(<<issuing>>)],               \* signed by another
     [id |-> partner, text |-> EncodePEM(<<otherRoot, "privateKey">>)]}

MCChainImports ==
    {[id |-> tlsA, anchor |-> next, text |-> EncodePEM(<<leaf, issuing, newRoot>>)],
     [id |-> tlsB, anchor |-> next, text |-> EncodePEM(<<leaf, newRoot, issuing>>)],
     [id |-> tlsB, anchor |-> next, text |-> EncodePEM(<<leaf, issuing, newRoot, issuing>>)],
     [id |-> tlsA, anchor |-> next, text |-> EncodePEM(<<leaf, issuing, crossed>>)],
     [id |-> tlsB, anchor |-> next, text |-> EncodePEM(<<leaf, crossed, issuing>>)],
     [id |-> tlsB, anchor |-> next, text |-> EncodePEM(<<newLeaf>>)], \* the seeded one
     [id |-> tlsB, anchor |-> legacy, text |-> EncodePEM(<<leaf>>)],  \* no path
     [id |-> tlsB, anchor |-> partner, text |-> EncodePEM(<<leaf>>)], \* no anchor at first
     [id |-> tlsB, anchor |-> legacy,
      text |-> [blocks |-> <<oldLeaf>>, rest |-> TRUE]]}

WorkerSymmetry == Permutations(Workers)

=============================================================================
