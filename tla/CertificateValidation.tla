------------------------ MODULE CertificateValidation ------------------------
(***************************************************************************)
(* Parsing and verification of certificates                                *)
(* (backend/internal/x509util/certificate.go), the validity window and the *)
(* fingerprint that an import stores (certificate_chain_service.go) and    *)
(* those that the seed stores (database.go).                               *)
(*                                                                         *)
(* A certificate is told apart by its fingerprint and Content says what is *)
(* in it.  Names are numbers in the order of their text.  Time is in       *)
(* months.  Name constraints, path length limits and algorithms are left   *)
(* out: no certificate carries any.                                        *)
(***************************************************************************)
EXTENDS Integers, Sequences, FiniteSets, Functions

CONSTANTS
    Certificates, \* certificates, told apart by their fingerprint
    Content       \* what is in each of them

CertificateContent ==
    [subject : Nat, issuer : Nat,    \* names
     key : Nat, signer : Nat,        \* its own key, and the one that signed it
     isCA : BOOLEAN, certSign : BOOLEAN,
     serverAuth : BOOLEAN,           \* its extended key usage admits servers
     notBefore : Int, notAfter : Int]

ASSUME ContentAssumption == Content \in [Certificates -> CertificateContent]

-----------------------------------------------------------------------------------------
(* PEM texts: the blocks that a decoder finds, whatever stands before each *)
(* of them, and whether anything is left after the last.                   *)

Blocks == Certificates \cup {"privateKey", "otherBlock"}

Text == [blocks : Seq(Blocks), rest : BOOLEAN]

EncodePEM(bundle) == [blocks |-> bundle, rest |-> FALSE]

ParsesAsCertificate(text) ==
    /\ \E certificate \in Certificates : text.blocks = <<certificate>>
    /\ ~text.rest

ParseCertificatePEM(text) == text.blocks[1]

ParsesAsBundle(text) ==
    /\ text.blocks \in Seq(Certificates) /\ text.blocks # << >>
    /\ ~text.rest

ParseCertificateBundle(text) == text.blocks

-----------------------------------------------------------------
(* Verification.                                                           *)

ValidateTrustAnchor(certificate, at) ==
    LET content == Content[certificate]
    IN  /\ content.isCA /\ content.certSign
        /\ content.notBefore <= at /\ at < content.notAfter
        /\ content.signer = content.key

\* What the x509 library asks of a certificate on a path, whose last instant
\* belongs to its validity, and of each step of the path.
Acceptable(certificate, at) ==
    LET content == Content[certificate]
    IN  content.notBefore <= at /\ at <= content.notAfter /\ content.serverAuth

Signs(parent, child) ==
    /\ Content[child].issuer = Content[parent].subject
    /\ Content[child].signer = Content[parent].key
    /\ Content[parent].isCA /\ Content[parent].certSign

\* There is a path from the leaf over others of the bundle to the anchor: no
\* set without the leaf holds the anchor and all that its members sign.
Verify(leaf, others, anchor, at) ==
    LET pool == {c \in {leaf, anchor} \cup others : Acceptable(c, at)}
        Closed(set) == \A child \in pool \ set : \A parent \in set : ~Signs(parent, child)
    IN  /\ {leaf, anchor} \subseteq pool
        /\ \A between \in SUBSET (pool \ {leaf, anchor}) :
              leaf = anchor \/ ~Closed({anchor} \cup between)

ValidateChain(anchor, text, at) ==
    /\ ValidateTrustAnchor(anchor, at)
    /\ ParsesAsBundle(text)
    /\ LET bundle == ParseCertificateBundle(text)
       IN  Verify(bundle[1], Range(Tail(bundle)), anchor, at)

\* The references of a bundle, sorted by subject.  The sort leaves equal
\* subjects of a bundle as they were: it is one by insertion up to a dozen.
Precedes(bundle, i, j) ==
    LET Subject(k) == Content[bundle[k]].subject
    IN  Subject(i) < Subject(j) \/ (Subject(i) = Subject(j) /\ i < j)

Place(bundle, i) ==
    Cardinality({j \in DOMAIN bundle : j = i \/ Precedes(bundle, j, i)})

Refs_Unsorted(bundle) == bundle  \* fault: the references are not sorted
Refs(bundle) ==
    [p \in DOMAIN bundle |-> bundle[CHOOSE i \in DOMAIN bundle : Place(bundle, i) = p]]

-----------------------------------------------------------------
(* The columns of a chain that are calculated from its certificates.       *)

Latest(times) == CHOOSE t \in times : \A other \in times : other <= t
Earliest(times) == CHOOSE t \in times : \A other \in times : t <= other

\* An import intersects the validity of the anchor and of every certificate,
\* whether it is on the path or not.
Window_LeafOnly(anchor, bundle) ==  \* fault: only the leaf counts
    [from |-> Latest({Content[anchor].notBefore, Content[bundle[1]].notBefore}),
     to   |-> Earliest({Content[anchor].notAfter, Content[bundle[1]].notAfter})]
Window(anchor, bundle) ==
    LET all == {anchor} \cup Range(bundle)
    IN  [from |-> Latest({Content[c].notBefore : c \in all}),
         to   |-> Earliest({Content[c].notAfter : c \in all})]

\* The hash of the fingerprints, joined by colons.
ChainFingerprint(bundle) == [format |-> "joined", refs |-> Refs(bundle)]

\* The seed looks at the leaf and the anchor only, which is all its bundles
\* have, and hashes a list printed by fmt.Sprint.
seedWindow(anchor, bundle) ==
    [from |-> Latest({Content[anchor].notBefore, Content[bundle[1]].notBefore}),
     to   |-> Earliest({Content[anchor].notAfter, Content[bundle[1]].notAfter})]

seedFingerprint(bundle) == [format |-> "printed", refs |-> Refs(bundle)]

-----------------------------------------------------------------------------
(* The certificates of the demonstration data.                             *)

createRoot(name, key, notBefore, notAfter) ==
    [subject |-> name, issuer |-> name, key |-> key, signer |-> key,
     isCA |-> TRUE, certSign |-> TRUE, serverAuth |-> TRUE,
     notBefore |-> notBefore, notAfter |-> notAfter]

createLeaf(name, key, notBefore, notAfter, issuer) ==
    [subject |-> name, issuer |-> issuer.subject, key |-> key,
     signer |-> issuer.key,
     isCA |-> FALSE, certSign |-> FALSE, serverAuth |-> TRUE,
     notBefore |-> notBefore, notAfter |-> notAfter]

\* "... 2031 Root" sorts before "... Legacy Root", both before the service.
GenerateDemoPKI(now) ==
    LET legacy2022 == createRoot(2, 1, now - 36, now + 6)
        next2031 == createRoot(1, 2, now - 1, now + 72)
    IN  [oldRoot |-> legacy2022,
         newRoot |-> next2031,
         oldLeaf |-> createLeaf(4, 3, now - 12, now + 4, legacy2022),
         newLeaf |-> createLeaf(4, 4, now, now + 24, next2031)]

=============================================================================
