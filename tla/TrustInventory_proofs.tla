----------------------- MODULE TrustInventory_proofs -----------------------
(***************************************************************************)
(* Proofs about TrustInventory.  First the operators of                    *)
(* CertificateValidation, for any certificates and bundles: what the       *)
(* references of a bundle tell of it, and that a bundle verified once      *)
(* verifies all over its window.  Then the specification: types, that a    *)
(* revocation is final, that the audit log accounts for what is stored,    *)
(* and what an import guarantees of the chain it has stored.               *)
(***************************************************************************)
EXTENDS TrustInventory, FiniteSetTheorems, WellFoundedInduction, TLAPS

-----------------------------------------------------------------------------
(* Least elements.  They stand in for induction: a claim holds if no least *)
(* counterexample to it exists.                                            *)

\* A set of natural numbers has a least member.
LEMMA LeastNatural ==
  ASSUME NEW set, set \subseteq Nat, set # {}
  PROVE  \E n \in set : \A m \in set : n <= m
<1>1. PICK n \in set : \A m \in set : ~ (<<m, n>> \in OpToRel(<, Nat))
  BY WFMin, NatLessThanWellFounded, Zenon
<1>2. ASSUME NEW m \in set, m < n PROVE <<m, n>> \in OpToRel(<, Nat)
  BY <1>2, Zenon DEF OpToRel
<1>3. ASSUME NEW m \in set PROVE ~(m < n)
  BY <1>1, <1>2, Zenon
<1> QED BY <1>3

\* A family of finite sets has a minimal member.
LEMMA MinimalMember ==
  ASSUME NEW set, NEW family, family \subseteq FiniteSubsetsOf(set), family # {}
  PROVE  \E least \in family :
            \A other \in family : other \subseteq least => other = least
<1> DEFINE R == StrictSubsetOrdering(set)
           S == FiniteSubsetsOf(set)
<1>1. IsWellFoundedOn(R, S)
  BY FS_StrictSubsetOrderingWellFounded
<1>2. family \subseteq S
  OBVIOUS
<1> HIDE DEF R, S
<1>3. PICK least \in family : \A other \in family : ~ (<<other, least>> \in R)
  BY <1>1, <1>2, WFMin
<1>4. ASSUME NEW other \in family, other \subseteq least PROVE other = least
  <2>1. other \in SUBSET set /\ least \in SUBSET set
    BY <1>2 DEF S, FiniteSubsetsOf
  <2> QED BY <1>3, <1>4, <2>1 DEF R, StrictSubsetOrdering
<1> QED BY <1>4

Bounded(set) ==
    /\ \E t \in set : \A other \in set : other <= t
    /\ \E t \in set : \A other \in set : t <= other

\* A finite set of integers has a greatest and a least member.
LEMMA BoundsExist ==
  ASSUME NEW times, IsFiniteSet(times), times \subseteq Int, times # {}
  PROVE  Bounded(times)
<1> DEFINE family == {set \in SUBSET times : set # {} /\ ~Bounded(set)}
<1>1. SUFFICES ASSUME ~Bounded(times) PROVE FALSE
  OBVIOUS
<1>2. family # {}
  BY <1>1
<1>3. family \subseteq FiniteSubsetsOf(times)
  BY FS_FiniteSubsetsOfFinite
<1>3a. \A set \in SUBSET times : set # {} /\ ~Bounded(set) <=> set \in family
  OBVIOUS
<1>3b. family \subseteq SUBSET times
  OBVIOUS
<1> HIDE DEF family
<1>4. PICK least \in family :
         \A other \in family : other \subseteq least => other = least
  BY <1>2, <1>3, MinimalMember
<1>5. least \subseteq Int /\ ~Bounded(least) /\ least # {}
  BY <1>3a, <1>3b
<1>6. PICK t \in least : TRUE
  BY <1>5
<1>7. CASE least = {t}
  BY <1>5, <1>7 DEF Bounded
<1>8. CASE least # {t}
  <2>1. /\ least \ {t} # {} /\ least \ {t} \in SUBSET times
        /\ least \ {t} # least /\ least \ {t} \subseteq least
    BY <1>3b, <1>6, <1>8
  <2>2. Bounded(least \ {t})
    BY <1>4, <1>3a, <2>1
  <2>3. PICK high \in least \ {t} : \A other \in least \ {t} : other <= high
    BY <2>2 DEF Bounded
  <2>4. PICK low \in least \ {t} : \A other \in least \ {t} : low <= other
    BY <2>2 DEF Bounded
  <2>5. \E s \in least : \A other \in least : other <= s
    <3>1. CASE t <= high
      BY <2>3, <1>5, <3>1
    <3>2. CASE high < t
      BY <2>3, <1>5, <3>2
    <3> QED BY <1>5, <3>1, <3>2
  <2>6. \E s \in least : \A other \in least : s <= other
    <3>1. CASE low <= t
      BY <2>4, <1>5, <3>1
    <3>2. CASE t < low
      BY <2>4, <1>5, <3>2
    <3> QED BY <1>5, <3>1, <3>2
  <2> QED BY <1>5, <2>5, <2>6 DEF Bounded
<1> QED BY <1>7, <1>8

\* What a function takes on a finite set is a finite set.
LEMMA RangeFinite ==
  ASSUME NEW f, IsFiniteSet(DOMAIN f), f = [x \in DOMAIN f |-> f[x]]
  PROVE  IsFiniteSet(Range(f))
<1>1. f \in Surjection(DOMAIN f, Range(f))
  BY DEF Surjection, Range
<1> QED BY <1>1, FS_Surjection

\* The latest and the earliest of finitely many times.
LEMMA LatestEarliest ==
  ASSUME NEW times, IsFiniteSet(times), times \subseteq Int, times # {}
  PROVE  /\ Latest(times) \in times /\ \A other \in times : other <= Latest(times)
         /\ Earliest(times) \in times /\ \A other \in times : Earliest(times) <= other
  BY BoundsExist DEF Bounded, Latest, Earliest

\* The latest and the earliest of two times.
LEMMA OfTwo ==
  ASSUME NEW s \in Int, NEW t \in Int
  PROVE  /\ Latest({s, t}) = IF s <= t THEN t ELSE s
         /\ Earliest({s, t}) = IF s <= t THEN s ELSE t
<1>1. IsFiniteSet({s} \cup {t})
  BY FS_Singleton, FS_AddElement
<1>2. {s} \cup {t} = {s, t}
  OBVIOUS
<1> QED BY <1>1, <1>2, LatestEarliest

\* A bundle holds finitely many certificates.
LEMMA BundleFinite ==
  ASSUME NEW bundle \in Seq(Certificates)
  PROVE  IsFiniteSet(Range(bundle)) /\ Range(bundle) \subseteq Certificates
<1>1. DOMAIN bundle = 1 .. Len(bundle) /\ bundle = [x \in DOMAIN bundle |-> bundle[x]]
  OBVIOUS
<1>2. IsFiniteSet(1 .. Len(bundle))
  BY FS_Interval
<1> QED BY <1>1, <1>2, RangeFinite DEF Range

-----------------------------------------------------------------------------
(* The window of a chain.                                                  *)

\* The window of a chain lies within the validity of its anchor and of every
\* certificate of its bundle.
LEMMA WindowBounds ==
  ASSUME NEW anchor \in Certificates, NEW bundle \in Seq(Certificates)
  PROVE  LET window == Window(anchor, bundle)
         IN  /\ window \in [from : Int, to : Int]
             /\ \A c \in {anchor} \cup Range(bundle) :
                   /\ Content[c].notBefore <= window.from
                   /\ window.to <= Content[c].notAfter
<1> DEFINE all == {anchor} \cup Range(bundle)
           starts == [c \in all |-> Content[c].notBefore]
           ends == [c \in all |-> Content[c].notAfter]
<1>1. IsFiniteSet(all) /\ all \subseteq Certificates
  <2>1. IsFiniteSet(Range(bundle) \cup {anchor})
    BY BundleFinite, FS_AddElement
  <2>2. all = Range(bundle) \cup {anchor}
    OBVIOUS
  <2> QED BY <2>1, <2>2, BundleFinite
<1>2. \A c \in all : Content[c].notBefore \in Int /\ Content[c].notAfter \in Int
  BY <1>1, ContentAssumption DEF CertificateContent
<1>3. /\ {Content[c].notBefore : c \in all} = Range(starts)
      /\ {Content[c].notAfter : c \in all} = Range(ends)
  BY DEF Range
<1>4. /\ Range(starts) \subseteq Int /\ Range(starts) # {}
      /\ Range(ends) \subseteq Int /\ Range(ends) # {}
  BY <1>2 DEF Range
<1>5. IsFiniteSet(Range(starts)) /\ IsFiniteSet(Range(ends))
  <2>1. DOMAIN starts = all /\ DOMAIN ends = all
    OBVIOUS
  <2> QED BY <1>1, <2>1, RangeFinite
<1>6. /\ Latest(Range(starts)) \in Int /\ Earliest(Range(ends)) \in Int
      /\ \A t \in Range(starts) : t <= Latest(Range(starts))
      /\ \A t \in Range(ends) : Earliest(Range(ends)) <= t
  BY <1>4, <1>5, LatestEarliest
<1>7. Window(anchor, bundle) =
        [from |-> Latest(Range(starts)), to |-> Earliest(Range(ends))]
  BY <1>3 DEF Window
<1>8. \A c \in all : Content[c].notBefore \in Range(starts)
                     /\ Content[c].notAfter \in Range(ends)
  BY DEF Range
<1> HIDE DEF all, starts, ends
<1>9. \A c \in all : /\ Content[c].notBefore <= Latest(Range(starts))
                     /\ Earliest(Range(ends)) <= Content[c].notAfter
  BY <1>6, <1>8
<1> QED BY <1>6, <1>7, <1>9 DEF all

\* The seed calculates the window that an import would of its bundles of one.
LEMMA SeedWindowIsWindow ==
  ASSUME NEW anchor \in Certificates, NEW bundle \in Seq(Certificates),
         Len(bundle) = 1
  PROVE  seedWindow(anchor, bundle) = Window(anchor, bundle)
<1>1. {anchor} \cup Range(bundle) = {anchor, bundle[1]}
  BY DEF Range
<1>2. {Content[c].notBefore : c \in {anchor, bundle[1]}} =
        {Content[anchor].notBefore, Content[bundle[1]].notBefore}
  OBVIOUS
<1>3. {Content[c].notAfter : c \in {anchor, bundle[1]}} =
        {Content[anchor].notAfter, Content[bundle[1]].notAfter}
  OBVIOUS
<1> QED BY <1>1, <1>2, <1>3 DEF Window, seedWindow

-----------------------------------------------------------------------------
(* Texts.                                                                  *)

\* What parses as a bundle is the text of the bundle it parses to.
LEMMA ParsedIsEncoded ==
  ASSUME NEW text \in Text, ParsesAsBundle(text)
  PROVE  /\ ParseCertificateBundle(text) \in Seq(Certificates)
         /\ ParseCertificateBundle(text) # << >>
         /\ text = EncodePEM(ParseCertificateBundle(text))
<1>1. text \in [blocks : Seq(Blocks), rest : {FALSE}]
  BY Zenon DEF Text, ParsesAsBundle
<1> QED BY <1>1 DEF ParsesAsBundle, ParseCertificateBundle, EncodePEM

-----------------------------------------------------------------------------
(* Verification over the window.                                           *)

\* A bundle that verified once verifies at every time of its window: of what
\* was on the path then, nothing has expired.
LEMMA VerifiedOverWindow ==
  ASSUME NEW anchor \in Certificates, NEW bundle \in Seq(Certificates),
         NEW before \in Int, ValidateChain(anchor, EncodePEM(bundle), before),
         NEW at \in Int, Window(anchor, bundle).from <= at,
         at < Window(anchor, bundle).to
  PROVE  ValidateChain(anchor, EncodePEM(bundle), at)
<1> DEFINE leaf == bundle[1]
           others == Range(Tail(bundle))
           all == {leaf, anchor} \cup others
           pool(t) == {c \in all : Acceptable(c, t)}
<1>1. bundle # << >> /\ ParsesAsBundle(EncodePEM(bundle))
      /\ ParseCertificateBundle(EncodePEM(bundle)) = bundle
  BY DEF ValidateChain, ParsesAsBundle, ParseCertificateBundle, EncodePEM
<1>2. all \subseteq {anchor} \cup Range(bundle)
  BY <1>1 DEF Range
<1>3. \A c \in all : c \in Certificates /\ Content[c].notBefore <= at
                     /\ at <= Content[c].notAfter
  <2>1. \A c \in all : c \in Certificates
    BY <1>2, BundleFinite
  <2>2. \A c \in all : Content[c].notBefore \in Int /\ Content[c].notAfter \in Int
    BY <2>1, ContentAssumption DEF CertificateContent
  <2>3. \A c \in all : /\ Content[c].notBefore <= Window(anchor, bundle).from
                       /\ Window(anchor, bundle).to <= Content[c].notAfter
    BY <1>2, WindowBounds
  <2>4. /\ Window(anchor, bundle).from \in Int
        /\ Window(anchor, bundle).to \in Int
    BY WindowBounds
  <2> HIDE DEF all
  <2> QED BY <2>1, <2>2, <2>3, <2>4
<1>4. ValidateTrustAnchor(anchor, at)
  <2>1. anchor \in {anchor} \cup Range(bundle)
    OBVIOUS
  <2>2. Content[anchor] \in CertificateContent
    BY ContentAssumption
  <2>3. Content[anchor].notBefore <= at /\ at < Content[anchor].notAfter
    BY <2>1, <2>2, WindowBounds DEF CertificateContent
  <2> QED BY <2>3 DEF ValidateChain, ValidateTrustAnchor
<1>5. Verify(leaf, others, anchor, before)
  BY <1>1 DEF ValidateChain
<1>6. pool(before) \subseteq pool(at)
  BY <1>3 DEF Acceptable
<1>7. {leaf, anchor} \subseteq pool(at)
  BY <1>5, <1>6 DEF Verify
<1>8. ASSUME NEW between \in SUBSET (pool(at) \ {leaf, anchor}), leaf # anchor
      PROVE  \E child \in pool(at) \ ({anchor} \cup between) :
                \E parent \in {anchor} \cup between : Signs(parent, child)
  <2> DEFINE then == between \cap pool(before)
  <2>1. then \in SUBSET (pool(before) \ {leaf, anchor})
    OBVIOUS
  <2>2. \E child \in pool(before) \ ({anchor} \cup then) :
           \E parent \in {anchor} \cup then : Signs(parent, child)
    BY <1>5, <1>8, <2>1, Zenon DEF Verify
  <2> QED BY <1>6, <2>2
<1>9. Verify(leaf, others, anchor, at)
  BY <1>7, <1>8 DEF Verify
<1> QED BY <1>1, <1>4, <1>9 DEF ValidateChain

-----------------------------------------------------------------------------
(* The references of a bundle.                                             *)

SubjectOf(c) == Content[c].subject

\* The order of the references is total.
LEMMA PrecedesTotal ==
  ASSUME NEW bundle \in Seq(Certificates)
  PROVE  \A i, j, k \in DOMAIN bundle :
            /\ SubjectOf(bundle[i]) \in Nat
            /\ ~Precedes(bundle, i, i)
            /\ i # j => Precedes(bundle, i, j) \/ Precedes(bundle, j, i)
            /\ Precedes(bundle, i, j) => ~Precedes(bundle, j, i)
            /\ Precedes(bundle, i, j) /\ Precedes(bundle, j, k)
                 => Precedes(bundle, i, k)
<1>1. ASSUME NEW i \in DOMAIN bundle
      PROVE  i \in Nat /\ Content[bundle[i]].subject \in Nat
  <2>1. i \in Nat /\ bundle[i] \in Certificates
    OBVIOUS
  <2>2. Content[bundle[i]] \in CertificateContent
    BY <2>1, ContentAssumption
  <2> QED BY <2>1, <2>2 DEF CertificateContent
<1> QED BY <1>1 DEF Precedes, SubjectOf

\* An index has a place, and one that precedes it has a smaller one.
LEMMA PlaceGrows ==
  ASSUME NEW bundle \in Seq(Certificates), NEW j \in DOMAIN bundle
  PROVE  /\ Place(bundle, j) \in DOMAIN bundle
         /\ \A i \in DOMAIN bundle :
               Precedes(bundle, i, j) => Place(bundle, i) < Place(bundle, j)
<1> DEFINE UpTo(i) == {k \in DOMAIN bundle : k = i \/ Precedes(bundle, k, i)}
           length == Len(bundle)
<1>1. DOMAIN bundle = 1 .. length /\ length \in Nat
  OBVIOUS
<1>2. IsFiniteSet(1 .. length) /\ Cardinality(1 .. length) = length
  <2> HIDE DEF length
  <2> QED BY <1>1, FS_Interval
<1>3. \A i \in DOMAIN bundle : UpTo(i) \in SUBSET (1 .. length) /\ i \in UpTo(i)
  BY <1>1
<1>4. \A i \in DOMAIN bundle : Place(bundle, i) = Cardinality(UpTo(i))
  BY DEF Place
<1>5. \A i, k \in DOMAIN bundle : Precedes(bundle, i, k) =>
         UpTo(i) \subseteq UpTo(k) /\ k \notin UpTo(i)
  BY PrecedesTotal
<1> HIDE DEF UpTo, length
<1>6. \A i \in DOMAIN bundle :
         /\ IsFiniteSet(UpTo(i)) /\ Cardinality(UpTo(i)) \in Nat
         /\ Cardinality(UpTo(i)) <= length
  BY <1>2, <1>3, FS_Subset, FS_CardinalityType
<1>7. Cardinality(UpTo(j)) # 0
  BY <1>3, <1>6, FS_EmptySet
<1>8. Place(bundle, j) \in DOMAIN bundle
  BY <1>1, <1>4, <1>6, <1>7
<1>9. ASSUME NEW i \in DOMAIN bundle, Precedes(bundle, i, j)
      PROVE  Cardinality(UpTo(i)) < Cardinality(UpTo(j))
  <2>1. UpTo(i) \in SUBSET UpTo(j) /\ UpTo(i) # UpTo(j)
    BY <1>3, <1>5, <1>9
  <2>2. /\ Cardinality(UpTo(i)) <= Cardinality(UpTo(j))
        /\ Cardinality(UpTo(i)) # Cardinality(UpTo(j))
    BY <1>6, <2>1, FS_Subset
  <2> QED BY <1>6, <2>2
<1> QED BY <1>4, <1>8, <1>9

\* Every place is that of exactly one index.
LEMMA PlaceTaken ==
  ASSUME NEW bundle \in Seq(Certificates)
  PROVE  /\ \A p \in DOMAIN bundle : \E i \in DOMAIN bundle : Place(bundle, i) = p
         /\ \A i, j \in DOMAIN bundle :
               Place(bundle, i) = Place(bundle, j) => i = j
<1> DEFINE length == Len(bundle)
           place == [i \in 1 .. length |-> Place(bundle, i)]
<1>1. DOMAIN bundle = 1 .. length /\ length \in Nat
  OBVIOUS
<1>2. \A i \in DOMAIN bundle : Place(bundle, i) \in 1 .. length
  BY <1>1, PlaceGrows
<1>3. \A i, j \in DOMAIN bundle : Place(bundle, i) = Place(bundle, j) => i = j
  <2>1. SUFFICES ASSUME NEW i \in DOMAIN bundle, NEW j \in DOMAIN bundle,
                        Place(bundle, i) = Place(bundle, j), i # j
                 PROVE  FALSE
    OBVIOUS
  <2>2. Place(bundle, i) < Place(bundle, j) \/ Place(bundle, j) < Place(bundle, i)
    BY <2>1, PrecedesTotal, PlaceGrows
  <2>3. Place(bundle, i) \in Int /\ Place(bundle, j) \in Int
    BY <1>2
  <2> QED BY <2>1, <2>2, <2>3
<1>4. place \in Injection(1 .. length, 1 .. length)
  BY <1>1, <1>2, <1>3 DEF Injection, IsInjective
<1>5. IsFiniteSet(1 .. length)
  BY <1>1, FS_Interval
<1> HIDE DEF length
<1>6. place \in Surjection(1 .. length, 1 .. length)
  BY <1>4, <1>5, FS_Injection
<1>7. \A p \in 1 .. length : \E i \in 1 .. length : place[i] = p
  BY <1>6 DEF Surjection
<1> QED BY <1>1, <1>3, <1>7

\* The certificate of each index is the reference at its place.
LEMMA RefsAtPlaces ==
  ASSUME NEW bundle \in Seq(Certificates)
  PROVE  /\ Refs(bundle) \in Seq(Certificates)
         /\ DOMAIN Refs(bundle) = DOMAIN bundle
         /\ \A i \in DOMAIN bundle :
               /\ Place(bundle, i) \in DOMAIN bundle
               /\ Refs(bundle)[Place(bundle, i)] = bundle[i]
<1> DEFINE at(p) == CHOOSE i \in DOMAIN bundle : Place(bundle, i) = p
<1>1. \A p \in DOMAIN bundle : at(p) \in DOMAIN bundle /\ Place(bundle, at(p)) = p
  BY PlaceTaken
<1>2. Refs(bundle) = [p \in DOMAIN bundle |-> bundle[at(p)]]
  BY DEF Refs
<1>3. \A i \in DOMAIN bundle :
         Place(bundle, i) \in DOMAIN bundle /\ at(Place(bundle, i)) = i
  BY <1>1, PlaceTaken, PlaceGrows
<1> HIDE DEF at
<1>4. DOMAIN bundle = 1 .. Len(bundle) /\ Len(bundle) \in Nat
      /\ \A i \in DOMAIN bundle : bundle[i] \in Certificates
  OBVIOUS
<1>5. Refs(bundle) \in [1 .. Len(bundle) -> Certificates]
  BY <1>1, <1>2, <1>4
<1> QED BY <1>2, <1>3, <1>4, <1>5

\* The references are the certificates of the bundle.
LEMMA RefsRange ==
  ASSUME NEW bundle \in Seq(Certificates)
  PROVE  Range(Refs(bundle)) = Range(bundle)
<1>1. \A p \in DOMAIN bundle : \E i \in DOMAIN bundle :
         Place(bundle, i) = p /\ Refs(bundle)[p] = bundle[i]
  BY PlaceTaken, RefsAtPlaces
<1> QED BY <1>1, RefsAtPlaces DEF Range

\* No two certificates of the bundle have the same subject.
DistinctSubjects(bundle) ==
    \A i, j \in DOMAIN bundle :
        SubjectOf(bundle[i]) = SubjectOf(bundle[j]) => i = j

Ascending(refs) ==
    \A p, q \in DOMAIN refs : p < q => SubjectOf(refs[p]) < SubjectOf(refs[q])

\* The references of such a bundle are sorted strictly.
LEMMA RefsAscending ==
  ASSUME NEW bundle \in Seq(Certificates), DistinctSubjects(bundle)
  PROVE  Ascending(Refs(bundle))
<1>1. SUFFICES ASSUME NEW p \in DOMAIN bundle, NEW q \in DOMAIN bundle, p < q
               PROVE  SubjectOf(Refs(bundle)[p]) < SubjectOf(Refs(bundle)[q])
  BY RefsAtPlaces DEF Ascending
<1>2. PICK i \in DOMAIN bundle : Place(bundle, i) = p
  BY PlaceTaken
<1>3. PICK j \in DOMAIN bundle : Place(bundle, j) = q
  BY PlaceTaken
<1>4. p \in Int /\ q \in Int /\ ~(q < p) /\ p # q
  BY <1>1
<1>5. Precedes(bundle, i, j)
  BY <1>2, <1>3, <1>4, PlaceGrows, PrecedesTotal
<1>6. SubjectOf(bundle[i]) < SubjectOf(bundle[j])
  BY <1>2, <1>3, <1>4, <1>5 DEF Precedes, DistinctSubjects, SubjectOf
<1> QED BY <1>2, <1>3, <1>6, RefsAtPlaces

\* A list that is sorted strictly is told by what is in it.  At the least place
\* at which two of them differ each would have a smaller subject than the other.
LEMMA AscendingUnique ==
  ASSUME NEW r \in Seq(Certificates), NEW s \in Seq(Certificates),
         Ascending(r), Ascending(s), Range(r) = Range(s)
  PROVE  r = s
<1> DEFINE m == Len(r)
           n == Len(s)
<1>1. DOMAIN r = 1 .. m /\ m \in Nat /\ DOMAIN s = 1 .. n /\ n \in Nat
  OBVIOUS
<1>2. /\ \A p \in 1 .. m : r[p] \in Range(s)
      /\ \A q \in 1 .. n : s[q] \in Range(r)
  BY <1>1 DEF Range
<1>3. /\ \A p \in 1 .. m : \E q \in 1 .. n : s[q] = r[p]
      /\ \A q \in 1 .. n : \E p \in 1 .. m : r[p] = s[q]
  BY <1>1, <1>2 DEF Range
<1>4. /\ \A p \in 1 .. m : SubjectOf(r[p]) \in Nat
      /\ \A q \in 1 .. n : SubjectOf(s[q]) \in Nat
  <2>1. \A c \in Certificates : SubjectOf(c) \in Nat
    BY ContentAssumption DEF CertificateContent, SubjectOf
  <2> QED BY <2>1
<1>5. /\ \A p, q \in 1 .. m : p < q => SubjectOf(r[p]) < SubjectOf(r[q])
      /\ \A p, q \in 1 .. n : p < q => SubjectOf(s[p]) < SubjectOf(s[q])
  BY <1>1 DEF Ascending
<1> HIDE DEF m, n
<1> DEFINE differ == {p \in 1 .. m : p <= n /\ r[p] # s[p]}
<1>6. differ = {}
  <2>1. SUFFICES ASSUME differ # {} PROVE FALSE
    OBVIOUS
  <2>2. PICK p \in differ : \A other \in differ : p <= other
    <3>1. differ \subseteq Nat
      OBVIOUS
    <3> HIDE DEF differ
    <3> QED BY <2>1, <3>1, LeastNatural
  <2>3. /\ p \in 1 .. m /\ p \in 1 .. n /\ r[p] # s[p]
        /\ \A k \in 1 .. m : k < p => r[k] = s[k]
    <3>1. p \in 1 .. m /\ p \in 1 .. n /\ r[p] # s[p]
      BY <1>1
    <3>2. ASSUME NEW k \in 1 .. m, k < p, r[k] # s[k] PROVE FALSE
      <4>1. k \in differ
        BY <1>1, <3>1, <3>2
      <4> QED BY <2>2, <3>1, <3>2, <4>1
    <3> QED BY <3>1, <3>2
  <2> HIDE DEF differ
  <2>4. PICK q \in 1 .. n : s[q] = r[p]
    BY <1>3, <2>3
  <2>5. PICK k \in 1 .. m : r[k] = s[p]
    BY <1>3, <2>3
  <2>6. ~(q < p)
    <3>1. SUFFICES ASSUME q < p PROVE FALSE
      OBVIOUS
    <3>2. q \in 1 .. m
      BY <2>3, <3>1, <1>1
    <3>3. r[q] = r[p] /\ SubjectOf(r[q]) < SubjectOf(r[p])
      BY <1>5, <2>3, <2>4, <3>1, <3>2
    <3> QED BY <1>4, <2>3, <3>3
  <2>7. ~(k < p)
    <3>1. SUFFICES ASSUME k < p PROVE FALSE
      OBVIOUS
    <3>2. k \in 1 .. n
      BY <2>3, <3>1, <1>1
    <3>3. s[k] = s[p] /\ SubjectOf(s[k]) < SubjectOf(s[p])
      BY <1>5, <2>3, <2>5, <3>1, <3>2
    <3> QED BY <1>4, <2>3, <3>3
  <2>8. p < q /\ p < k
    BY <1>1, <2>3, <2>4, <2>5, <2>6, <2>7
  <2>9. SubjectOf(s[p]) < SubjectOf(r[p]) /\ SubjectOf(r[p]) < SubjectOf(s[p])
    BY <1>5, <2>3, <2>4, <2>5, <2>8
  <2> QED BY <1>4, <2>3, <2>9
<1>7. \A p \in 1 .. m : p <= n => r[p] = s[p]
  BY <1>6
<1> HIDE DEF differ
<1>8. ~(m < n)
  <2>1. SUFFICES ASSUME m < n PROVE FALSE
    OBVIOUS
  <2>2. m + 1 \in 1 .. n
    BY <1>1, <2>1
  <2>3. PICK k \in 1 .. m : r[k] = s[m + 1]
    BY <1>3, <2>2
  <2>4. k \in 1 .. n /\ k < m + 1 /\ s[k] = r[k]
    BY <1>1, <1>7, <2>1
  <2>5. SubjectOf(s[k]) < SubjectOf(s[m + 1])
    BY <1>5, <2>2, <2>4
  <2> QED BY <1>4, <2>2, <2>3, <2>4, <2>5
<1>9. ~(n < m)
  <2>1. SUFFICES ASSUME n < m PROVE FALSE
    OBVIOUS
  <2>2. n + 1 \in 1 .. m
    BY <1>1, <2>1
  <2>3. PICK k \in 1 .. n : s[k] = r[n + 1]
    BY <1>3, <2>2
  <2>4. k \in 1 .. m /\ k < n + 1 /\ s[k] = r[k]
    BY <1>1, <1>7, <2>1
  <2>5. SubjectOf(r[k]) < SubjectOf(r[n + 1])
    BY <1>5, <2>2, <2>4
  <2> QED BY <1>4, <2>2, <2>3, <2>4, <2>5
<1>10. m = n /\ \A p \in 1 .. m : r[p] = s[p]
  BY <1>1, <1>7, <1>8, <1>9
<1> QED BY <1>10 DEF m, n

\* The references, and so the fingerprint, of a bundle do not depend on the order
\* in which its certificates are sent.
THEOREM SameReferences ==
  ASSUME NEW one \in Seq(Certificates), NEW other \in Seq(Certificates),
         DistinctSubjects(one), DistinctSubjects(other),
         Range(one) = Range(other)
  PROVE  Refs(one) = Refs(other)
<1>1. Refs(one) \in Seq(Certificates) /\ Refs(other) \in Seq(Certificates)
  BY RefsAtPlaces
<1>2. Range(Refs(one)) = Range(Refs(other))
  BY RefsRange
<1> QED BY <1>1, <1>2, RefsAscending, AscendingUnique

-----------------------------------------------------------------------------
(* The inductive invariant.                                                *)

\* Of the rows of anchors: which are there at all, and the state that a
\* revocation leaves.
AnchorsAreSound ==
    \A id \in Anchors :
        LET row == anchors[id]
        IN  /\ row.exists => row.certificate \in Certificates
            /\ ~row.exists => row = NoAnchorRow
            /\ row.revokedAt # 0 => row.certificateState = "revoked"

\* A chain, stored or about to be, whose bundle has been verified against an
\* anchor that is in the table.
Sound(table, row) ==
    /\ row.anchor \in Anchors /\ table[row.anchor].exists
    /\ row.bundle \in Bundles /\ row.bundle \in Seq(Certificates)
    /\ LET certificate == table[row.anchor].certificate
       IN  /\ row.validFrom = Window(certificate, row.bundle).from
           /\ row.validTo = Window(certificate, row.bundle).to
           /\ \E at \in Int : ValidateChain(certificate, EncodePEM(row.bundle), at)

ChainsAreSound ==
    \A id \in Chains :
        /\ chains[id].chainState # "absent" => Sound(anchors, chains[id])
        /\ chains[id].chainState = "absent" => chains[id].bundle = << >>

\* The chains that an import has stored have fingerprints of their own.
Stored(id) == id \notin DOMAIN FirstChains /\ chains[id].chainState # "absent"

FingerprintsAreUnique ==
    /\ \A id \in Chains :
          Stored(id) => chains[id].fingerprint = ChainFingerprint(chains[id].bundle)
    /\ \A id, otherID \in Chains :
          Stored(id) /\ Stored(otherID)
          /\ chains[id].fingerprint = chains[otherID].fingerprint
          => id = otherID

\* What is known of a handler that is about to commit, whatever has been
\* committed since it read its row.
AnchorImport(request) ==
    /\ request.row = NoAnchorRow
    /\ \E certificate \in Certificates, now \in Instants :
          request.want = Imported(certificate, now)

ChainImport(table, request) ==
    /\ request.row = NoChainRow
    /\ request.want \in ChainRow /\ request.want.chainState = "validated"
    /\ request.want.fingerprint = ChainFingerprint(request.want.bundle)
    /\ Sound(table, request.want)

LifecycleChange(table, request) ==
    /\ request.id \in Anchors /\ table[request.id].exists
    /\ request.row \in AnchorRow /\ Allowed(request.row, request.op)
    /\ \E now \in Instants : request.want = Lifecycle(request.row, request.op, now)

Transition(request) ==
    /\ request.id \in Chains
    /\ request.row \in ChainRow /\ request.row.chainState # "absent"
    /\ \E to \in ChainStates :
          /\ CanTransitionChain(request.row.chainState, to)
          /\ request.want = [request.row EXCEPT !.chainState = to]

Grounded(table, request) ==
    request.pc = "commit" =>
        /\ request.user \in Users
        /\ request.op = "import" /\ request.id \in Anchors => AnchorImport(request)
        /\ request.op = "import" /\ request.id \in Chains => ChainImport(table, request)
        /\ request.op \in {"revoke", "archive", "restore"} => LifecycleChange(table, request)
        /\ request.op = "transition" => Transition(request)

RequestsAreGrounded == \A w \in Workers : Grounded(anchors, requests[w])

InventoryInv ==
    /\ TypeOK
    /\ AnchorsAreSound
    /\ ChainsAreSound
    /\ FingerprintsAreUnique
    /\ RequestsAreGrounded

-----------------------------------------------------------------------------
(* Types.                                                                  *)

\* The row of a code that is not used.
LEMMA NoRowTypes == NoAnchorRow \in AnchorRow /\ NoChainRow \in ChainRow
<1>1. << >> \in Seq(Certificates)
  OBVIOUS
<1>2. Refs(<< >>) \in Seq(Certificates)
  BY <1>1, RefsAtPlaces
<1> QED
  BY <1>1, <1>2 DEF NoAnchorRow, AnchorRow, NoChainRow, ChainRow, CertificateStates,
         ChainFingerprint

\* A goroutine that is idle, responds or has answered commits nothing.
LEMMA IdleType ==
  /\ Idle \in Request /\ Grounded(anchors, Idle)
  /\ \A answer \in Answers :
        LET request == [Idle EXCEPT !.pc = "answered", !.answer = answer]
        IN  request \in Request /\ Grounded(anchors, request)
  /\ \A op \in Operations :
        LET request == [Idle EXCEPT !.pc = "respond", !.op = op]
        IN  request \in Request /\ Grounded(anchors, request)
<1>1. Idle.id \in Anchors \cup Chains
  BY NullAssumption DEF Idle
<1>2. NoAnchorRow \in Rows
  BY NoRowTypes DEF Rows
<1>3. "import" \in Operations /\ "none" \in Answers
  BY DEF Operations, Answers
<1>4. Idle \in Request /\ Idle.pc = "idle"
  BY <1>1, <1>2, <1>3 DEF Idle, Request
<1>5. Grounded(anchors, Idle)
  BY <1>4 DEF Grounded
<1>6. ASSUME NEW answer \in Answers
      PROVE  LET request == [Idle EXCEPT !.pc = "answered", !.answer = answer]
             IN  request \in Request /\ request.pc = "answered"
  BY <1>4 DEF Request
<1>7. ASSUME NEW op \in Operations
      PROVE  LET request == [Idle EXCEPT !.pc = "respond", !.op = op]
             IN  request \in Request /\ request.pc = "respond"
  BY <1>4 DEF Request
<1> QED BY <1>4, <1>5, <1>6, <1>7 DEF Grounded

\* A certificate has a state, whatever the time.
LEMMA StateType ==
  ASSUME NEW now, NEW notAfter, NEW revoked
  PROVE  CalculateCertificateState(now, notAfter, revoked) \in CertificateStates
  BY DEF CalculateCertificateState, CertificateStates

\* An imported anchor is a row.
LEMMA ImportedType ==
  ASSUME NEW certificate \in Certificates, NEW now
  PROVE  /\ Imported(certificate, now) \in AnchorRow
         /\ Imported(certificate, now).exists
         /\ Imported(certificate, now).certificate = certificate
         /\ Imported(certificate, now).revokedAt = 0
         /\ Imported(certificate, now).archived = FALSE
<1>1. CalculateCertificateState(now, Content[certificate].notAfter, FALSE)
        \in CertificateStates
  BY StateType
<1> QED BY <1>1, NoRowTypes DEF Imported, AnchorRow, NoAnchorRow

\* What an action sets in a row of an anchor.
LEMMA LifecycleSets ==
  ASSUME NEW row \in AnchorRow, NEW now \in Nat
  PROVE  /\ Lifecycle(row, "revoke", now).revokedAt = now
         /\ Lifecycle(row, "revoke", now).certificateState = "revoked"
         /\ Lifecycle(row, "archive", now).archived = TRUE
         /\ Lifecycle(row, "restore", now).archived = FALSE
<1>1. /\ Lifecycle(row, "revoke", now) =
           [row EXCEPT !.revokedAt = now, !.certificateState = "revoked"]
      /\ Lifecycle(row, "archive", now) = [row EXCEPT !.archived = TRUE]
      /\ Lifecycle(row, "restore", now) = [row EXCEPT !.archived = FALSE]
  BY DEF Lifecycle
<1> QED BY <1>1 DEF AnchorRow, CertificateStates

\* What it leaves: a row of the same anchor, that is revoked no less.
LEMMA LifecycleKeeps ==
  ASSUME NEW row \in AnchorRow, NEW now \in Nat
  PROVE  \A action \in {"revoke", "archive", "restore"} :
            /\ Lifecycle(row, action, now) \in AnchorRow
            /\ Lifecycle(row, action, now).exists = row.exists
            /\ Lifecycle(row, action, now).certificate = row.certificate
            /\ action = "revoke" =>
                  Lifecycle(row, action, now).archived = row.archived
            /\ action # "revoke" =>
                  /\ Lifecycle(row, action, now).revokedAt = row.revokedAt
                  /\ Lifecycle(row, action, now).certificateState =
                        row.certificateState
<1>1. /\ Lifecycle(row, "revoke", now) =
           [row EXCEPT !.revokedAt = now, !.certificateState = "revoked"]
      /\ Lifecycle(row, "archive", now) = [row EXCEPT !.archived = TRUE]
      /\ Lifecycle(row, "restore", now) = [row EXCEPT !.archived = FALSE]
  BY DEF Lifecycle
<1>2. /\ Lifecycle(row, "revoke", now) \in AnchorRow
      /\ Lifecycle(row, "revoke", now).exists = row.exists
      /\ Lifecycle(row, "revoke", now).certificate = row.certificate
      /\ Lifecycle(row, "revoke", now).archived = row.archived
  BY <1>1 DEF AnchorRow, CertificateStates
<1>3. /\ Lifecycle(row, "archive", now) \in AnchorRow
      /\ Lifecycle(row, "archive", now).exists = row.exists
      /\ Lifecycle(row, "archive", now).certificate = row.certificate
      /\ Lifecycle(row, "archive", now).revokedAt = row.revokedAt
      /\ Lifecycle(row, "archive", now).certificateState = row.certificateState
  BY <1>1 DEF AnchorRow
<1>4. /\ Lifecycle(row, "restore", now) \in AnchorRow
      /\ Lifecycle(row, "restore", now).exists = row.exists
      /\ Lifecycle(row, "restore", now).certificate = row.certificate
      /\ Lifecycle(row, "restore", now).revokedAt = row.revokedAt
      /\ Lifecycle(row, "restore", now).certificateState = row.certificateState
  BY <1>1 DEF AnchorRow
<1> QED BY <1>2, <1>3, <1>4

\* A verified bundle makes a row.
LEMMA ValidatedType ==
  ASSUME NEW anchor \in Anchors, NEW certificate \in Certificates,
         NEW bundle \in Seq(Certificates)
  PROVE  /\ Validated(anchor, certificate, bundle) \in ChainRow
         /\ Len(bundle) = 1 =>
              seedChain(anchor, certificate, bundle) =
                [Validated(anchor, certificate, bundle)
                    EXCEPT !.fingerprint = seedFingerprint(bundle)]
         /\ seedFingerprint(bundle) \in [format : {"joined", "printed"},
                                         refs : Seq(Certificates)]
<1>1. Window(certificate, bundle) \in [from : Int, to : Int]
  BY WindowBounds
<1>2. Refs(bundle) \in Seq(Certificates)
  BY RefsAtPlaces
<1>3. Validated(anchor, certificate, bundle) \in ChainRow
  BY <1>1, <1>2 DEF Validated, ChainRow, ChainStates, ChainFingerprint
<1>4. Len(bundle) = 1 =>
              seedChain(anchor, certificate, bundle) =
                [Validated(anchor, certificate, bundle)
                    EXCEPT !.fingerprint = seedFingerprint(bundle)]
  BY SeedWindowIsWindow DEF Validated, seedChain
<1> QED
  BY <1>2, <1>3, <1>4 DEF seedFingerprint

\* Every time is an integer past 0.
LEMMA InstantsType ==
  Instants \subseteq Nat /\ Instants \subseteq Int /\ 0 \notin Instants
  BY TimeAssumption

-----------------------------------------------------------------------------
(* The initial states.                                                     *)

\* The seeded data satisfies the invariant.
LEMMA InitSound == Init => InventoryInv
<1> SUFFICES ASSUME Init PROVE InventoryInv
  OBVIOUS
<1>1. clock \in Instants
  <2>1. PICK start \in Instants : \A other \in Instants : start <= other
    BY InstantsType, TimeAssumption, LeastNatural
  <2> QED BY <2>1 DEF Init, Earliest
<1>2. ASSUME NEW id \in Anchors
      PROVE  /\ anchors[id] \in AnchorRow
             /\ anchors[id].exists => anchors[id].certificate \in Certificates
             /\ ~anchors[id].exists => anchors[id] = NoAnchorRow
             /\ anchors[id].revokedAt = 0
             /\ id \in DOMAIN FirstAnchors =>
                   anchors[id].exists /\ anchors[id].certificate = FirstAnchors[id]
  <2>1. CASE id \in DOMAIN FirstAnchors
    <3>1. anchors[id] = Imported(FirstAnchors[id], clock)
      BY <2>1 DEF Init
    <3>2. FirstAnchors[id] \in Certificates
      BY <2>1, FirstAssumption
    <3> DEFINE certificate == FirstAnchors[id]
    <3> HIDE DEF certificate
    <3>3. /\ Imported(certificate, clock) \in AnchorRow
          /\ Imported(certificate, clock).exists
          /\ Imported(certificate, clock).certificate = certificate
          /\ Imported(certificate, clock).revokedAt = 0
      BY <3>2, ImportedType DEF certificate
    <3>4. /\ anchors[id] \in AnchorRow /\ anchors[id].exists
          /\ anchors[id].certificate = certificate /\ anchors[id].revokedAt = 0
      BY <3>1, <3>3, Zenon DEF certificate
    <3> QED BY <3>2, <3>4, Zenon DEF certificate
  <2>2. CASE id \notin DOMAIN FirstAnchors
    <3>1. anchors[id] = NoAnchorRow
      BY <2>2 DEF Init
    <3>2. ~NoAnchorRow.exists /\ NoAnchorRow.revokedAt = 0
      BY DEF NoAnchorRow
    <3> QED BY <2>2, <3>1, <3>2, NoRowTypes
  <2> QED BY <2>1, <2>2
<1>3. ASSUME NEW id \in Chains
      PROVE  /\ chains[id] \in ChainRow
             /\ chains[id].chainState # "absent" => Sound(anchors, chains[id])
             /\ chains[id].chainState = "absent" => chains[id].bundle = << >>
             /\ ~Stored(id)
  <2>1. CASE id \in DOMAIN FirstChains
    <3> DEFINE anchor == FirstChains[id].anchor
               bundle == FirstChains[id].bundle
               certificate == FirstAnchors[anchor]
    <3>1. anchor \in DOMAIN FirstAnchors /\ anchor \in Anchors
          /\ bundle \in Seq(Certificates) /\ certificate \in Certificates
          /\ bundle \in Bundles
      BY <2>1, FirstAssumption DEF Bundles
    <3>2. /\ Len(bundle) = 1
          /\ ValidateChain(certificate, EncodePEM(bundle), clock)
      BY <2>1, SeedAssumption DEF Init
    <3>3. chains[id] = seedChain(anchor, certificate, bundle)
      BY <2>1 DEF Init
    <3>4. anchors[anchor].exists /\ anchors[anchor].certificate = certificate
      BY <3>1, <1>2
    <3> HIDE DEF anchor, bundle, certificate
    <3>5. seedChain(anchor, certificate, bundle) =
            [Validated(anchor, certificate, bundle)
                EXCEPT !.fingerprint = seedFingerprint(bundle)]
      BY <3>1, <3>2, ValidatedType
    <3>6. Validated(anchor, certificate, bundle) \in ChainRow
          /\ seedFingerprint(bundle) \in
                [format : {"joined", "printed"}, refs : Seq(Certificates)]
      BY <3>1, ValidatedType
    <3>7. chains[id] \in ChainRow
      BY <3>3, <3>5, <3>6 DEF ChainRow
    <3>8. /\ chains[id].anchor = anchor /\ chains[id].bundle = bundle
          /\ chains[id].chainState = "validated"
          /\ chains[id].validFrom = Window(certificate, bundle).from
          /\ chains[id].validTo = Window(certificate, bundle).to
      BY <3>3, <3>1, <3>2, SeedWindowIsWindow DEF seedChain
    <3>9. clock \in Int
      BY <1>1, InstantsType
    <3> QED BY <2>1, <3>1, <3>2, <3>4, <3>7, <3>8, <3>9 DEF Sound, Stored
  <2>2. CASE id \notin DOMAIN FirstChains
    <3>1. chains[id] = NoChainRow
      BY <2>2 DEF Init
    <3>2. NoChainRow.chainState = "absent" /\ NoChainRow.bundle = << >>
      BY DEF NoChainRow
    <3> QED BY <3>1, <3>2, NoRowTypes DEF Stored
  <2> QED BY <2>1, <2>2
<1>4. \A w \in Workers : requests[w] = Idle
  BY DEF Init
<1>5. Idle \in Request /\ Grounded(anchors, Idle)
  BY IdleType
<1>6. TypeOK
  <2>1. anchors \in [Anchors -> AnchorRow]
    BY <1>2 DEF Init
  <2>2. chains \in [Chains -> ChainRow]
    BY <1>3 DEF Init
  <2>3. trail \in [Anchors \cup Chains -> Seq(Entry)]
    BY DEF Init
  <2>4. requests \in [Workers -> Request]
    BY <1>5 DEF Init
  <2>5. writes \in Nat
    BY DEF Init
  <2> QED BY <1>1, <2>1, <2>2, <2>3, <2>4, <2>5 DEF TypeOK
<1>7. AnchorsAreSound
  BY <1>2 DEF AnchorsAreSound
<1>8. ChainsAreSound /\ FingerprintsAreUnique
  BY <1>3 DEF ChainsAreSound, FingerprintsAreUnique
<1>9. RequestsAreGrounded
  BY <1>4, <1>5 DEF RequestsAreGrounded
<1> QED BY <1>6, <1>7, <1>8, <1>9 DEF InventoryInv

-----------------------------------------------------------------------------
(* The steps.  Each is one of four commits or leaves the tables alone.     *)

\* Nothing is committed; the clock may move on.
Quiet ==
    /\ UNCHANGED <<anchors, chains, trail, writes>>
    /\ clock' \in Instants /\ clock <= clock'
    /\ requests' \in [Workers -> Request]
    /\ \A w \in Workers : Grounded(anchors, requests'[w])

StoresAnchor(w) ==
    LET request == requests[w]
    IN  /\ Pending(w, "import", Anchors)
        /\ ~AnchorTaken(request.id, request.want.certificate)
        /\ anchors' = [anchors EXCEPT ![request.id] = request.want]
        /\ Record(w)
        /\ UNCHANGED chains

StoresChain(w) ==
    LET request == requests[w]
    IN  /\ Pending(w, "import", Chains)
        /\ ~ChainTaken(request.id, request.want.fingerprint)
        /\ chains' = [chains EXCEPT ![request.id] = request.want]
        /\ Record(w)
        /\ UNCHANGED anchors

MovesChain(w) ==
    LET request == requests[w]
    IN  /\ Pending(w, "transition", Chains)
        /\ Matches(chains[request.id], request.row.chainState)
        /\ chains' = [chains EXCEPT ![request.id].chainState =
                         request.want.chainState]
        /\ Record(w)
        /\ UNCHANGED anchors

Commits(w) == StoresAnchor(w) \/ CommitLifecycle(w) \/ StoresChain(w) \/ MovesChain(w)

\* A step that only gives a goroutine another grounded request.
LEMMA BecomeQuiet ==
  ASSUME InventoryInv, NEW w \in Workers, NEW request \in Request,
         Grounded(anchors, request), Become(w, request)
  PROVE  Quiet
<1>1. requests' = [requests EXCEPT ![w] = request]
      /\ UNCHANGED <<anchors, chains, trail, clock, writes>>
  BY DEF Become
<1>2. requests' \in [Workers -> Request]
  BY <1>1 DEF InventoryInv, TypeOK
<1>3. \A v \in Workers : Grounded(anchors, requests'[v])
  BY <1>1 DEF InventoryInv, TypeOK, RequestsAreGrounded
<1>4. clock' \in Instants /\ clock <= clock'
  BY <1>1, InstantsType DEF InventoryInv, TypeOK
<1> QED BY <1>1, <1>2, <1>3, <1>4 DEF Quiet

\* So is a refusal, or any other answer.
LEMMA RefuseQuiet ==
  ASSUME InventoryInv, NEW w \in Workers, NEW answer \in Answers, Refuse(w, answer)
  PROVE  Quiet
<1> DEFINE request == [Idle EXCEPT !.pc = "answered", !.answer = answer]
<1>1. request \in Request /\ Grounded(anchors, request)
  BY IdleType
<1>2. Become(w, request)
  BY DEF Refuse
<1> HIDE DEF request
<1> QED BY <1>1, <1>2, BecomeQuiet

\* What a handler prepares.
Prepared(op, user, id, row, want) ==
    [Idle EXCEPT !.pc = "commit", !.op = op, !.user = user,
                 !.id = id, !.row = row, !.want = want]

\* A handler that has prepared its commit holds a well-typed request.
LEMMA PreparedType ==
  ASSUME NEW op \in Operations, NEW user \in Users, NEW id \in Anchors \cup Chains,
         NEW row \in Rows, NEW want \in Rows
  PROVE  LET request == Prepared(op, user, id, row, want)
         IN  /\ request \in Request
             /\ request.pc = "commit" /\ request.op = op /\ request.user = user
             /\ request.id = id /\ request.row = row /\ request.want = want
<1>1. "none" \in Answers
  BY DEF Answers
<1> QED BY <1>1 DEF Prepared, Idle, Request

\* It is quiet as well.
LEMMA PrepareQuiet ==
  ASSUME InventoryInv, NEW w \in Workers, NEW op \in Operations,
         NEW user \in Users, NEW id \in Anchors \cup Chains,
         NEW row \in Rows, NEW want \in Rows,
         Grounded(anchors, Prepared(op, user, id, row, want)),
         Prepare(w, op, user, id, row, want)
  PROVE  Quiet
<1>1. Prepared(op, user, id, row, want) \in Request
  BY PreparedType
<1>2. Become(w, Prepared(op, user, id, row, want))
  BY DEF Prepare, Prepared
<1> QED BY <1>1, <1>2, BecomeQuiet

\* The read of a handler that imports an anchor is quiet.
LEMMA ValidateAnchorQuiet ==
  ASSUME InventoryInv, NEW w \in Workers, ValidateAnchor(w)
  PROVE  Quiet
<1>1. PICK user \in Users, asked \in AnchorImports :
         LET certificate == ParseCertificatePEM(asked.text)
             valid == /\ ParsesAsCertificate(asked.text)
                      /\ ValidateTrustAnchor(certificate, clock)
         IN  \/ ~valid /\ Refuse(w, "invalid")
             \/ valid /\ Prepare(w, "import", user, asked.id, NoAnchorRow,
                                 Imported(certificate, clock))
  BY DEF ValidateAnchor
<1>2. CASE Refuse(w, "invalid")
  BY <1>2, RefuseQuiet DEF Answers
<1> DEFINE certificate == ParseCertificatePEM(asked.text)
<1>3. CASE /\ ParsesAsCertificate(asked.text)
           /\ Prepare(w, "import", user, asked.id, NoAnchorRow,
                      Imported(certificate, clock))
  <2>1. certificate \in Certificates
    BY <1>3 DEF ParsesAsCertificate, ParseCertificatePEM
  <2> HIDE DEF certificate
  <2>2. Imported(certificate, clock) \in Rows /\ NoAnchorRow \in Rows
    BY <2>1, ImportedType, NoRowTypes DEF Rows
  <2>3. clock \in Instants
    BY DEF InventoryInv, TypeOK
  <2>4. "import" \in Operations /\ asked.id \in Anchors /\ asked.id \notin Chains
    BY ImportsAssumption, NullAssumption DEF Operations
  <2> DEFINE request ==
        Prepared("import", user, asked.id, NoAnchorRow, Imported(certificate, clock))
  <2>5. /\ request.op = "import" /\ request.user = user /\ request.id = asked.id
        /\ request.row = NoAnchorRow /\ request.want = Imported(certificate, clock)
    BY <2>2, <2>4, PreparedType
  <2> HIDE DEF request
  <2>6. AnchorImport(request)
    BY <2>1, <2>3, <2>5 DEF AnchorImport
  <2>7. Grounded(anchors, request)
    BY <2>4, <2>5, <2>6 DEF Grounded
  <2> QED BY <1>3, <2>2, <2>4, <2>7, PrepareQuiet DEF request
<1> QED BY <1>1, <1>2, <1>3

\* So is the read of a lifecycle request.
LEMMA LoadForLifecycleQuiet ==
  ASSUME InventoryInv, NEW w \in Workers, LoadForLifecycle(w)
  PROVE  Quiet
<1>1. PICK user \in Users, id \in Anchors, action \in {"revoke", "archive", "restore"} :
         LET row == anchors[id]
         IN  \/ \E answer \in Answers : Refuse(w, answer)
             \/ /\ row.exists /\ Allowed(row, action)
                /\ Prepare(w, action, user, id, row, Lifecycle(row, action, clock))
  BY DEF LoadForLifecycle, Answers
<1>2. CASE \E answer \in Answers : Refuse(w, answer)
  BY <1>2, RefuseQuiet
<1> DEFINE row == anchors[id]
           want == Lifecycle(row, action, clock)
<1>3. CASE /\ row.exists /\ Allowed(row, action)
           /\ Prepare(w, action, user, id, row, want)
  <2>1. row \in AnchorRow /\ clock \in Instants /\ clock \in Nat
    BY InstantsType DEF InventoryInv, TypeOK
  <2>2. want \in AnchorRow
    BY <2>1, LifecycleKeeps
  <2>3. row \in Rows /\ want \in Rows
    BY <2>1, <2>2 DEF Rows
  <2>4. action \in Operations /\ id \in Anchors \cup Chains
    BY DEF Operations
  <2> DEFINE request == Prepared(action, user, id, row, want)
  <2>5. /\ request.op = action /\ request.user = user /\ request.id = id
        /\ request.row = row /\ request.want = want
    BY <2>3, <2>4, PreparedType
  <2> HIDE DEF request
  <2>6. LifecycleChange(anchors, request)
    BY <1>3, <2>1, <2>5, Zenon DEF LifecycleChange
  <2>7. Grounded(anchors, request)
    BY <2>5, <2>6 DEF Grounded
  <2> QED BY <1>3, <2>3, <2>4, <2>7, PrepareQuiet DEF request
<1> QED BY <1>1, <1>2, <1>3

\* So is the read of a handler that imports a chain: what it prepares has been
\* verified against the anchor.
LEMMA LoadForChainQuiet ==
  ASSUME InventoryInv, NEW w \in Workers, LoadForChain(w)
  PROVE  Quiet
<1>1. PICK user \in Users, asked \in ChainImports :
         LET row == anchors[asked.anchor]
         IN  \/ \E answer \in Answers : Refuse(w, answer)
             \/ /\ row.exists /\ ValidateChain(row.certificate, asked.text, clock)
                /\ Prepare(w, "import", user, asked.id, NoChainRow,
                      Validated(asked.anchor, row.certificate,
                                ParseCertificateBundle(asked.text)))
  BY DEF LoadForChain, Answers
<1>2. CASE \E answer \in Answers : Refuse(w, answer)
  BY <1>2, RefuseQuiet
<1> DEFINE row == anchors[asked.anchor]
           bundle == ParseCertificateBundle(asked.text)
           want == Validated(asked.anchor, row.certificate, bundle)
<1>3. CASE /\ row.exists /\ ValidateChain(row.certificate, asked.text, clock)
           /\ Prepare(w, "import", user, asked.id, NoChainRow, want)
  <2>1. asked.id \in Chains /\ asked.anchor \in Anchors /\ asked.text \in Text
        /\ asked.id \notin Anchors
    BY ImportsAssumption, NullAssumption
  <2>2. row.certificate \in Certificates
    BY <1>3, <2>1 DEF InventoryInv, AnchorsAreSound
  <2>3. ParsesAsBundle(asked.text)
    BY <1>3 DEF ValidateChain
  <2>4. bundle \in Seq(Certificates) /\ asked.text = EncodePEM(bundle)
    BY <2>1, <2>3, ParsedIsEncoded
  <2>5. bundle \in Bundles
    BY DEF Bundles
  <2>6. ValidateChain(row.certificate, EncodePEM(bundle), clock)
    BY <1>3, <2>4
  <2>7. clock \in Int
    BY InstantsType DEF InventoryInv, TypeOK
  <2> HIDE DEF bundle
  <2>8. want \in ChainRow
    BY <2>1, <2>2, <2>4, ValidatedType
  <2>9. /\ want.anchor = asked.anchor /\ want.bundle = bundle
        /\ want.chainState = "validated"
        /\ want.fingerprint = ChainFingerprint(bundle)
        /\ want.validFrom = Window(row.certificate, bundle).from
        /\ want.validTo = Window(row.certificate, bundle).to
    BY DEF Validated
  <2> HIDE DEF want
  <2>10. Sound(anchors, want)
    BY <1>3, <2>1, <2>4, <2>5, <2>6, <2>7, <2>9, Zenon DEF Sound
  <2>11. want \in Rows /\ NoChainRow \in Rows
    BY <2>8, NoRowTypes DEF Rows
  <2>12. "import" \in Operations /\ asked.id \in Anchors \cup Chains
    BY <2>1 DEF Operations
  <2> DEFINE request == Prepared("import", user, asked.id, NoChainRow, want)
  <2>13. /\ request.op = "import" /\ request.user = user /\ request.id = asked.id
         /\ request.row = NoChainRow /\ request.want = want
    BY <2>11, <2>12, PreparedType
  <2> HIDE DEF request
  <2>14. ChainImport(anchors, request)
    BY <2>8, <2>9, <2>10, <2>13 DEF ChainImport
  <2>15. Grounded(anchors, request)
    BY <2>1, <2>13, <2>14 DEF Grounded
  <2> QED BY <1>3, <2>11, <2>12, <2>15, PrepareQuiet DEF request
<1> QED BY <1>1, <1>2, <1>3 DEF want, bundle

\* So is the read of a handler that moves a chain.
LEMMA LoadForTransitionQuiet ==
  ASSUME InventoryInv, NEW w \in Workers, LoadForTransition(w)
  PROVE  Quiet
<1>1. PICK user \in Users, id \in Chains,
           to \in {"validated", "deprecated", "revoked"} :
         LET row == chains[id]
         IN  \/ \E answer \in Answers : Refuse(w, answer)
             \/ /\ row.chainState # "absent" /\ CanTransitionChain(row.chainState, to)
                /\ Prepare(w, "transition", user, id, row, [row EXCEPT !.chainState = to])
  BY DEF LoadForTransition, Answers
<1>2. CASE \E answer \in Answers : Refuse(w, answer)
  BY <1>2, RefuseQuiet
<1> DEFINE row == chains[id]
           want == [row EXCEPT !.chainState = to]
<1>3. CASE /\ row.chainState # "absent" /\ CanTransitionChain(row.chainState, to)
           /\ Prepare(w, "transition", user, id, row, want)
  <2>1. row \in ChainRow
    BY DEF InventoryInv, TypeOK
  <2>2. want \in ChainRow /\ to \in ChainStates
    BY <2>1 DEF ChainRow, ChainStates
  <2>3. row \in Rows /\ want \in Rows
    BY <2>1, <2>2 DEF Rows
  <2>4. "transition" \in Operations /\ id \in Anchors \cup Chains
    BY DEF Operations
  <2> DEFINE request == Prepared("transition", user, id, row, want)
  <2>5. /\ request.op = "transition" /\ request.user = user /\ request.id = id
        /\ request.row = row /\ request.want = want
    BY <2>3, <2>4, PreparedType
  <2> HIDE DEF request
  <2>6. Transition(request)
    BY <1>3, <2>1, <2>2, <2>5 DEF Transition
  <2>7. Grounded(anchors, request)
    BY <2>5, <2>6 DEF Grounded
  <2> QED BY <1>3, <2>3, <2>4, <2>7, PrepareQuiet DEF request
<1> QED BY <1>1, <1>2, <1>3

\* Every step commits or is quiet.
LEMMA StepCases ==
  ASSUME InventoryInv, [Next]_vars
  PROVE  Quiet \/ \E w \in Workers : Commits(w)
<1>1. CASE UNCHANGED vars
  <2>1. UNCHANGED <<anchors, chains, trail, requests, clock, writes>>
    BY <1>1 DEF vars
  <2>2. \A w \in Workers : Grounded(anchors, requests'[w])
    BY <2>1 DEF InventoryInv, RequestsAreGrounded
  <2>3. requests' \in [Workers -> Request] /\ clock' \in Instants /\ clock <= clock'
    BY <2>1, InstantsType DEF InventoryInv, TypeOK
  <2> QED BY <2>1, <2>2, <2>3 DEF Quiet
<1>2. CASE Restart
  <2>1. /\ requests' = [w \in Workers |-> Idle]
        /\ UNCHANGED <<anchors, chains, trail, clock, writes>>
    BY <1>2 DEF Restart
  <2>2. \A w \in Workers : requests'[w] = Idle
    BY <2>1
  <2>3. \A w \in Workers : Grounded(anchors, requests'[w])
    BY <2>2, IdleType
  <2>4. requests' \in [Workers -> Request]
    BY <2>1, IdleType
  <2>5. clock' \in Instants /\ clock <= clock'
    BY <2>1, InstantsType DEF InventoryInv, TypeOK
  <2> QED BY <2>1, <2>3, <2>4, <2>5 DEF Quiet
<1>3. CASE Tick
  <2>1. UNCHANGED <<anchors, chains, trail, requests, writes>>
    BY <1>3 DEF Tick
  <2>2. clock' \in Instants /\ clock <= clock'
    BY <1>3, InstantsType DEF Tick, InventoryInv, TypeOK
  <2>3. \A w \in Workers : Grounded(anchors, requests'[w])
    BY <2>1 DEF InventoryInv, RequestsAreGrounded
  <2>4. requests' \in [Workers -> Request]
    BY <2>1 DEF InventoryInv, TypeOK
  <2> QED BY <2>1, <2>2, <2>3, <2>4 DEF Quiet
<1>4. ASSUME NEW w \in Workers, Step(w) PROVE Quiet \/ Commits(w)
  <2>1. CASE ValidateAnchor(w)
    BY <2>1, ValidateAnchorQuiet
  <2>2. CASE LoadForLifecycle(w)
    BY <2>2, LoadForLifecycleQuiet
  <2>3. CASE LoadForChain(w)
    BY <2>3, LoadForChainQuiet
  <2>4. CASE LoadForTransition(w)
    BY <2>4, LoadForTransitionQuiet
  <2>5. CASE CommitAnchor(w)
    <3>1. Refuse(w, "alreadyExists") \/ StoresAnchor(w)
      BY <2>5 DEF CommitAnchor, StoresAnchor
    <3> QED BY <3>1, RefuseQuiet DEF Answers, Commits
  <2>6. CASE CommitChain(w)
    <3>1. Refuse(w, "alreadyExists") \/ StoresChain(w)
      BY <2>6 DEF CommitChain, StoresChain
    <3> QED BY <3>1, RefuseQuiet DEF Answers, Commits
  <2>7. CASE CommitTransition(w)
    <3>1. Refuse(w, "changedConcurrently") \/ MovesChain(w)
      BY <2>7 DEF CommitTransition, MovesChain
    <3> QED BY <3>1, RefuseQuiet DEF Answers, Commits
  <2>8. CASE CommitLifecycle(w)
    BY <2>8 DEF Commits
  <2>9. CASE Abort(w) \/ Respond(w)
    <3>1. Refuse(w, "internal") \/ Refuse(w, "ok")
      BY <2>9 DEF Abort, Respond
    <3> QED BY <3>1, RefuseQuiet DEF Answers
  <2>10. CASE Finish(w)
    BY <2>10, IdleType, BecomeQuiet DEF Finish
  <2> QED
    BY <1>4, <2>1, <2>2, <2>3, <2>4, <2>5, <2>6, <2>7, <2>8, <2>9, <2>10 DEF Step
<1> QED BY <1>1, <1>2, <1>3, <1>4 DEF Next

-----------------------------------------------------------------------------
(* What each commit does.                                                  *)

\* An anchor is stored under a code that was free.
LEMMA StoresAnchorEffect ==
  ASSUME InventoryInv, NEW w \in Workers, StoresAnchor(w)
  PROVE  LET id == requests[w].id
         IN  /\ id \in Anchors /\ anchors[id] = NoAnchorRow
             /\ requests[w].pc = "commit" /\ requests[w].op = "import"
             /\ requests[w].row \in AnchorRow /\ requests[w].want \in AnchorRow
             /\ requests[w].want.exists /\ requests[w].want.revokedAt = 0
             /\ requests[w].want.certificate \in Certificates
             /\ requests[w].want.archived = FALSE
             /\ anchors' = [anchors EXCEPT ![id] = requests[w].want]
             /\ UNCHANGED chains
<1> DEFINE request == requests[w]
<1>1. /\ request.pc = "commit" /\ request.op = "import" /\ request.id \in Anchors
      /\ ~AnchorTaken(request.id, request.want.certificate)
      /\ anchors' = [anchors EXCEPT ![request.id] = request.want]
      /\ UNCHANGED chains
  BY DEF StoresAnchor, Pending
<1>2. AnchorImport(request)
  BY <1>1 DEF InventoryInv, RequestsAreGrounded, Grounded
<1>3. PICK certificate \in Certificates, now \in Instants :
         request.want = Imported(certificate, now)
  BY <1>2 DEF AnchorImport
<1>4. /\ request.want \in AnchorRow
      /\ request.want.exists /\ request.want.certificate \in Certificates
      /\ request.want.revokedAt = 0 /\ request.want.archived = FALSE
  <2>1. /\ Imported(certificate, now) \in AnchorRow
        /\ Imported(certificate, now).exists
        /\ Imported(certificate, now).certificate = certificate
        /\ Imported(certificate, now).revokedAt = 0
        /\ Imported(certificate, now).archived = FALSE
    BY ImportedType
  <2> QED BY <1>3, <2>1, Zenon
<1>5. request.row \in AnchorRow
  BY <1>2, NoRowTypes DEF AnchorImport
<1>6. ~anchors[request.id].exists
  BY <1>1 DEF AnchorTaken
<1>7. anchors[request.id] = NoAnchorRow
  BY <1>1, <1>6 DEF InventoryInv, AnchorsAreSound
<1> QED BY <1>1, <1>4, <1>5, <1>7, Zenon

\* A lifecycle request changes the columns of its action, of an anchor that is
\* there.
LEMMA CommitLifecycleEffect ==
  ASSUME InventoryInv, NEW w \in Workers, CommitLifecycle(w)
  PROVE  LET id == requests[w].id
             op == requests[w].op
             want == requests[w].want
         IN  /\ requests[w].pc = "commit"
             /\ op \in {"revoke", "archive", "restore"}
             /\ id \in Anchors /\ anchors[id].exists
             /\ requests[w].row \in AnchorRow /\ Allowed(requests[w].row, op)
             /\ want \in AnchorRow
             /\ op = "revoke" => want.revokedAt # 0
             /\ op = "archive" => want.archived = TRUE
             /\ op = "restore" => want.archived = FALSE
             /\ anchors' = [anchors EXCEPT
                   ![id] = Lifecycle(anchors[id], op, want.revokedAt)]
             /\ UNCHANGED chains
<1> DEFINE request == requests[w]
<1>1. /\ request.pc = "commit" /\ request.op \in {"revoke", "archive", "restore"}
      /\ request.id \in Anchors
      /\ anchors' = [anchors EXCEPT ![request.id] =
            Lifecycle(anchors[request.id], request.op, request.want.revokedAt)]
      /\ UNCHANGED chains
  BY DEF CommitLifecycle, Pending, SetLifecycle
<1>2. LifecycleChange(anchors, request)
  BY <1>1 DEF InventoryInv, RequestsAreGrounded, Grounded
<1>3. PICK now \in Instants :
         request.want = Lifecycle(request.row, request.op, now)
  BY <1>2 DEF LifecycleChange
<1>4. now \in Nat /\ now # 0
  BY InstantsType
<1>5. /\ request.want \in AnchorRow
      /\ request.op = "revoke" => request.want.revokedAt = now
      /\ request.op = "archive" => request.want.archived = TRUE
      /\ request.op = "restore" => request.want.archived = FALSE
  <2> DEFINE row == request.row
             op == request.op
             after == Lifecycle(row, op, now)
  <2>2. row \in AnchorRow /\ now \in Nat
    BY <1>2, <1>4 DEF LifecycleChange
  <2>3. op \in {"revoke", "archive", "restore"}
    BY <1>1
  <2> HIDE DEF row, op
  <2>1. /\ after \in AnchorRow
        /\ op = "revoke" => after.revokedAt = now
        /\ op = "archive" => after.archived = TRUE
        /\ op = "restore" => after.archived = FALSE
    <3>1. after \in AnchorRow
      BY <2>2, <2>3, LifecycleKeeps
    <3>2. CASE op = "revoke"
      <4>1. Lifecycle(row, "revoke", now).revokedAt = now
        BY <2>2, LifecycleSets, Zenon
      <4> QED BY <3>1, <3>2, <4>1
    <3>3. CASE op = "archive"
      <4>1. Lifecycle(row, "archive", now).archived = TRUE
        BY <2>2, LifecycleSets, Zenon
      <4> QED BY <3>1, <3>3, <4>1
    <3>4. CASE op = "restore"
      <4>1. Lifecycle(row, "restore", now).archived = FALSE
        BY <2>2, LifecycleSets, Zenon
      <4> QED BY <3>1, <3>4, <4>1
    <3> QED BY <2>3, <3>2, <3>3, <3>4
  <2> QED BY <1>3, <2>1, Zenon DEF row, op
<1> QED BY <1>1, <1>2, <1>4, <1>5, Zenon DEF LifecycleChange

\* A chain is stored under a code and a fingerprint that were free.
LEMMA StoresChainEffect ==
  ASSUME InventoryInv, NEW w \in Workers, StoresChain(w)
  PROVE  LET id == requests[w].id
             want == requests[w].want
         IN  /\ id \in Chains /\ chains[id].chainState = "absent"
             /\ requests[w].pc = "commit" /\ requests[w].op = "import"
             /\ requests[w].row = NoChainRow /\ want \in ChainRow
             /\ want.chainState = "validated" /\ Sound(anchors, want)
             /\ want.fingerprint = ChainFingerprint(want.bundle)
             /\ \A other \in Chains : chains[other].chainState # "absent" =>
                   chains[other].fingerprint # want.fingerprint
             /\ chains' = [chains EXCEPT ![id] = want]
             /\ UNCHANGED anchors
<1> DEFINE request == requests[w]
<1>1. /\ request.pc = "commit" /\ request.op = "import" /\ request.id \in Chains
      /\ ~ChainTaken(request.id, request.want.fingerprint)
      /\ chains' = [chains EXCEPT ![request.id] = request.want]
      /\ UNCHANGED anchors
  BY DEF StoresChain, Pending
<1>2. ChainImport(anchors, request)
  BY <1>1 DEF InventoryInv, RequestsAreGrounded, Grounded
<1> QED BY <1>1, <1>2 DEF ChainImport, ChainTaken

\* A chain moves legally, from the state it was read in.
LEMMA MovesChainEffect ==
  ASSUME InventoryInv, NEW w \in Workers, MovesChain(w)
  PROVE  LET id == requests[w].id
             row == requests[w].row
             to == requests[w].want.chainState
         IN  /\ id \in Chains /\ chains[id].chainState # "absent"
             /\ requests[w].pc = "commit" /\ requests[w].op = "transition"
             /\ row \in ChainRow /\ row.chainState = chains[id].chainState
             /\ requests[w].want \in ChainRow /\ to \in ChainStates
             /\ CanTransitionChain(row.chainState, to)
             /\ chains' = [chains EXCEPT ![id] = [@ EXCEPT !.chainState = to]]
             /\ UNCHANGED anchors
<1> DEFINE request == requests[w]
<1>1. /\ request.pc = "commit" /\ request.op = "transition" /\ request.id \in Chains
      /\ chains[request.id].chainState = request.row.chainState
      /\ chains' = [chains EXCEPT ![request.id] =
                        [@ EXCEPT !.chainState = request.want.chainState]]
      /\ UNCHANGED anchors
  BY DEF MovesChain, Pending, Matches
<1>2. Transition(request)
  BY <1>1 DEF InventoryInv, RequestsAreGrounded, Grounded
<1>3. PICK to \in ChainStates :
         /\ CanTransitionChain(request.row.chainState, to)
         /\ request.want = [request.row EXCEPT !.chainState = to]
  BY <1>2 DEF Transition
<1>4. request.want \in ChainRow /\ request.want.chainState = to
  BY <1>2, <1>3 DEF Transition, ChainRow
<1> QED BY <1>1, <1>2, <1>3, <1>4 DEF Transition

-----------------------------------------------------------------------------
(* The invariant is preserved.                                             *)

RecordOf(w) ==
    [action |-> requests[w].op, actor |-> requests[w].user,
     before |-> requests[w].row, after |-> requests[w].want]

\* The record of a commit is appended to the log of what has changed, and the
\* goroutine goes on to respond.
LEMMA RecordEffect ==
  ASSUME InventoryInv, NEW w \in Workers, Record(w), requests[w].pc = "commit"
  PROVE  /\ RecordOf(w) \in Entry
         /\ requests[w].id \in Anchors \cup Chains
         /\ trail' = [trail EXCEPT
               ![requests[w].id] = Append(trail[requests[w].id], RecordOf(w))]
         /\ trail' \in [Anchors \cup Chains -> Seq(Entry)]
         /\ requests' \in [Workers -> Request]
         /\ requests'[w].pc = "respond"
         /\ \A v \in Workers : v # w => requests'[v] = requests[v]
         /\ writes' \in Nat /\ clock' = clock
<1> DEFINE request == [Idle EXCEPT !.pc = "respond", !.op = requests[w].op]
<1>1. requests[w] \in Request /\ requests[w].user \in Users
  BY DEF InventoryInv, TypeOK, RequestsAreGrounded, Grounded
<1>2. /\ requests[w].op \in Operations /\ requests[w].id \in Anchors \cup Chains
      /\ requests[w].row \in Rows /\ requests[w].want \in Rows
  BY <1>1 DEF Request
<1>3. RecordOf(w) \in Entry
  BY <1>1, <1>2 DEF RecordOf, Entry
<1>4. trail' = [trail EXCEPT
         ![requests[w].id] = Append(trail[requests[w].id], RecordOf(w))]
  BY DEF Record, RecordOf
<1>5. trail' \in [Anchors \cup Chains -> Seq(Entry)]
  <2>1. trail \in [Anchors \cup Chains -> Seq(Entry)]
    BY DEF InventoryInv, TypeOK
  <2>2. Append(trail[requests[w].id], RecordOf(w)) \in Seq(Entry)
    BY <1>2, <1>3, <2>1
  <2> QED BY <1>2, <1>4, <2>1, <2>2
<1>6. requests' = [requests EXCEPT ![w] = request] /\ clock' = clock
      /\ writes' = writes + 1
  BY DEF Record
<1>7. request \in Request
  BY <1>2, IdleType
<1>8. request.pc = "respond"
  BY DEF Idle
<1> HIDE DEF request
<1>9. /\ requests' \in [Workers -> Request]
      /\ requests'[w].pc = "respond"
      /\ \A v \in Workers : v # w => requests'[v] = requests[v]
  BY <1>6, <1>7, <1>8 DEF InventoryInv, TypeOK
<1>10. writes' \in Nat
  BY <1>6 DEF InventoryInv, TypeOK
<1> QED BY <1>2, <1>3, <1>4, <1>5, <1>6, <1>9, <1>10

\* An anchor that is there stays there with its certificate.
Kept(table, later) ==
    \A id \in Anchors : table[id].exists =>
        /\ later[id].exists
        /\ later[id].certificate = table[id].certificate

\* Then a sound chain stays sound.
LEMMA SoundKept ==
  ASSUME NEW table, NEW later, Kept(table, later), NEW row, Sound(table, row)
  PROVE  Sound(later, row)
  BY DEF Kept, Sound

\* And a grounded request stays grounded.
LEMMA GroundedKept ==
  ASSUME NEW table, NEW later, Kept(table, later),
         NEW request, Grounded(table, request)
  PROVE  Grounded(later, request)
<1>1. ChainImport(table, request) => ChainImport(later, request)
  BY SoundKept DEF ChainImport
<1>2. LifecycleChange(table, request) => LifecycleChange(later, request)
  BY DEF LifecycleChange, Kept
<1> QED BY <1>1, <1>2 DEF Grounded

\* What the commits have in common.
LEMMA CommitKeeps ==
  ASSUME InventoryInv, NEW w \in Workers, Record(w), requests[w].pc = "commit",
         Kept(anchors, anchors')
  PROVE  /\ RequestsAreGrounded'
         /\ \A row : Sound(anchors, row) => Sound(anchors', row)
<1>1. ASSUME NEW v \in Workers PROVE Grounded(anchors', requests'[v])
  <2>1. CASE v = w
    <3>1. requests'[v].pc = "respond"
      BY <2>1, RecordEffect
    <3> QED BY <3>1 DEF Grounded
  <2>2. CASE v # w
    <3>1. requests'[v] = requests[v]
      BY <2>2, RecordEffect
    <3>2. Grounded(anchors, requests[v])
      BY DEF InventoryInv, RequestsAreGrounded
    <3> QED BY <3>1, <3>2, GroundedKept
  <2> QED BY <2>1, <2>2
<1>2. \A row : Sound(anchors, row) => Sound(anchors', row)
  BY SoundKept
<1> QED BY <1>1, <1>2 DEF RequestsAreGrounded

\* A quiet step.
LEMMA QuietKeeps ==
  ASSUME InventoryInv, Quiet
  PROVE  InventoryInv'
<1>1. TypeOK'
  BY DEF Quiet, InventoryInv, TypeOK
<1>2. AnchorsAreSound'
  BY DEF Quiet, InventoryInv, AnchorsAreSound
<1>3. ChainsAreSound'
  BY DEF Quiet, InventoryInv, ChainsAreSound
<1>4. FingerprintsAreUnique'
  BY DEF Quiet, InventoryInv, FingerprintsAreUnique, Stored
<1>5. RequestsAreGrounded'
  BY DEF Quiet, RequestsAreGrounded
<1> QED BY <1>1, <1>2, <1>3, <1>4, <1>5 DEF InventoryInv

\* The commit of an import of an anchor.
LEMMA StoresAnchorKeeps ==
  ASSUME InventoryInv, NEW w \in Workers, StoresAnchor(w)
  PROVE  InventoryInv' /\ Kept(anchors, anchors')
<1> DEFINE id == requests[w].id
           want == requests[w].want
<1>1. /\ id \in Anchors /\ anchors[id] = NoAnchorRow
      /\ requests[w].pc = "commit"
      /\ want \in AnchorRow /\ want.exists /\ want.revokedAt = 0
      /\ want.certificate \in Certificates
      /\ anchors' = [anchors EXCEPT ![id] = want]
      /\ UNCHANGED chains
  BY StoresAnchorEffect
<1>2. Record(w)
  BY DEF StoresAnchor
<1>3. anchors \in [Anchors -> AnchorRow]
  BY DEF InventoryInv, TypeOK
<1> HIDE DEF id, want
<1>4. /\ anchors' \in [Anchors -> AnchorRow]
      /\ anchors'[id] = want
      /\ \A other \in Anchors : other # id => anchors'[other] = anchors[other]
  BY <1>1, <1>3
<1>5. ~anchors[id].exists
  BY <1>1 DEF NoAnchorRow
<1>6. Kept(anchors, anchors')
  BY <1>4, <1>5 DEF Kept
<1>7. /\ RequestsAreGrounded'
      /\ \A row : Sound(anchors, row) => Sound(anchors', row)
  BY <1>1, <1>2, <1>6, CommitKeeps
<1>8. TypeOK'
  BY <1>1, <1>2, <1>4, RecordEffect DEF InventoryInv, TypeOK
<1>9. AnchorsAreSound'
  <2>1. ASSUME NEW other \in Anchors
        PROVE  /\ anchors'[other].exists => anchors'[other].certificate \in Certificates
               /\ ~anchors'[other].exists => anchors'[other] = NoAnchorRow
               /\ anchors'[other].revokedAt # 0 =>
                     anchors'[other].certificateState = "revoked"
    <3>1. CASE other = id
      BY <1>1, <1>4, <3>1, Zenon
    <3>2. CASE other # id
      BY <1>4, <3>2, Zenon DEF InventoryInv, AnchorsAreSound
    <3> QED BY <3>1, <3>2
  <2> QED BY <2>1 DEF AnchorsAreSound
<1>10. ChainsAreSound'
  BY <1>1, <1>7 DEF InventoryInv, ChainsAreSound
<1>11. FingerprintsAreUnique'
  BY <1>1 DEF InventoryInv, FingerprintsAreUnique, Stored
<1> QED BY <1>6, <1>7, <1>8, <1>9, <1>10, <1>11 DEF InventoryInv

\* What a lifecycle commit leaves of the anchors.
LEMMA CommitLifecycleRows ==
  ASSUME InventoryInv, NEW w \in Workers, CommitLifecycle(w)
  PROVE  LET id == requests[w].id
             op == requests[w].op
         IN  /\ anchors' \in [Anchors -> AnchorRow]
             /\ \A other \in Anchors : other # id => anchors'[other] = anchors[other]
             /\ anchors'[id].exists
             /\ anchors'[id].certificate = anchors[id].certificate
             /\ op = "revoke" =>
                  /\ anchors'[id].revokedAt = requests[w].want.revokedAt
                  /\ requests[w].want.revokedAt # 0
                  /\ anchors'[id].certificateState = "revoked"
                  /\ anchors'[id].archived = anchors[id].archived
             /\ op # "revoke" =>
                  /\ anchors'[id].revokedAt = anchors[id].revokedAt
                  /\ anchors'[id].certificateState = anchors[id].certificateState
                  /\ anchors'[id].archived = requests[w].want.archived
<1> DEFINE id == requests[w].id
           op == requests[w].op
           want == requests[w].want
           current == anchors[id]
           now == want.revokedAt
           after == Lifecycle(current, op, now)
<1>1. /\ op \in {"revoke", "archive", "restore"}
      /\ id \in Anchors /\ current.exists
      /\ want \in AnchorRow
      /\ op = "revoke" => want.revokedAt # 0
      /\ op = "archive" => want.archived = TRUE
      /\ op = "restore" => want.archived = FALSE
      /\ anchors' = [anchors EXCEPT ![id] = after]
  BY CommitLifecycleEffect
<1>2. anchors \in [Anchors -> AnchorRow]
  BY DEF InventoryInv, TypeOK
<1>3. current \in AnchorRow /\ now \in Nat
  BY <1>1, <1>2 DEF AnchorRow
<1> HIDE DEF id, op, want, current, now
<1>4. /\ after \in AnchorRow /\ after.exists = current.exists
      /\ after.certificate = current.certificate
      /\ op = "revoke" => after.archived = current.archived
      /\ op # "revoke" => after.revokedAt = current.revokedAt
      /\ op # "revoke" => after.certificateState = current.certificateState
  BY <1>1, <1>3, LifecycleKeeps
<1>5. op = "revoke" => after.revokedAt = now /\ after.certificateState = "revoked"
  <2>1. /\ Lifecycle(current, "revoke", now).revokedAt = now
        /\ Lifecycle(current, "revoke", now).certificateState = "revoked"
    BY <1>3, LifecycleSets, Zenon
  <2> QED BY <2>1
<1>6. op # "revoke" => after.archived = want.archived
  <2>1. /\ Lifecycle(current, "archive", now).archived = TRUE
        /\ Lifecycle(current, "restore", now).archived = FALSE
    BY <1>3, LifecycleSets, Zenon
  <2>2. CASE op = "archive"
    <3>1. want.archived = TRUE
      BY <1>1, <2>2
    <3> QED BY <2>1, <2>2, <3>1, Zenon
  <2>3. CASE op = "restore"
    <3>1. want.archived = FALSE
      BY <1>1, <2>3
    <3> QED BY <2>1, <2>3, <3>1, Zenon
  <2> QED BY <1>1, <2>2, <2>3
<1> HIDE DEF after
<1>7. /\ anchors' \in [Anchors -> AnchorRow]
      /\ anchors'[id] = after
      /\ \A other \in Anchors : other # id => anchors'[other] = anchors[other]
  BY <1>1, <1>2, <1>4
<1>8. after.exists
  BY <1>1, <1>4, Zenon
<1> QED
  BY <1>1, <1>4, <1>5, <1>6, <1>7, <1>8, Zenon DEF id, op, want, current, now

\* The commit of a lifecycle request.
LEMMA CommitLifecycleInv ==
  ASSUME InventoryInv, NEW w \in Workers, CommitLifecycle(w)
  PROVE  InventoryInv' /\ Kept(anchors, anchors')
<1> DEFINE id == requests[w].id
           op == requests[w].op
<1>1. /\ requests[w].pc = "commit" /\ id \in Anchors /\ anchors[id].exists
      /\ UNCHANGED chains
  BY CommitLifecycleEffect
<1>2. Record(w)
  BY DEF CommitLifecycle
<1>3. /\ anchors' \in [Anchors -> AnchorRow]
      /\ \A other \in Anchors : other # id => anchors'[other] = anchors[other]
      /\ anchors'[id].exists
      /\ anchors'[id].certificate = anchors[id].certificate
  BY CommitLifecycleRows
<1>4. op = "revoke" => anchors'[id].certificateState = "revoked"
  BY CommitLifecycleRows
<1>5. op # "revoke" => /\ anchors'[id].revokedAt = anchors[id].revokedAt
                       /\ anchors'[id].certificateState = anchors[id].certificateState
  BY CommitLifecycleRows
<1> HIDE DEF id, op
<1>6. Kept(anchors, anchors')
  <2>1. ASSUME NEW other \in Anchors, anchors[other].exists
        PROVE  /\ anchors'[other].exists
               /\ anchors'[other].certificate = anchors[other].certificate
    BY <1>3, <2>1, Zenon
  <2> QED BY <2>1, Zenon DEF Kept
<1>7. /\ RequestsAreGrounded'
      /\ \A row : Sound(anchors, row) => Sound(anchors', row)
  BY <1>1, <1>2, <1>6, CommitKeeps
<1>8. TypeOK'
  BY <1>1, <1>2, <1>3, RecordEffect DEF InventoryInv, TypeOK
<1>9. AnchorsAreSound'
  <2>1. ASSUME NEW other \in Anchors
        PROVE  /\ anchors'[other].exists => anchors'[other].certificate \in Certificates
               /\ ~anchors'[other].exists => anchors'[other] = NoAnchorRow
               /\ anchors'[other].revokedAt # 0 =>
                     anchors'[other].certificateState = "revoked"
    <3>1. CASE other = id
      <4>1. anchors[id].certificate \in Certificates
        BY <1>1 DEF InventoryInv, AnchorsAreSound
      <4>2. anchors[id].revokedAt # 0 => anchors[id].certificateState = "revoked"
        BY <1>1 DEF InventoryInv, AnchorsAreSound
      <4>3. anchors'[id].revokedAt # 0 => anchors'[id].certificateState = "revoked"
        BY <1>4, <1>5, <4>2
      <4> QED BY <1>3, <3>1, <4>1, <4>3, Zenon
    <3>2. CASE other # id
      BY <1>3, <3>2, Zenon DEF InventoryInv, AnchorsAreSound
    <3> QED BY <3>1, <3>2
  <2> QED BY <2>1 DEF AnchorsAreSound
<1>10. ChainsAreSound'
  BY <1>1, <1>7 DEF InventoryInv, ChainsAreSound
<1>11. FingerprintsAreUnique'
  BY <1>1 DEF InventoryInv, FingerprintsAreUnique, Stored
<1> QED BY <1>6, <1>7, <1>8, <1>9, <1>10, <1>11 DEF InventoryInv

\* The commit of an import of a chain.
LEMMA StoresChainKeeps ==
  ASSUME InventoryInv, NEW w \in Workers, StoresChain(w)
  PROVE  InventoryInv'
<1> DEFINE id == requests[w].id
           want == requests[w].want
<1>1. /\ id \in Chains /\ chains[id].chainState = "absent"
      /\ requests[w].pc = "commit"
      /\ want \in ChainRow /\ want.chainState = "validated" /\ Sound(anchors, want)
      /\ want.fingerprint = ChainFingerprint(want.bundle)
      /\ \A other \in Chains : chains[other].chainState # "absent" =>
            chains[other].fingerprint # want.fingerprint
      /\ chains' = [chains EXCEPT ![id] = want]
      /\ UNCHANGED anchors
  BY StoresChainEffect
<1>2. Record(w)
  BY DEF StoresChain
<1>3. chains \in [Chains -> ChainRow]
  BY DEF InventoryInv, TypeOK
<1> HIDE DEF id, want
<1>4. /\ chains' \in [Chains -> ChainRow]
      /\ chains'[id] = want
      /\ \A other \in Chains : other # id => chains'[other] = chains[other]
  BY <1>1, <1>3
<1>5. Kept(anchors, anchors')
  BY <1>1 DEF Kept
<1>6. RequestsAreGrounded'
  BY <1>1, <1>2, <1>5, CommitKeeps
<1>7. TypeOK'
  BY <1>1, <1>2, <1>4, RecordEffect DEF InventoryInv, TypeOK
<1>8. AnchorsAreSound'
  BY <1>1 DEF InventoryInv, AnchorsAreSound
<1>9. ChainsAreSound'
  <2>1. ASSUME NEW other \in Chains
        PROVE  /\ chains'[other].chainState # "absent" => Sound(anchors', chains'[other])
               /\ chains'[other].chainState = "absent" => chains'[other].bundle = << >>
    <3>1. CASE other = id
      BY <1>1, <1>4, <3>1
    <3>2. CASE other # id
      BY <1>1, <1>4, <3>2 DEF InventoryInv, ChainsAreSound
    <3> QED BY <3>1, <3>2
  <2> QED BY <2>1 DEF ChainsAreSound
<1>10. FingerprintsAreUnique'
  <2>1. ASSUME NEW other \in Chains, Stored(other)'
        PROVE  chains'[other].fingerprint = ChainFingerprint(chains'[other].bundle)
    <3>1. CASE other = id
      BY <1>1, <1>4, <3>1
    <3>2. CASE other # id
      BY <1>4, <2>1, <3>2 DEF InventoryInv, FingerprintsAreUnique, Stored
    <3> QED BY <3>1, <3>2
  <2>2. ASSUME NEW one \in Chains, NEW other \in Chains,
               Stored(one)', Stored(other)',
               chains'[one].fingerprint = chains'[other].fingerprint
        PROVE  one = other
    <3>1. CASE one = id /\ other # id
      BY <1>1, <1>4, <2>2, <3>1 DEF Stored
    <3>2. CASE one # id /\ other = id
      BY <1>1, <1>4, <2>2, <3>2 DEF Stored
    <3>3. CASE one # id /\ other # id
      BY <1>4, <2>2, <3>3 DEF InventoryInv, FingerprintsAreUnique, Stored
    <3> QED BY <3>1, <3>2, <3>3
  <2> QED BY <2>1, <2>2 DEF FingerprintsAreUnique
<1> QED BY <1>6, <1>7, <1>8, <1>9, <1>10 DEF InventoryInv

\* The commit of a transition.
LEMMA MovesChainKeeps ==
  ASSUME InventoryInv, NEW w \in Workers, MovesChain(w)
  PROVE  InventoryInv'
<1> DEFINE id == requests[w].id
           to == requests[w].want.chainState
           after == [chains[id] EXCEPT !.chainState = to]
<1>1. /\ id \in Chains /\ chains[id].chainState # "absent"
      /\ requests[w].pc = "commit" /\ to \in ChainStates
      /\ chains' = [chains EXCEPT ![id] = after]
      /\ UNCHANGED anchors
  BY MovesChainEffect
<1>2. Record(w)
  BY DEF MovesChain
<1>3. chains \in [Chains -> ChainRow] /\ chains[id] \in ChainRow
  BY <1>1 DEF InventoryInv, TypeOK
<1> HIDE DEF id, to
<1>4. /\ after \in ChainRow
      /\ after.chainState = to /\ after.bundle = chains[id].bundle
      /\ after.anchor = chains[id].anchor /\ after.fingerprint = chains[id].fingerprint
      /\ after.validFrom = chains[id].validFrom /\ after.validTo = chains[id].validTo
  BY <1>1, <1>3 DEF ChainRow
<1> HIDE DEF after
<1>5. /\ chains' \in [Chains -> ChainRow]
      /\ chains'[id] = after
      /\ \A other \in Chains : other # id => chains'[other] = chains[other]
  BY <1>1, <1>3, <1>4
<1>6. Kept(anchors, anchors')
  BY <1>1 DEF Kept
<1>7. RequestsAreGrounded'
  BY <1>1, <1>2, <1>6, CommitKeeps
<1>8. TypeOK'
  BY <1>1, <1>2, <1>5, RecordEffect DEF InventoryInv, TypeOK
<1>9. AnchorsAreSound'
  BY <1>1 DEF InventoryInv, AnchorsAreSound
<1>10. after.chainState # "absent"
  BY <1>1, <1>4 DEF ChainStates
<1>11. ChainsAreSound'
  <2>1. ASSUME NEW other \in Chains
        PROVE  /\ chains'[other].chainState # "absent" => Sound(anchors', chains'[other])
               /\ chains'[other].chainState = "absent" => chains'[other].bundle = << >>
    <3>1. CASE other = id
      <4>1. Sound(anchors, chains[id])
        BY <1>1 DEF InventoryInv, ChainsAreSound
      <4>2. Sound(anchors, after)
        BY <1>4, <4>1 DEF Sound
      <4> QED BY <1>1, <1>5, <1>10, <3>1, <4>2
    <3>2. CASE other # id
      BY <1>1, <1>5, <3>2 DEF InventoryInv, ChainsAreSound
    <3> QED BY <3>1, <3>2
  <2> QED BY <2>1 DEF ChainsAreSound
<1>12. \A other \in Chains :
          /\ Stored(other)' <=> Stored(other)
          /\ chains'[other].fingerprint = chains[other].fingerprint
          /\ chains'[other].bundle = chains[other].bundle
  BY <1>1, <1>4, <1>5, <1>10 DEF Stored
<1>13. FingerprintsAreUnique'
  BY <1>12 DEF InventoryInv, FingerprintsAreUnique
<1> QED BY <1>7, <1>8, <1>9, <1>11, <1>13 DEF InventoryInv

\* Every step preserves the invariant.
LEMMA NextKeeps == InventoryInv /\ [Next]_vars => InventoryInv'
<1> SUFFICES ASSUME InventoryInv, [Next]_vars PROVE InventoryInv'
  OBVIOUS
<1>1. CASE Quiet
  BY <1>1, QuietKeeps
<1>2. ASSUME NEW w \in Workers, Commits(w) PROVE InventoryInv'
  BY <1>2, StoresAnchorKeeps, CommitLifecycleInv, StoresChainKeeps, MovesChainKeeps
     DEF Commits
<1> QED BY <1>1, <1>2, StepCases

\* The inventory keeps its types, its rows and requests sound and its
\* fingerprints unique.
THEOREM InventoryIsSound == Spec => []InventoryInv
<1> QED BY InitSound, NextKeeps, PTL DEF Spec

\* Every variable keeps its type.
THEOREM TypesKept == Spec => []TypeOK
<1>1. InventoryInv => TypeOK
  BY DEF InventoryInv
<1> QED BY <1>1, InventoryIsSound, PTL

-----------------------------------------------------------------------------
(* What a step does to one anchor.                                         *)

\* A step leaves an anchor and its log alone, or it is the commit of a request
\* on it.
LEMMA AnchorSteps ==
  ASSUME InventoryInv, [Next]_vars, NEW id \in Anchors
  PROVE  /\ clock <= clock'
         /\ \/ anchors'[id] = anchors[id] /\ trail'[id] = trail[id]
            \/ \E w \in Workers :
                  /\ requests[w].id = id
                  /\ StoresAnchor(w) \/ CommitLifecycle(w)
<1>1. anchors \in [Anchors -> AnchorRow] /\ trail \in [Anchors \cup Chains -> Seq(Entry)]
      /\ clock \in Int /\ id \notin Chains
  BY InstantsType, NullAssumption DEF InventoryInv, TypeOK
<1>2. CASE Quiet
  BY <1>2 DEF Quiet
<1>3. ASSUME NEW w \in Workers, StoresAnchor(w)
      PROVE  /\ clock <= clock'
             /\ requests[w].id # id =>
                   anchors'[id] = anchors[id] /\ trail'[id] = trail[id]
  <2>1. /\ requests[w].pc = "commit"
        /\ anchors' = [anchors EXCEPT ![requests[w].id] = requests[w].want]
    BY <1>3, StoresAnchorEffect
  <2>2. /\ trail' = [trail EXCEPT
               ![requests[w].id] = Append(trail[requests[w].id], RecordOf(w))]
        /\ clock' = clock
    BY <1>3, <2>1, RecordEffect DEF StoresAnchor
  <2> QED BY <1>1, <2>1, <2>2
<1>4. ASSUME NEW w \in Workers, CommitLifecycle(w)
      PROVE  /\ clock <= clock'
             /\ requests[w].id # id =>
                   anchors'[id] = anchors[id] /\ trail'[id] = trail[id]
  <2>1. /\ requests[w].pc = "commit"
        /\ requests[w].id # id => anchors'[id] = anchors[id]
    BY <1>4, CommitLifecycleEffect, CommitLifecycleRows
  <2>2. /\ trail' = [trail EXCEPT
               ![requests[w].id] = Append(trail[requests[w].id], RecordOf(w))]
        /\ clock' = clock
    BY <1>4, <2>1, RecordEffect DEF CommitLifecycle
  <2> QED BY <1>1, <2>1, <2>2
<1>5. ASSUME NEW w \in Workers, StoresChain(w) \/ MovesChain(w)
      PROVE  /\ clock <= clock'
             /\ anchors'[id] = anchors[id] /\ trail'[id] = trail[id]
  <2>1. /\ requests[w].pc = "commit" /\ requests[w].id \in Chains
        /\ UNCHANGED anchors
    BY <1>5, StoresChainEffect, MovesChainEffect
  <2>2. /\ trail' = [trail EXCEPT
               ![requests[w].id] = Append(trail[requests[w].id], RecordOf(w))]
        /\ clock' = clock
    BY <1>5, <2>1, RecordEffect DEF StoresChain, MovesChain
  <2> QED BY <1>1, <2>1, <2>2
<1> QED BY <1>2, <1>3, <1>4, <1>5, StepCases DEF Commits

\* Whatever a step does to an anchor, a revocation of it stands.
LEMMA RevocationStands ==
  ASSUME InventoryInv, [Next]_vars, NEW id \in Anchors,
         anchors[id].revokedAt # 0
  PROVE  /\ anchors'[id].revokedAt # 0
         /\ anchors'[id].certificateState = "revoked"
<1>1. anchors[id].certificateState = "revoked"
  BY DEF InventoryInv, AnchorsAreSound
<1>2. CASE anchors'[id] = anchors[id]
  BY <1>1, <1>2
<1>3. ASSUME NEW w \in Workers, requests[w].id = id, StoresAnchor(w) PROVE FALSE
  <2>1. anchors[id] = NoAnchorRow
    BY <1>3, StoresAnchorEffect
  <2> QED BY <2>1 DEF NoAnchorRow
<1>4. ASSUME NEW w \in Workers, requests[w].id = id, CommitLifecycle(w)
      PROVE  /\ anchors'[id].revokedAt # 0
             /\ anchors'[id].certificateState = "revoked"
  <2>1. CASE requests[w].op = "revoke"
    BY <1>4, <2>1, CommitLifecycleRows
  <2>2. CASE requests[w].op # "revoke"
    <3>1. /\ anchors'[id].revokedAt = anchors[id].revokedAt
          /\ anchors'[id].certificateState = anchors[id].certificateState
      BY <1>4, <2>2, CommitLifecycleRows
    <3> QED BY <1>1, <3>1
  <2> QED BY <2>1, <2>2
<1> QED BY <1>2, <1>3, <1>4, AnchorSteps

\* No request undoes a revocation, however old the row it has read.
THEOREM RevocationIsFinalHolds == Spec => RevocationIsFinal
<1>1. InventoryInv /\ [Next]_vars =>
        [\A id \in Anchors :
          anchors[id].revokedAt # 0 =>
              /\ anchors'[id].revokedAt # 0
              /\ anchors'[id].certificateState = "revoked"]_vars
  BY RevocationStands
<1> QED BY <1>1, InventoryIsSound, PTL DEF Spec, RevocationIsFinal

\* The state calculated of a certificate only gets worse with time and with a
\* revocation.
LEMMA StateWorsens ==
  ASSUME NEW now \in Int, NEW later \in Int, now <= later, NEW notAfter \in Int,
         NEW revoked \in BOOLEAN, NEW then \in BOOLEAN, revoked => then
  PROVE  severity[CalculateCertificateState(now, notAfter, revoked)]
           <= severity[CalculateCertificateState(later, notAfter, then)]
<1> DEFINE before == CalculateCertificateState(now, notAfter, revoked)
           after == CalculateCertificateState(later, notAfter, then)
<1>1. /\ severity["valid"] = 1 /\ severity["expiring"] = 2
      /\ severity["expired"] = 3 /\ severity["revoked"] = 4
  BY DEF severity
<1>2. before \in CertificateStates /\ after \in CertificateStates
  BY StateType
<1>3. CASE then
  <2>1. after = "revoked"
    BY <1>3 DEF CalculateCertificateState
  <2> QED BY <1>1, <1>2, <2>1 DEF CertificateStates
<1>4. CASE ~then /\ later >= notAfter
  <2>1. after = "expired"
    BY <1>4 DEF CalculateCertificateState
  <2>2. before # "revoked"
    BY <1>4 DEF CalculateCertificateState
  <2> QED BY <1>1, <1>2, <2>1, <2>2 DEF CertificateStates
<1>5. CASE ~then /\ later < notAfter /\ notAfter <= later + Notice
  <2>1. after = "expiring"
    BY <1>5 DEF CalculateCertificateState
  <2>2. before # "revoked" /\ before # "expired"
    BY <1>5 DEF CalculateCertificateState
  <2> QED BY <1>1, <1>2, <2>1, <2>2 DEF CertificateStates
<1>6. CASE ~then /\ later < notAfter /\ ~(notAfter <= later + Notice)
  <2>1. Notice \in Nat
    BY TimeAssumption
  <2>2. now < notAfter /\ ~(notAfter <= now + Notice)
    BY <1>6, <2>1
  <2>3. before = "valid"
    BY <1>6, <2>2 DEF CalculateCertificateState
  <2> QED BY <1>1, <1>2, <2>3 DEF CertificateStates
<1> QED BY <1>3, <1>4, <1>5, <1>6

\* The state a client is shown of an anchor only ever gets worse.
THEOREM ShownStateOnlyWorsensHolds == Spec => ShownStateOnlyWorsens
<1>1. ASSUME InventoryInv, [Next]_vars, NEW id \in Anchors, anchors[id].exists
      PROVE  Shown(anchors[id], clock) <= Shown(anchors'[id], clock')
  <2>1. /\ anchors[id].certificate \in Certificates
        /\ anchors'[id].certificate = anchors[id].certificate
    <3>1. anchors[id].certificate \in Certificates
      BY <1>1 DEF InventoryInv, AnchorsAreSound
    <3>2. ASSUME NEW w \in Workers, requests[w].id = id, StoresAnchor(w) PROVE FALSE
      <4>1. anchors[id] = NoAnchorRow
        BY <1>1, <3>2, StoresAnchorEffect
      <4> QED BY <1>1, <4>1 DEF NoAnchorRow
    <3>3. ASSUME NEW w \in Workers, requests[w].id = id, CommitLifecycle(w)
          PROVE  anchors'[id].certificate = anchors[id].certificate
      BY <1>1, <3>3, CommitLifecycleRows
    <3> QED BY <1>1, <3>1, <3>2, <3>3, AnchorSteps
  <2>2. Content[anchors[id].certificate].notAfter \in Int
    BY <2>1, ContentAssumption DEF CertificateContent
  <2>3. (anchors[id].revokedAt # 0) => (anchors'[id].revokedAt # 0)
    BY <1>1, RevocationStands
  <2>4. clock \in Int /\ clock' \in Int /\ clock <= clock'
    <3>1. TypeOK /\ TypeOK'
      BY <1>1, NextKeeps DEF InventoryInv
    <3> QED BY <1>1, <3>1, AnchorSteps, InstantsType DEF TypeOK
  <2> QED BY <2>1, <2>2, <2>3, <2>4, StateWorsens DEF Shown
<1>2. InventoryInv /\ [Next]_vars =>
        [\A id \in Anchors :
          anchors[id].exists =>
              Shown(anchors[id], clock) <= Shown(anchors'[id], clock')]_vars
  BY <1>1
<1> QED BY <1>2, InventoryIsSound, PTL DEF Spec, ShownStateOnlyWorsens

\* A revoked anchor returns from the archive only through a restore that read it
\* before the revocation.
THEOREM RestoreWasOvertakenHolds == Spec => RestoreWasOvertaken
<1>1. ASSUME InventoryInv, [Next]_vars, NEW id \in Anchors,
             anchors[id].revokedAt # 0,
             anchors[id].archived, ~anchors'[id].archived
      PROVE  \E w \in Workers :
                /\ Pending(w, "restore", {id})
                /\ requests[w].row.revokedAt = 0
                /\ requests'[w].pc = "respond"
  <2>1. anchors'[id] # anchors[id]
    BY <1>1, Zenon
  <2>2. ASSUME NEW w \in Workers, requests[w].id = id, StoresAnchor(w) PROVE FALSE
    <3>1. anchors[id] = NoAnchorRow
      BY <1>1, <2>2, StoresAnchorEffect
    <3> QED BY <1>1, <3>1 DEF NoAnchorRow
  <2>3. PICK w \in Workers : requests[w].id = id /\ CommitLifecycle(w)
    BY <1>1, <2>1, <2>2, AnchorSteps
  <2>4. /\ requests[w].pc = "commit"
        /\ requests[w].op \in {"revoke", "archive", "restore"}
        /\ Allowed(requests[w].row, requests[w].op)
        /\ requests[w].op = "archive" => requests[w].want.archived = TRUE
    BY <1>1, <2>3, CommitLifecycleEffect
  <2>5. requests[w].op # "revoke"
    <3>1. SUFFICES ASSUME requests[w].op = "revoke" PROVE FALSE
      OBVIOUS
    <3>2. anchors'[id].archived = anchors[id].archived
      BY <1>1, <2>3, <3>1, CommitLifecycleRows
    <3> QED BY <1>1, <3>2, Zenon
  <2>6. requests[w].op # "archive"
    <3>1. SUFFICES ASSUME requests[w].op = "archive" PROVE FALSE
      OBVIOUS
    <3>2. anchors'[id].archived = requests[w].want.archived
      BY <1>1, <2>3, <3>1, CommitLifecycleRows
    <3>3. requests[w].want.archived = TRUE
      BY <2>4, <3>1
    <3> QED BY <1>1, <3>2, <3>3, Zenon
  <2>7. requests[w].op = "restore" /\ requests[w].row.revokedAt = 0
    BY <2>4, <2>5, <2>6 DEF Allowed
  <2>8. requests'[w].pc = "respond"
    BY <1>1, <2>3, <2>4, RecordEffect DEF CommitLifecycle
  <2> QED BY <2>3, <2>4, <2>7, <2>8 DEF Pending
<1>2. InventoryInv /\ [Next]_vars =>
        [\A id \in Anchors :
          /\ anchors[id].revokedAt # 0
          /\ anchors[id].archived /\ ~anchors'[id].archived
          => \E w \in Workers :
                /\ Pending(w, "restore", {id})
                /\ requests[w].row.revokedAt = 0
                /\ requests'[w].pc = "respond"]_vars
  BY <1>1
<1> QED BY <1>2, InventoryIsSound, PTL DEF Spec, RestoreWasOvertaken

-----------------------------------------------------------------------------
(* The audit log.                                                          *)

\* A log with a record more.
LEMMA Appended ==
  ASSUME NEW log \in Seq(Entry), NEW entry \in Entry,
         NEW longer, longer = Append(log, entry)
  PROVE  /\ Len(log) \in Nat /\ DOMAIN log = 1 .. Len(log)
         /\ Len(longer) = Len(log) + 1 /\ DOMAIN longer = 1 .. Len(log) + 1
         /\ longer[Len(log) + 1] = entry
         /\ \A i \in DOMAIN log : longer[i] = log[i]
  OBVIOUS

\* What the audit log must say of one anchor.
Revoked(id) ==
    anchors[id].revokedAt # 0 <=>
        \E i \in DOMAIN trail[id] : trail[id][i].action = "revoke"

DateOnRecord(id) ==
    \A i \in DOMAIN trail[id] :
        Last(id, {"revoke"}, i) => anchors[id].revokedAt = trail[id][i].after.revokedAt

ArchiveOnRecord(id) ==
    \A i \in DOMAIN trail[id] :
        Last(id, {"import", "archive", "restore"}, i) =>
            anchors[id].archived = trail[id][i].after.archived

\* Of a log with a record more, the last record of some actions is the new one or
\* the one it was.
LEMMA LastAppended ==
  ASSUME InventoryInv, InventoryInv', NEW w \in Workers, NEW id \in Anchors \cup Chains,
         RecordOf(w) \in Entry, trail'[id] = Append(trail[id], RecordOf(w)),
         NEW actions, NEW i \in DOMAIN trail'[id], Last(id, actions, i)'
  PROVE  /\ requests[w].op \in actions => trail'[id][i] = RecordOf(w)
         /\ requests[w].op \notin actions =>
               i \in DOMAIN trail[id] /\ Last(id, actions, i)
                  /\ trail'[id][i] = trail[id][i]
<1> DEFINE log == trail[id]
           longer == trail'[id]
           n == Len(log)
           entry == RecordOf(w)
<1>1. log \in Seq(Entry)
  BY DEF InventoryInv, TypeOK
<1>2. entry.action = requests[w].op
  BY DEF RecordOf
<1>3. /\ i \in DOMAIN longer /\ longer[i].action \in actions
      /\ \A k \in DOMAIN longer : longer[k].action \in actions => k <= i
  BY DEF Last
<1>4. entry \in Entry /\ longer = Append(log, entry)
  OBVIOUS
<1> HIDE DEF longer, entry
<1>5. /\ n \in Nat /\ DOMAIN log = 1 .. n /\ DOMAIN longer = 1 .. n + 1
      /\ longer[n + 1] = entry
      /\ \A k \in DOMAIN log : longer[k] = log[k]
  BY <1>1, <1>4, Appended
<1> HIDE DEF log, n
<1>6. CASE requests[w].op \in actions
  <2>1. n + 1 <= i
    BY <1>2, <1>3, <1>5, <1>6
  <2>2. i = n + 1
    BY <1>3, <1>5, <2>1
  <2> QED BY <1>5, <1>6, <2>2 DEF longer, entry
<1>7. CASE requests[w].op \notin actions
  <2>1. i # n + 1
    BY <1>2, <1>3, <1>5, <1>7
  <2>2. i \in DOMAIN log
    BY <1>3, <1>5, <2>1
  <2>3. /\ log[i].action \in actions
        /\ \A k \in DOMAIN log : log[k].action \in actions => k <= i
    BY <1>3, <1>5, <2>2
  <2>4. longer[i] = log[i]
    BY <1>5, <2>2
  <2> QED BY <1>7, <2>2, <2>3, <2>4 DEF Last, log, longer
<1> QED BY <1>6, <1>7

\* Whether a revocation is on record in a log with a record more.
LEMMA RevokeAppended ==
  ASSUME InventoryInv, NEW w \in Workers, NEW id \in Anchors \cup Chains,
         RecordOf(w) \in Entry, trail'[id] = Append(trail[id], RecordOf(w))
  PROVE  (\E i \in DOMAIN trail'[id] : trail'[id][i].action = "revoke") <=>
           \/ requests[w].op = "revoke"
           \/ \E i \in DOMAIN trail[id] : trail[id][i].action = "revoke"
<1> DEFINE log == trail[id]
           longer == trail'[id]
           n == Len(log)
           entry == RecordOf(w)
<1>1. log \in Seq(Entry)
  BY DEF InventoryInv, TypeOK
<1>2. entry.action = requests[w].op
  BY DEF RecordOf
<1>3. entry \in Entry /\ longer = Append(log, entry)
  OBVIOUS
<1> HIDE DEF longer, entry
<1>4. /\ n \in Nat /\ DOMAIN log = 1 .. n /\ DOMAIN longer = 1 .. n + 1
      /\ longer[n + 1] = entry
      /\ \A k \in DOMAIN log : longer[k] = log[k]
  BY <1>1, <1>3, Appended
<1> HIDE DEF log, n
<1>5. (\E i \in DOMAIN longer : longer[i].action = "revoke") <=>
        \/ entry.action = "revoke"
        \/ \E i \in DOMAIN log : log[i].action = "revoke"
  <2>1. \A i : i \in DOMAIN longer <=> i \in DOMAIN log \/ i = n + 1
    BY <1>4
  <2> QED BY <1>4, <2>1
<1> QED BY <1>2, <1>5 DEF log, longer

\* A step keeps the log of an anchor true.
LEMMA AnchorLogKept ==
  ASSUME InventoryInv, [Next]_vars, NEW id \in Anchors,
         Revoked(id), DateOnRecord(id), ArchiveOnRecord(id)
  PROVE  Revoked(id)' /\ DateOnRecord(id)' /\ ArchiveOnRecord(id)'
<1>1. InventoryInv'
  BY NextKeeps
<1>2. CASE anchors'[id] = anchors[id] /\ trail'[id] = trail[id]
  BY <1>2 DEF Revoked, DateOnRecord, ArchiveOnRecord, Last
<1>3. ASSUME NEW w \in Workers, requests[w].id = id, StoresAnchor(w)
      PROVE  Revoked(id)' /\ DateOnRecord(id)' /\ ArchiveOnRecord(id)'
  <2>1. /\ requests[w].pc = "commit" /\ requests[w].op = "import"
        /\ anchors[id] = NoAnchorRow
        /\ requests[w].want.revokedAt = 0
        /\ anchors' = [anchors EXCEPT ![id] = requests[w].want]
    BY <1>3, StoresAnchorEffect
  <2>2. /\ RecordOf(w) \in Entry /\ Record(w)
        /\ trail' = [trail EXCEPT ![id] = Append(trail[id], RecordOf(w))]
    BY <1>3, <2>1, RecordEffect DEF StoresAnchor
  <2>3. trail'[id] = Append(trail[id], RecordOf(w))
        /\ anchors'[id] = requests[w].want
    BY <2>1, <2>2 DEF InventoryInv, TypeOK
  <2>4. RecordOf(w).after = requests[w].want
    BY DEF RecordOf
  <2>5. anchors[id].revokedAt = 0
    BY <2>1 DEF NoAnchorRow
  <2>6. ~ \E i \in DOMAIN trail[id] : trail[id][i].action = "revoke"
    BY <2>5 DEF Revoked
  <2>7. ~ \E i \in DOMAIN trail'[id] : trail'[id][i].action = "revoke"
    BY <2>1, <2>2, <2>3, <2>6, RevokeAppended
  <2>8. Revoked(id)'
    BY <2>1, <2>3, <2>7 DEF Revoked
  <2>9. DateOnRecord(id)'
    BY <2>7 DEF DateOnRecord, Last
  <2>10. ASSUME NEW i \in DOMAIN trail'[id],
                Last(id, {"import", "archive", "restore"}, i)'
         PROVE  anchors'[id].archived = trail'[id][i].after.archived
    <3>1. trail'[id][i] = RecordOf(w)
      BY <1>1, <2>1, <2>2, <2>3, <2>10, LastAppended
    <3> QED BY <2>3, <2>4, <3>1
  <2>11. ArchiveOnRecord(id)'
    BY <2>10 DEF ArchiveOnRecord
  <2> QED BY <2>8, <2>9, <2>11
<1>4. ASSUME NEW w \in Workers, requests[w].id = id, CommitLifecycle(w)
      PROVE  Revoked(id)' /\ DateOnRecord(id)' /\ ArchiveOnRecord(id)'
  <2> DEFINE op == requests[w].op
             want == requests[w].want
  <2>1. requests[w].pc = "commit" /\ op \in {"revoke", "archive", "restore"}
    BY <1>4, CommitLifecycleEffect
  <2>2. op = "revoke" => /\ anchors'[id].revokedAt = want.revokedAt
                         /\ want.revokedAt # 0
                         /\ anchors'[id].archived = anchors[id].archived
    BY <1>4, CommitLifecycleRows
  <2>3. op # "revoke" => /\ anchors'[id].revokedAt = anchors[id].revokedAt
                         /\ anchors'[id].archived = want.archived
    BY <1>4, CommitLifecycleRows
  <2>4. /\ RecordOf(w) \in Entry /\ Record(w)
        /\ trail' = [trail EXCEPT ![id] = Append(trail[id], RecordOf(w))]
    BY <1>4, <2>1, RecordEffect DEF CommitLifecycle
  <2>5. trail'[id] = Append(trail[id], RecordOf(w))
    BY <2>4 DEF InventoryInv, TypeOK
  <2>6. RecordOf(w).after = want
    BY DEF RecordOf
  <2> HIDE DEF op, want
  <2>7. Revoked(id)'
    <3>1. (\E i \in DOMAIN trail'[id] : trail'[id][i].action = "revoke") <=>
            \/ op = "revoke"
            \/ \E i \in DOMAIN trail[id] : trail[id][i].action = "revoke"
      BY <2>4, <2>5, RevokeAppended DEF op
    <3>2. anchors'[id].revokedAt # 0 <=> op = "revoke" \/ anchors[id].revokedAt # 0
      BY <2>2, <2>3
    <3> QED BY <3>1, <3>2 DEF Revoked
  <2>8. ASSUME NEW i \in DOMAIN trail'[id], Last(id, {"revoke"}, i)'
        PROVE  anchors'[id].revokedAt = trail'[id][i].after.revokedAt
    <3>1. CASE op = "revoke"
      <4>1. trail'[id][i] = RecordOf(w)
        BY <1>1, <2>4, <2>5, <2>8, <3>1, LastAppended DEF op
      <4> QED BY <2>2, <2>6, <3>1, <4>1
    <3>2. CASE op # "revoke"
      <4>1. i \in DOMAIN trail[id] /\ Last(id, {"revoke"}, i)
            /\ trail'[id][i] = trail[id][i]
        BY <1>1, <2>4, <2>5, <2>8, <3>2, LastAppended DEF op
      <4> QED BY <2>3, <3>2, <4>1 DEF DateOnRecord
    <3> QED BY <3>1, <3>2
  <2>9. ASSUME NEW i \in DOMAIN trail'[id],
               Last(id, {"import", "archive", "restore"}, i)'
        PROVE  anchors'[id].archived = trail'[id][i].after.archived
    <3>1. CASE op = "revoke"
      <4>1. op \notin {"import", "archive", "restore"}
        BY <3>1
      <4>2. i \in DOMAIN trail[id] /\ Last(id, {"import", "archive", "restore"}, i)
            /\ trail'[id][i] = trail[id][i]
        BY <1>1, <2>4, <2>5, <2>9, <4>1, LastAppended DEF op
      <4> QED BY <2>2, <3>1, <4>2 DEF ArchiveOnRecord
    <3>2. CASE op # "revoke"
      <4>1. op \in {"import", "archive", "restore"}
        BY <2>1, <3>2 DEF op
      <4>2. trail'[id][i] = RecordOf(w)
        BY <1>1, <2>4, <2>5, <2>9, <4>1, LastAppended DEF op
      <4> QED BY <2>3, <2>6, <3>2, <4>2
    <3> QED BY <3>1, <3>2
  <2> QED BY <2>7, <2>8, <2>9 DEF DateOnRecord, ArchiveOnRecord
<1> QED BY <1>2, <1>3, <1>4, AnchorSteps

\* The audit log accounts for every anchor.
THEOREM AuditAccountsForAnchorsHolds == Spec => []AuditAccountsForAnchors
<1> DEFINE Accounted ==
      \A id \in Anchors : Revoked(id) /\ DateOnRecord(id) /\ ArchiveOnRecord(id)
<1>1. Init => Accounted
  <2> SUFFICES ASSUME Init, NEW id \in Anchors
               PROVE  Revoked(id) /\ DateOnRecord(id) /\ ArchiveOnRecord(id)
    OBVIOUS
  <2>1. trail[id] = << >>
    BY DEF Init
  <2>2. anchors[id].revokedAt = 0
    <3>1. CASE id \in DOMAIN FirstAnchors
      <4>1. anchors[id] = Imported(FirstAnchors[id], clock)
            /\ FirstAnchors[id] \in Certificates
        BY <3>1, FirstAssumption DEF Init
      <4>2. Imported(FirstAnchors[id], clock).revokedAt = 0
        BY <4>1, ImportedType, Zenon
      <4> QED BY <4>1, <4>2, Zenon
    <3>2. CASE id \notin DOMAIN FirstAnchors
      <4>1. anchors[id] = NoAnchorRow
        BY <3>2 DEF Init
      <4> QED BY <4>1 DEF NoAnchorRow
    <3> QED BY <3>1, <3>2
  <2> QED BY <2>1, <2>2 DEF Revoked, DateOnRecord, ArchiveOnRecord
<1>2. InventoryInv /\ Accounted /\ [Next]_vars => Accounted'
  <2> SUFFICES ASSUME InventoryInv, Accounted, [Next]_vars, NEW id \in Anchors
               PROVE  Revoked(id)' /\ DateOnRecord(id)' /\ ArchiveOnRecord(id)'
    OBVIOUS
  <2> QED BY AnchorLogKept
<1>3. Accounted => AuditAccountsForAnchors
  BY DEF Revoked, DateOnRecord, ArchiveOnRecord, AuditAccountsForAnchors
<1> QED BY <1>1, <1>2, <1>3, InventoryIsSound, PTL DEF Spec

\* What the audit log must say of one chain.
MovesAreLegal(id) ==
    \A i \in DOMAIN trail[id] :
        trail[id][i].action = "transition" =>
            CanTransitionChain(trail[id][i].before.chainState,
                               trail[id][i].after.chainState)

RecordsConnect(id) ==
    \A i \in 2 .. Len(trail[id]) :
        trail[id][i].before.chainState = trail[id][i - 1].after.chainState

EndsInState(id) ==
    trail[id] # << >> =>
        chains[id].chainState = trail[id][Len(trail[id])].after.chainState

\* A record that begins in the state of the chain keeps its log true.
LEMMA ChainRecorded ==
  ASSUME InventoryInv, NEW w \in Workers, NEW id \in Chains,
         RecordOf(w) \in Entry, trail'[id] = Append(trail[id], RecordOf(w)),
         requests[w].row.chainState = chains[id].chainState,
         chains'[id].chainState = requests[w].want.chainState,
         requests[w].op = "transition" =>
            CanTransitionChain(requests[w].row.chainState, requests[w].want.chainState),
         MovesAreLegal(id), RecordsConnect(id), EndsInState(id)
  PROVE  MovesAreLegal(id)' /\ RecordsConnect(id)' /\ EndsInState(id)'
<1> DEFINE log == trail[id]
           longer == trail'[id]
           n == Len(log)
           entry == RecordOf(w)
<1>1. log \in Seq(Entry)
  BY DEF InventoryInv, TypeOK
<1>2. /\ entry.action = requests[w].op /\ entry.before = requests[w].row
      /\ entry.after = requests[w].want
  BY DEF RecordOf
<1>3. entry \in Entry /\ longer = Append(log, entry)
  OBVIOUS
<1> HIDE DEF longer, entry
<1>4. /\ n \in Nat /\ DOMAIN log = 1 .. n /\ DOMAIN longer = 1 .. n + 1
      /\ Len(longer) = n + 1
      /\ longer[n + 1] = entry
      /\ \A k \in DOMAIN log : longer[k] = log[k]
  BY <1>1, <1>3, Appended
<1>5. log = << >> <=> n = 0
  BY <1>1
<1> HIDE DEF log, n
<1>6. ASSUME NEW i \in DOMAIN longer, longer[i].action = "transition"
      PROVE  CanTransitionChain(longer[i].before.chainState, longer[i].after.chainState)
  <2>1. CASE i = n + 1
    BY <1>2, <1>4, <1>6, <2>1
  <2>2. CASE i # n + 1
    <3>1. i \in DOMAIN log
      BY <1>4, <2>2
    <3> QED BY <1>4, <1>6, <3>1 DEF MovesAreLegal, log
  <2> QED BY <2>1, <2>2
<1>7. ASSUME NEW i \in 2 .. n + 1
      PROVE  longer[i].before.chainState = longer[i - 1].after.chainState
  <2>1. i - 1 \in DOMAIN log /\ longer[i - 1] = log[i - 1]
    BY <1>4
  <2>2. CASE i = n + 1
    <3>1. log # << >> /\ i - 1 = n
      BY <1>4, <1>5, <2>1, <2>2
    <3>2. chains[id].chainState = log[n].after.chainState
      BY <3>1 DEF EndsInState, log, n
    <3> QED BY <1>2, <1>4, <2>1, <2>2, <3>1, <3>2
  <2>3. CASE i # n + 1
    <3>1. i \in 2 .. n /\ i \in DOMAIN log
      BY <1>4, <2>3
    <3>2. log[i].before.chainState = log[i - 1].after.chainState
      BY <3>1 DEF RecordsConnect, log, n
    <3> QED BY <1>4, <2>1, <3>1, <3>2
  <2> QED BY <2>2, <2>3
<1>8. chains'[id].chainState = longer[Len(longer)].after.chainState
  BY <1>2, <1>4
<1> QED BY <1>4, <1>6, <1>7, <1>8 DEF MovesAreLegal, RecordsConnect, EndsInState, longer

\* A step leaves a chain and its log alone, or it is the commit of a request on it.
LEMMA ChainSteps ==
  ASSUME InventoryInv, [Next]_vars, NEW id \in Chains
  PROVE  \/ chains'[id] = chains[id] /\ trail'[id] = trail[id]
         \/ \E w \in Workers :
               /\ requests[w].id = id
               /\ StoresChain(w) \/ MovesChain(w)
<1>1. chains \in [Chains -> ChainRow] /\ trail \in [Anchors \cup Chains -> Seq(Entry)]
      /\ id \notin Anchors
  BY NullAssumption DEF InventoryInv, TypeOK
<1>2. CASE Quiet
  BY <1>2 DEF Quiet
<1>3. ASSUME NEW w \in Workers, StoresChain(w), requests[w].id # id
      PROVE  chains'[id] = chains[id] /\ trail'[id] = trail[id]
  <2>1. /\ requests[w].pc = "commit"
        /\ chains' = [chains EXCEPT ![requests[w].id] = requests[w].want]
    BY <1>3, StoresChainEffect
  <2>2. trail' = [trail EXCEPT
               ![requests[w].id] = Append(trail[requests[w].id], RecordOf(w))]
    BY <1>3, <2>1, RecordEffect DEF StoresChain
  <2> QED BY <1>1, <1>3, <2>1, <2>2
<1>4. ASSUME NEW w \in Workers, MovesChain(w), requests[w].id # id
      PROVE  chains'[id] = chains[id] /\ trail'[id] = trail[id]
  <2> DEFINE to == requests[w].want.chainState
             other == requests[w].id
  <2>1. /\ requests[w].pc = "commit"
        /\ chains' = [chains EXCEPT ![other] = [@ EXCEPT !.chainState = to]]
    BY <1>4, MovesChainEffect
  <2>2. trail' = [trail EXCEPT
               ![requests[w].id] = Append(trail[requests[w].id], RecordOf(w))]
    BY <1>4, <2>1, RecordEffect DEF MovesChain
  <2> QED BY <1>1, <1>4, <2>1, <2>2
<1>5. ASSUME NEW w \in Workers, StoresAnchor(w) \/ CommitLifecycle(w)
      PROVE  chains'[id] = chains[id] /\ trail'[id] = trail[id]
  <2>1. /\ requests[w].pc = "commit" /\ requests[w].id \in Anchors
        /\ UNCHANGED chains
    BY <1>5, StoresAnchorEffect, CommitLifecycleEffect
  <2>2. trail' = [trail EXCEPT
               ![requests[w].id] = Append(trail[requests[w].id], RecordOf(w))]
    BY <1>5, <2>1, RecordEffect DEF StoresAnchor, CommitLifecycle
  <2> QED BY <1>1, <2>1, <2>2
<1> QED BY <1>2, <1>3, <1>4, <1>5, StepCases DEF Commits

\* A step keeps the log of a chain true.
LEMMA ChainLogKept ==
  ASSUME InventoryInv, [Next]_vars, NEW id \in Chains,
         MovesAreLegal(id), RecordsConnect(id), EndsInState(id)
  PROVE  MovesAreLegal(id)' /\ RecordsConnect(id)' /\ EndsInState(id)'
<1>1. CASE chains'[id] = chains[id] /\ trail'[id] = trail[id]
  BY <1>1 DEF MovesAreLegal, RecordsConnect, EndsInState
<1>2. ASSUME NEW w \in Workers, requests[w].id = id, StoresChain(w)
      PROVE  MovesAreLegal(id)' /\ RecordsConnect(id)' /\ EndsInState(id)'
  <2>1. /\ requests[w].pc = "commit" /\ requests[w].op = "import"
        /\ chains[id].chainState = "absent" /\ requests[w].row = NoChainRow
        /\ chains' = [chains EXCEPT ![id] = requests[w].want]
    BY <1>2, StoresChainEffect
  <2>2. /\ RecordOf(w) \in Entry /\ Record(w)
        /\ trail' = [trail EXCEPT ![id] = Append(trail[id], RecordOf(w))]
    BY <1>2, <2>1, RecordEffect DEF StoresChain
  <2>3. /\ trail'[id] = Append(trail[id], RecordOf(w))
        /\ chains'[id].chainState = requests[w].want.chainState
    BY <2>1, <2>2 DEF InventoryInv, TypeOK
  <2>4. requests[w].row.chainState = chains[id].chainState
    BY <2>1 DEF NoChainRow
  <2>5. requests[w].op # "transition"
    BY <2>1
  <2> QED BY <2>2, <2>3, <2>4, <2>5, ChainRecorded
<1>3. ASSUME NEW w \in Workers, requests[w].id = id, MovesChain(w)
      PROVE  MovesAreLegal(id)' /\ RecordsConnect(id)' /\ EndsInState(id)'
  <2> DEFINE to == requests[w].want.chainState
  <2>1. /\ requests[w].pc = "commit"
        /\ requests[w].row.chainState = chains[id].chainState
        /\ CanTransitionChain(requests[w].row.chainState, to)
        /\ chains' = [chains EXCEPT ![id] = [@ EXCEPT !.chainState = to]]
    BY <1>3, MovesChainEffect
  <2>2. /\ RecordOf(w) \in Entry /\ Record(w)
        /\ trail' = [trail EXCEPT ![id] = Append(trail[id], RecordOf(w))]
    BY <1>3, <2>1, RecordEffect DEF MovesChain
  <2>3. trail'[id] = Append(trail[id], RecordOf(w))
    BY <2>2 DEF InventoryInv, TypeOK
  <2>4. chains'[id].chainState = to
    <3>1. chains[id] \in ChainRow /\ chains \in [Chains -> ChainRow]
      BY DEF InventoryInv, TypeOK
    <3> HIDE DEF to
    <3> QED BY <2>1, <3>1 DEF ChainRow
  <2> QED BY <2>1, <2>2, <2>3, <2>4, ChainRecorded
<1> QED BY <1>1, <1>2, <1>3, ChainSteps

\* The audit log accounts for every chain.
THEOREM AuditAccountsForChainsHolds == Spec => []AuditAccountsForChains
<1> DEFINE Accounted ==
      \A id \in Chains : MovesAreLegal(id) /\ RecordsConnect(id) /\ EndsInState(id)
<1>1. Init => Accounted
  <2> SUFFICES ASSUME Init, NEW id \in Chains
               PROVE  MovesAreLegal(id) /\ RecordsConnect(id) /\ EndsInState(id)
    OBVIOUS
  <2>1. trail[id] = << >>
    BY DEF Init
  <2> QED BY <2>1 DEF MovesAreLegal, RecordsConnect, EndsInState
<1>2. InventoryInv /\ Accounted /\ [Next]_vars => Accounted'
  <2> SUFFICES ASSUME InventoryInv, Accounted, [Next]_vars, NEW id \in Chains
               PROVE  MovesAreLegal(id)' /\ RecordsConnect(id)' /\ EndsInState(id)'
    OBVIOUS
  <2> QED BY ChainLogKept
<1>3. Accounted => AuditAccountsForChains
  BY DEF MovesAreLegal, RecordsConnect, EndsInState, AuditAccountsForChains
<1> QED BY <1>1, <1>2, <1>3, InventoryIsSound, PTL DEF Spec

-----------------------------------------------------------------------------
(* What an import guarantees.                                              *)

\* At every time at which two stored chains are said to overlap, each of their
\* bundles verifies, although it was verified only once.
THEOREM OverlapIsVerifiedHolds == Spec => []OverlapIsVerified
<1>1. ASSUME InventoryInv, NEW id \in Chains, NEW otherID \in Chains,
             chains[id].chainState # "absent", chains[otherID].chainState # "absent",
             NEW at \in Overlap(chains[id], chains[otherID]).start ..
                        (Overlap(chains[id], chains[otherID]).end - 1)
      PROVE  at \in verified[anchors[chains[id].anchor].certificate][chains[id].bundle]
  <2> DEFINE first == chains[id]
             second == chains[otherID]
             certificate == anchors[first.anchor].certificate
             bundle == first.bundle
  <2>1. /\ Sound(anchors, first)
        /\ first.validFrom \in Int /\ first.validTo \in Int
        /\ second.validFrom \in Int /\ second.validTo \in Int
    BY <1>1 DEF InventoryInv, ChainsAreSound, TypeOK, ChainRow
  <2>2. certificate \in Certificates
    BY <1>1, <2>1 DEF Sound, InventoryInv, AnchorsAreSound
  <2> HIDE DEF first, second
  <2>3. PICK before \in Int : ValidateChain(certificate, EncodePEM(bundle), before)
    BY <2>1 DEF Sound
  <2>4. /\ bundle \in Bundles /\ bundle \in Seq(Certificates)
        /\ first.validFrom = Window(certificate, bundle).from
        /\ first.validTo = Window(certificate, bundle).to
    BY <2>1 DEF Sound
  <2>5. /\ at \in Overlap(first, second).start .. (Overlap(first, second).end - 1)
        /\ Overlap(first, second).start \in Int /\ Overlap(first, second).end \in Int
        /\ first.validFrom <= Overlap(first, second).start
        /\ Overlap(first, second).end <= first.validTo
    <3> DEFINE start == Latest({first.validFrom, second.validFrom})
               end == Earliest({first.validTo, second.validTo})
    <3>1. start \in Int /\ first.validFrom <= start
      BY <2>1, OfTwo
    <3>2. end \in Int /\ end <= first.validTo
      <4> DEFINE s == first.validTo
                 t == second.validTo
      <4>1. end = IF s <= t THEN s ELSE t
        BY <2>1, OfTwo, Zenon
      <4>2. s \in Int /\ t \in Int
        BY <2>1
      <4> HIDE DEF s, t, end
      <4>3. end \in Int /\ end <= s
        BY <4>1, <4>2
      <4> QED BY <4>3 DEF s
    <3>3. Overlap(first, second) = [start |-> start, end |-> end]
      BY DEF Overlap
    <3> HIDE DEF start, end
    <3>4. Overlap(first, second).start = start /\ Overlap(first, second).end = end
      BY <3>3
    <3>5. at \in Overlap(first, second).start .. (Overlap(first, second).end - 1)
      BY <1>1, Zenon DEF first, second
    <3> QED BY <3>1, <3>2, <3>4, <3>5
  <2>6. at \in Int /\ first.validFrom <= at /\ at < first.validTo
    BY <2>1, <2>5
  <2> HIDE DEF certificate, bundle
  <2>7. ValidateChain(certificate, EncodePEM(bundle), at)
    BY <2>2, <2>3, <2>4, <2>6, VerifiedOverWindow
  <2>8. /\ Content[certificate].notBefore \in Int /\ Content[certificate].notAfter \in Int
        /\ Content[certificate].notBefore <= at /\ at < Content[certificate].notAfter
    <3>1. Content[certificate] \in CertificateContent
      BY <2>2, ContentAssumption
    <3> QED BY <2>7, <3>1 DEF ValidateChain, ValidateTrustAnchor, CertificateContent
  <2>9. verified[certificate][bundle] =
          {t \in Content[certificate].notBefore .. Content[certificate].notAfter :
              ValidateChain(certificate, EncodePEM(bundle), t)}
    BY <2>2, <2>4 DEF verified
  <2>10. at \in verified[certificate][bundle]
    BY <2>6, <2>7, <2>8, <2>9
  <2> QED BY <2>10 DEF certificate, bundle, first
<1>2. InventoryInv => OverlapIsVerified
  BY <1>1 DEF OverlapIsVerified
<1> QED BY <1>2, InventoryIsSound, PTL

\* A bundle is stored once, whatever the order in which it is sent.
THEOREM BundlesAreStoredOnceHolds == Spec => []BundlesAreStoredOnce
<1>1. ASSUME InventoryInv, NEW id \in Chains, NEW otherID \in Chains,
             id # otherID, chains[id].bundle # << >>,
             {chains[id].bundle[i] : i \in DOMAIN chains[id].bundle}
               = {chains[otherID].bundle[i] : i \in DOMAIN chains[otherID].bundle},
             ~Repeats(chains[id].bundle), ~Repeats(chains[otherID].bundle),
             {id, otherID} \cap DOMAIN FirstChains = {}
      PROVE  FALSE
  <2> DEFINE one == chains[id].bundle
             other == chains[otherID].bundle
  <2>1. one \in Seq(Certificates) /\ other \in Seq(Certificates)
    BY <1>1 DEF InventoryInv, TypeOK, ChainRow
  <2>2. Range(one) = Range(other) /\ one # << >>
    BY <1>1 DEF Range
  <2>3. DistinctSubjects(one) /\ DistinctSubjects(other)
    BY <1>1 DEF Repeats, DistinctSubjects, SubjectOf
  <2> HIDE DEF one, other
  <2>4. Refs(one) = Refs(other)
    BY <2>1, <2>2, <2>3, SameReferences
  <2>5. other # << >>
    BY <2>1, <2>2 DEF Range
  <2>6. chains[id].chainState # "absent" /\ chains[otherID].chainState # "absent"
    BY <1>1, <2>2, <2>5 DEF InventoryInv, ChainsAreSound, one, other
  <2>7. Stored(id) /\ Stored(otherID)
    BY <1>1, <2>6 DEF Stored
  <2>8. chains[id].fingerprint = ChainFingerprint(one)
        /\ chains[otherID].fingerprint = ChainFingerprint(other)
    BY <1>1, <2>7 DEF InventoryInv, FingerprintsAreUnique, one, other
  <2>9. chains[id].fingerprint = chains[otherID].fingerprint
    BY <2>4, <2>8 DEF ChainFingerprint
  <2> QED BY <1>1, <2>7, <2>9 DEF InventoryInv, FingerprintsAreUnique
<1>2. InventoryInv => BundlesAreStoredOnce
  BY <1>1 DEF BundlesAreStoredOnce
<1> QED BY <1>2, InventoryIsSound, PTL
=============================================================================
