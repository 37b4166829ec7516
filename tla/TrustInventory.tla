--------------------------- MODULE TrustInventory ---------------------------
(***************************************************************************)
(* The trust anchors and the certificate chains under them: import,        *)
(* lifecycle and transition, run concurrently over one database while      *)
(* certificates approach their expiry                                      *)
(* (backend/internal/service/trust_anchor_service.go,                      *)
(* certificate_chain_service.go and their repositories, handlers and       *)
(* routers; backend/internal/constants/certificate_state.go).              *)
(*                                                                         *)
(* A handler reads the row and the clock in one step and commits its       *)
(* update with its audit record in another.  The update of a chain asks    *)
(* that its state is still the one read; the update of an anchor does not. *)
(***************************************************************************)
EXTENDS Access, CertificateValidation

CONSTANTS
    Workers,      \* goroutines that serve requests
    Users,        \* authenticated users
    RoleOf,       \* the role of each user
    Anchors,      \* anchor codes
    Chains,       \* chain codes
    Notice,       \* how long before its expiry a certificate is "expiring"
    AnchorImports, \* what clients ask to import: codes and PEM texts
    ChainImports, \* codes, anchors and PEM texts
    NoUser, NoCertificate, NoAnchor,
    FirstAnchors, \* the anchors that exist at first, with their certificates
    FirstChains,  \* the chains that exist at first: their anchors and bundles
    Instants,     \* when something may happen; the clock shows one of them
    MaxWrites     \* bound on committed transactions

ASSUME RolesAssumption == RoleOf \in [Users -> Roles]

ASSUME NullAssumption ==
    /\ NoUser \notin Users
    /\ NoCertificate \notin Certificates
    /\ NoAnchor \notin Anchors
    /\ Anchors \cap Chains = {} /\ Anchors # {}

ASSUME TimeAssumption ==
    /\ Notice \in Nat /\ MaxWrites \in Nat
    /\ Instants \subseteq Nat \ {0} /\ Instants # {}

ASSUME ImportsAssumption ==
    /\ \A asked \in AnchorImports :
          asked.id \in Anchors /\ asked.text \in Text
    /\ \A asked \in ChainImports :
          /\ asked.id \in Chains /\ asked.anchor \in Anchors
          /\ asked.text \in Text

ASSUME FirstAssumption ==
    /\ DOMAIN FirstAnchors \subseteq Anchors
    /\ FirstAnchors \in [DOMAIN FirstAnchors -> Certificates]
    /\ DOMAIN FirstChains \subseteq Chains
    /\ \A id \in DOMAIN FirstChains :
          /\ FirstChains[id].anchor \in DOMAIN FirstAnchors
          /\ FirstChains[id].bundle \in Seq(Certificates)

\* The seed verifies nothing: it stores leaves that it has signed itself with
\* the anchors it stores.
ASSUME SeedAssumption ==
    \A id \in DOMAIN FirstChains :
        LET first == FirstChains[id]
        IN  /\ Len(first.bundle) = 1
            /\ ValidateChain(FirstAnchors[first.anchor], EncodePEM(first.bundle),
                             Earliest(Instants))

VARIABLES
    anchors,     \* the table of anchors: a row for every code
    chains,      \* the table of chains
    trail,       \* per anchor and chain, its rows of the audit log in order
    requests,    \* what each goroutine is doing
    clock,       \* the time
    writes       \* committed transactions so far

vars == <<anchors, chains, trail, requests, clock, writes>>

-----------------------------------------------------------------------------
(* States of certificates and chains.                                      *)

CertificateStates == {"valid", "expiring", "expired", "revoked"}

\* fault: the expiry is looked at before the revocation
CalculateCertificateState_ExpiryFirst(now, notAfter, revoked) ==
    CASE notAfter <= now              -> "expired"
      [] now < notAfter /\ revoked    -> "revoked"
      [] /\ now < notAfter /\ ~revoked
         /\ notAfter <= now + Notice  -> "expiring"
      [] OTHER                        -> "valid"
CalculateCertificateState(now, notAfter, revoked) ==
    CASE revoked                                -> "revoked"
      [] ~revoked /\ notAfter <= now            -> "expired"
      [] /\ ~revoked /\ now < notAfter
         /\ notAfter <= now + Notice            -> "expiring"
      [] OTHER                                  -> "valid"

ChainStates == {"imported", "validated", "deprecated", "revoked"}

moves ==
    [imported   |-> {"validated", "revoked"},
     validated  |-> {"deprecated", "revoked"},
     deprecated |-> {"revoked"},
     revoked    |-> {}]

CanTransitionChain(from, to) == to \in moves[from]

-----------------------------------------------------------------------------
(* Rows.  No anchor is revoked at time 0, which stands for NULL.           *)

AnchorRow ==
    [exists           : BOOLEAN,
     certificate      : Certificates \cup {NoCertificate},
     certificateState : CertificateStates,
     revokedAt        : Nat,
     archived         : BOOLEAN]

NoAnchorRow ==
    [exists |-> FALSE, certificate |-> NoCertificate,
     certificateState |-> "valid", revokedAt |-> 0, archived |-> FALSE]

\* fault: the state of a new anchor is not calculated
Imported_NoState(certificate, now) ==
    [NoAnchorRow EXCEPT
        !.exists = TRUE, !.certificate = certificate, !.certificateState = ""]
Imported(certificate, now) ==
    [NoAnchorRow EXCEPT
        !.exists = TRUE, !.certificate = certificate,
        !.certificateState =
            CalculateCertificateState(now, Content[certificate].notAfter, FALSE)]

ChainRow ==
    [chainState  : ChainStates \cup {"absent"},
     anchor      : Anchors \cup {NoAnchor},
     bundle      : Seq(Certificates),
     fingerprint : [format : {"joined", "printed"}, refs : Seq(Certificates)],
     validFrom   : Int,
     validTo     : Int]

NoChainRow ==
    [chainState |-> "absent", anchor |-> NoAnchor, bundle |-> << >>,
     fingerprint |-> ChainFingerprint(<< >>), validFrom |-> 0, validTo |-> 0]

\* What an import stores of a bundle that has been verified.
Validated(anchor, certificate, bundle) ==
    LET window == Window(certificate, bundle)
    IN  [chainState |-> "validated", anchor |-> anchor, bundle |-> bundle,
         fingerprint |-> ChainFingerprint(bundle),
         validFrom |-> window.from, validTo |-> window.to]

seedChain(anchor, certificate, bundle) ==
    LET window == seedWindow(certificate, bundle)
    IN  [chainState |-> "validated", anchor |-> anchor, bundle |-> bundle,
         fingerprint |-> seedFingerprint(bundle),
         validFrom |-> window.from, validTo |-> window.to]

Operations == {"import", "revoke", "archive", "restore", "transition"}
Rows == AnchorRow \cup ChainRow
Entry == [action : Operations, actor : Users, before : Rows, after : Rows]

-----------------------------------------------------------------------------
(* Requests.                                                               *)

Answers ==
    {"none", "ok", "notFound", "invalid", "alreadyExists", "alreadyRevoked",
     "cannotRestore", "illegalTransition", "changedConcurrently", "internal"}

Request ==
    [pc     : {"idle", "commit", "respond", "answered"},
     op     : Operations,
     user   : Users \cup {NoUser},
     id     : Anchors \cup Chains,
     row    : Rows,            \* the row as this handler read it
     want   : Rows,            \* the row it means to leave behind
     answer : Answers]

Idle ==
    [pc |-> "idle", op |-> "import", user |-> NoUser,
     id |-> CHOOSE id \in Anchors : TRUE,
     row |-> NoAnchorRow, want |-> NoAnchorRow, answer |-> "none"]

\* A new request arrives only while the bound allows it to commit.
Free(w) == requests[w].pc = "idle" /\ writes < MaxWrites

Become(w, request) ==
    /\ requests' = [requests EXCEPT ![w] = request]
    /\ UNCHANGED <<anchors, chains, trail, clock, writes>>

Refuse(w, answer) ==
    Become(w, [Idle EXCEPT !.pc = "answered", !.answer = answer])

Prepare(w, op, user, id, row, want) ==
    Become(w, [Idle EXCEPT !.pc = "commit", !.op = op, !.user = user,
                           !.id = id, !.row = row, !.want = want])

-----------------------------------------------------------------------------
(* The read of each handler and the checks made on it.                     *)

\* POST /trust-anchors: the certificate is parsed and must be valid now.
ValidateAnchor(w) ==
    /\ Free(w)
    /\ \E user \in Users, asked \in AnchorImports :
          LET certificate == ParseCertificatePEM(asked.text)
              valid == /\ ParsesAsCertificate(asked.text)
                       /\ ValidateTrustAnchor(certificate, clock)
          IN  /\ HasPermission(RoleOf[user], "anchor.write")
              /\ \/ ~valid /\ Refuse(w, "invalid")
                 \/ valid /\ Prepare(w, "import", user, asked.id, NoAnchorRow,
                                     Imported(certificate, clock))

\* What an action does to an anchor at a time.
Lifecycle(row, action, now) ==
    CASE action = "revoke"  -> [row EXCEPT !.revokedAt = now,
                                           !.certificateState = "revoked"]
      [] action = "archive" -> [row EXCEPT !.archived = TRUE]
      [] action = "restore" -> [row EXCEPT !.archived = FALSE]

\* What may be asked of a revoked anchor.
Allowed_Restore(row, action) ==  \* fault: it may be restored
    row.revokedAt # 0 => action # "revoke"
Allowed(row, action) == row.revokedAt # 0 => action = "archive"

\* POST /trust-anchors/:id/lifecycle
LoadForLifecycle(w) ==
    /\ Free(w)
    /\ \E user \in Users, id \in Anchors, action \in {"revoke", "archive", "restore"} :
          LET row == anchors[id]
          IN  /\ HasPermission(RoleOf[user], "anchor.write")
              /\ \/ /\ ~row.exists
                    /\ Refuse(w, "notFound")
                 \/ /\ row.exists /\ ~Allowed(row, action)
                    /\ Refuse(w, IF action = "revoke" THEN "alreadyRevoked"
                                                     ELSE "cannotRestore")
                 \/ /\ row.exists /\ Allowed(row, action)
                    /\ Prepare(w, action, user, id, row,
                               Lifecycle(row, action, clock))

\* POST /certificate-chains: the anchor is read, whether revoked or archived
\* does not matter, and the bundle verified against its certificate now.
LoadForChain(w) ==
    /\ Free(w)
    /\ \E user \in Users, asked \in ChainImports :
          LET row == anchors[asked.anchor]
              valid == ValidateChain(row.certificate, asked.text, clock)
          IN  /\ HasPermission(RoleOf[user], "chain.write")
              /\ \/ ~row.exists /\ Refuse(w, "notFound")
                 \/ row.exists /\ ~valid /\ Refuse(w, "invalid")
                 \/ /\ row.exists /\ valid
                    /\ Prepare(w, "import", user, asked.id, NoChainRow,
                          Validated(asked.anchor, row.certificate,
                                    ParseCertificateBundle(asked.text)))

\* POST /certificate-chains/:id/transition
LoadForTransition(w) ==
    /\ Free(w)
    /\ \E user \in Users, id \in Chains,
          to \in {"validated", "deprecated", "revoked"} :
          LET row == chains[id]
          IN  /\ HasPermission(RoleOf[user], "chain.write")
              /\ \/ /\ row.chainState = "absent"
                    /\ Refuse(w, "notFound")
                 \/ /\ row.chainState # "absent"
                    /\ ~CanTransitionChain(row.chainState, to)
                    /\ Refuse(w, "illegalTransition")
                 \/ /\ row.chainState # "absent"
                    /\ CanTransitionChain(row.chainState, to)
                    /\ Prepare(w, "transition", user, id, row,
                               [row EXCEPT !.chainState = to])

-----------------------------------------------------------------------------
(* The transactions.                                                       *)

Pending(w, op, ids) ==
    requests[w].pc = "commit" /\ requests[w].op = op /\ requests[w].id \in ids

\* The audit record, which tells the change as the handler saw it.
Record(w) ==
    LET request == requests[w]
    IN  /\ writes < MaxWrites
        /\ writes' = writes + 1
        /\ trail' = [trail EXCEPT ![request.id] =
               Append(@, [action |-> request.op, actor |-> request.user,
                          before |-> request.row, after |-> request.want])]
        /\ requests' = [requests EXCEPT ![w] =
               [Idle EXCEPT !.pc = "respond", !.op = request.op]]
        /\ UNCHANGED clock

\* Codes and fingerprints of anchors are unique.
AnchorTaken(id, certificate) ==
    \E other \in Anchors :
        /\ anchors[other].exists
        /\ other = id \/ anchors[other].certificate = certificate

CommitAnchor(w) ==
    LET request == requests[w]
    IN  /\ Pending(w, "import", Anchors)
        /\ \/ /\ AnchorTaken(request.id, request.want.certificate)
              /\ Refuse(w, "alreadyExists")
           \/ /\ ~AnchorTaken(request.id, request.want.certificate)
              /\ anchors' = [anchors EXCEPT ![request.id] = request.want]
              /\ Record(w)
              /\ UNCHANGED chains

\* UPDATE ... WHERE id = ?: only the columns of the action, whatever has
\* happened to the anchor since it was read.
SetLifecycle_SavesRow(current, request) == request.want  \* fault: every column
SetLifecycle(current, request) ==
    Lifecycle(current, request.op, request.want.revokedAt)

CommitLifecycle(w) ==
    LET request == requests[w]
    IN  /\ \E action \in {"revoke", "archive", "restore"} :
              Pending(w, action, Anchors)
        /\ anchors' = [anchors EXCEPT ![request.id] =
                          SetLifecycle(anchors[request.id], request)]
        /\ Record(w)
        /\ UNCHANGED chains

\* Codes and fingerprints of chains are unique; the anchor is not part of
\* the fingerprint.
ChainTaken(id, fingerprint) ==
    \E other \in Chains :
        /\ chains[other].chainState # "absent"
        /\ other = id \/ chains[other].fingerprint = fingerprint

CommitChain(w) ==
    LET request == requests[w]
    IN  /\ Pending(w, "import", Chains)
        /\ \/ /\ ChainTaken(request.id, request.want.fingerprint)
              /\ Refuse(w, "alreadyExists")
           \/ /\ ~ChainTaken(request.id, request.want.fingerprint)
              /\ chains' = [chains EXCEPT ![request.id] = request.want]
              /\ Record(w)
              /\ UNCHANGED anchors

\* WHERE id = ? AND chain_state = <from>
Matches_NoState(row, from) == TRUE  \* fault: WHERE id = ? only
Matches(row, from) == row.chainState = from

CommitTransition(w) ==
    LET request == requests[w]
        current == chains[request.id]
    IN  /\ Pending(w, "transition", Chains)
        /\ \/ /\ ~Matches(current, request.row.chainState)
              /\ Refuse(w, "changedConcurrently")
           \/ /\ Matches(current, request.row.chainState)
              /\ chains' = [chains EXCEPT ![request.id].chainState =
                               request.want.chainState]
              /\ Record(w)
              /\ UNCHANGED anchors

\* fault: without a transaction the anchor changes although its record fails
Abort_ChangeStays(w) ==
    /\ requests[w].pc = "commit"
    /\ requests' = [requests EXCEPT ![w] = Idle]
    /\ anchors' = [id \in Anchors |->
           IF id = requests[w].id /\ anchors[id].exists
           THEN requests[w].want ELSE anchors[id]]
    /\ UNCHANGED <<chains, trail, clock, writes>>

\* The transaction fails and nothing of it remains.
Abort(w) == requests[w].pc = "commit" /\ Refuse(w, "internal")

\* A handler that changed a row reads it again for the response, one that
\* inserted a row answers with what it inserted.
Respond(w) ==
    /\ requests[w].pc = "respond"
    /\ \/ Refuse(w, "ok")
       \/ requests[w].op # "import" /\ Refuse(w, "internal")

Finish(w) == requests[w].pc = "answered" /\ Become(w, Idle)

\* The server crashes: requests in flight are lost, what has committed stays.
Restart ==
    /\ requests' = [w \in Workers |-> Idle]
    /\ UNCHANGED <<anchors, chains, trail, clock, writes>>

Tick ==
    /\ \E now \in Instants : clock < now /\ clock' = now
    /\ UNCHANGED <<anchors, chains, trail, requests, writes>>

-----------------------------------------------------------------------------
Init ==
    /\ clock = Earliest(Instants)
    /\ anchors = [id \in Anchors |->
           IF id \in DOMAIN FirstAnchors THEN Imported(FirstAnchors[id], clock)
                                         ELSE NoAnchorRow]
    /\ chains = [id \in Chains |->
           IF id \in DOMAIN FirstChains
           THEN LET first == FirstChains[id]
                IN  seedChain(first.anchor, FirstAnchors[first.anchor], first.bundle)
           ELSE NoChainRow]
    /\ trail = [id \in Anchors \cup Chains |-> << >>]
    /\ requests = [w \in Workers |-> Idle]
    /\ writes = 0

Step(w) ==
    \/ ValidateAnchor(w) \/ CommitAnchor(w)
    \/ LoadForLifecycle(w) \/ CommitLifecycle(w)
    \/ LoadForChain(w) \/ CommitChain(w)
    \/ LoadForTransition(w) \/ CommitTransition(w)
    \/ Abort(w) \/ Respond(w) \/ Finish(w)

Next == Restart \/ Tick \/ \E w \in Workers : Step(w)

Spec == Init /\ [][Next]_vars

-----------------------------------------------------------------------------
(* Properties.                                                             *)

\* Every variable keeps its type.
TypeOK ==
    /\ anchors \in [Anchors -> AnchorRow]
    /\ chains \in [Chains -> ChainRow]
    /\ trail \in [Anchors \cup Chains -> Seq(Entry)]
    /\ requests \in [Workers -> Request]
    /\ clock \in Instants
    /\ writes \in Nat

\* No lifecycle request, however old the row it has read, undoes the
\* revocation of an anchor: it keeps a date and its state stays revoked.
RevocationIsFinal ==
    [][\A id \in Anchors :
          anchors[id].revokedAt # 0 =>
              /\ anchors'[id].revokedAt # 0
              /\ anchors'[id].certificateState = "revoked"]_vars

Last(id, actions, i) ==
    /\ i \in DOMAIN trail[id] /\ trail[id][i].action \in actions
    /\ \A k \in DOMAIN trail[id] : trail[id][k].action \in actions => k <= i

\* The audit log accounts for every anchor: it is revoked if and only if a
\* revocation is on record, the date it carries is that of the last one, and
\* it is archived as the last archiving or restoring says.
AuditAccountsForAnchors ==
    \A id \in Anchors :
        /\ anchors[id].revokedAt # 0 <=>
              \E i \in DOMAIN trail[id] : trail[id][i].action = "revoke"
        /\ \A i \in DOMAIN trail[id] :
              LET recorded == trail[id][i].after
              IN  /\ Last(id, {"revoke"}, i) =>
                        anchors[id].revokedAt = recorded.revokedAt
                  /\ Last(id, {"import", "archive", "restore"}, i) =>
                        anchors[id].archived = recorded.archived

severity == [valid |-> 1, expiring |-> 2, expired |-> 3, revoked |-> 4]

Shown(row, now) ==
    severity[CalculateCertificateState(now, Content[row.certificate].notAfter,
                                       row.revokedAt # 0)]

\* The state a client is shown of an anchor only ever gets worse, from valid
\* over expiring and expired to revoked, although it is calculated anew from
\* the clock and the row for every response.
ShownStateOnlyWorsens ==
    [][\A id \in Anchors :
          anchors[id].exists =>
              Shown(anchors[id], clock) <= Shown(anchors'[id], clock')]_vars

\* The audit log accounts for every chain: each record is a legal move, begins
\* in the state the one before left, and the last leaves the state the chain
\* is in; a chain that was deprecated or revoked never returns.
AuditAccountsForChains ==
    \A id \in Chains :
        LET log == trail[id]
        IN  /\ \A i \in DOMAIN log :
                  log[i].action = "transition" =>
                      CanTransitionChain(log[i].before.chainState,
                                         log[i].after.chainState)
            /\ \A i \in 2..Len(log) :
                  log[i].before.chainState = log[i - 1].after.chainState
            /\ log # << >> =>
                  chains[id].chainState = log[Len(log)].after.chainState

\* A revoked anchor returns from the archive only through a restore that was
\* overtaken: it read the anchor before the revocation committed.
RestoreWasOvertaken ==
    [][\A id \in Anchors :
          /\ anchors[id].revokedAt # 0
          /\ anchors[id].archived /\ ~anchors'[id].archived
          => \E w \in Workers :
                /\ Pending(w, "restore", {id})
                /\ requests[w].row.revokedAt = 0
                /\ requests'[w].pc = "respond"]_vars

\* The window over which two stored chains are said to overlap.
Overlap(first, second) ==
    [start |-> Latest({first.validFrom, second.validFrom}),
     end   |-> Earliest({first.validTo, second.validTo})]

Bundles == {FirstChains[id].bundle : id \in DOMAIN FirstChains} \cup
           {ParseCertificateBundle(asked.text) : asked \in ChainImports}

\* When a bundle verifies against an anchor.
verified ==
    [anchor \in Certificates |-> [bundle \in Bundles |->
        {at \in Content[anchor].notBefore .. Content[anchor].notAfter :
            ValidateChain(anchor, EncodePEM(bundle), at)}]]

\* A chain is verified once, at the time it is imported, but its window is
\* relied on for other times: at every time at which two chains (or one) are
\* said to overlap, each bundle verifies against its anchor.
OverlapIsVerified ==
    \A id, otherID \in Chains :
        LET first == chains[id]
            second == chains[otherID]
            overlap == Overlap(first, second)
        IN  first.chainState # "absent" /\ second.chainState # "absent" =>
                overlap.start .. (overlap.end - 1) \subseteq
                    verified[anchors[first.anchor].certificate][first.bundle]

Repeats(bundle) ==
    \E i, j \in DOMAIN bundle :
        i # j /\ Content[bundle[i]].subject = Content[bundle[j]].subject

\* Whatever the order in which its certificates are sent, a bundle is stored
\* once, except for the seeded ones and those that repeat a subject, as the
\* two certificates of a cross-signed authority do, or one that is sent twice.
BundlesAreStoredOnce ==
    \A id, otherID \in Chains :
        LET bundle == chains[id].bundle
        IN  /\ id # otherID /\ bundle # << >>
            /\ {bundle[i] : i \in DOMAIN bundle}
                 = {chains[otherID].bundle[i] : i \in DOMAIN chains[otherID].bundle}
            => \/ Repeats(bundle) \/ Repeats(chains[otherID].bundle)
               \/ {id, otherID} \cap DOMAIN FirstChains # {}

=============================================================================
