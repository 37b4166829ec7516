# Verification of CertRollover

TLA+ models of the certificate rollover impact service, TLC configurations that
check them on small instances, and TLAPS proofs of theorems that hold for every
value of their constants. Paths below are relative to `src/`; `backend/…` stands
for `src/backend/internal/…`.

## 1. The system

CertRollover is a Go API over one SQL database with a React client. Every HTTP
request runs in a goroutine of its own. A handler that changes something reads
the rows it needs **outside** a transaction, makes its checks on what it has
read, and then opens a transaction that holds one `INSERT` or `UPDATE` and the
insert of an audit record. Nothing is locked between the reads and the
transaction. What protects an entity from two handlers that act on the same old
row is, where there is one, the condition of the `UPDATE`
(`WHERE id = ? AND state = ?`). Most of this project is about where that is
enough and where it is not.

| Component | State it keeps | Operations | Interacts through |
| --- | --- | --- | --- |
| Rollover scenarios (`service/`, `repository/`, `handler/rollover_scenario_*.go`) | table `rollover_scenarios`: state, creator, verifier, frozen input, idempotency key, result, replay flag | create, simulate, transition, replay; list, get, compare | freezes anchors, chains and services; audit log; unique indexes on key and input |
| Dependent services (`dependent_service_*.go`, `service/common.go`) | table `dependent_services`: team, chain, trusted anchors, dependencies, active or not | create, update, deactivate; list, get | refer to chains, anchors and to each other; audit log |
| Trust anchors (`trust_anchor_*.go`) | table `trust_anchors`: certificate, stored state, revocation date, archived | import, revoke, archive, restore; list, get | referred to by chains, services, scenarios; audit log; clock |
| Certificate chains (`certificate_chain_*.go`) | table `certificate_chains`: state, anchor | import, transition; list, get, compare | verified against an anchor; audit log; clock |
| Transactions and audit trail (`repository/trust_anchor_repository.go`, `service/common.go`) | table `audit_logs` | record, list | part of every transaction |
| Simulation (`algorithm/simulator.go`) | none: a function of a frozen snapshot | validate, search for a cycle, evaluate | called by simulate and replay |
| Roles and permissions (`constants/roles.go`, `middleware/rbac.go`) | a table fixed at build time | check a permission | in front of every route |
| Rate limiters (`middleware/auth.go`) | in memory: a window per endpoint and client, time of the last sweep | count a request | in front of login, imports, simulation, replay |
| Authentication (`middleware/auth.go`) | none (signed tokens) | log in, verify a token | in front of every route |
| Start-up and seed (`database/database.go`, `cmd/server/main.go`) | the initial rows | open, migrate, seed, shut down | before the first request |
| Certificates (`x509util/`) | none | parse, verify | imports |
| Web client (`frontend/src/`) | stores of the last lists, token in local storage | fetch, mutate, log out | the API |

What is hard here, and what makes each part correct:

* **Scenarios.** The four-eyes rule (creator and verifier differ), the legal
  moves, evidence before approval and the audit trail must hold although checks
  are made on rows that may be old when the update commits; replay and reset
  write without or with different conditions; an idempotency key is looked up,
  stored, and overwritten at different times.
* **Services.** A request makes three reads, and the check for a cycle reads
  outside the transaction; ownership is checked on an old row; the error of one
  read is discarded.
* **Anchors and chains.** One of the two updates conditionally, the other does
  not; the state shown depends on the clock.
* **Simulation.** A depth-first search over a map in random order, transitive
  failures over shared dependencies, window boundaries, sampled times.
* **Certificates.** A chain is verified once, but the window stored with it is
  relied on at other times; a bundle is recognised by a fingerprint that
  must not depend on its order.
* **Freezing a scenario.** Four reads outside a transaction, one of them a page;
  what is stored may be a state the database never had.
* **Rate limiter.** The time is read before the lock is taken, so requests are
  counted in another order than their times; a sweep removes old windows.
* **The process.** A seed in two parts that a crash may interrupt; transactions that
  hold a connection over several statements, with one connection in all
  for sqlite; clients that leave, statements that hang, confirmations that are
  lost; a shutdown with a deadline.
* **The client.** Answers that overtake each other, errors answered after a change
  has been committed (a replay that differs, a row that cannot be read again), a
  session shared by tabs that do not tell each other, a 401 that belongs to an
  earlier session.

Every hazard is listed with its line and the properties that cover it in
`PROJECT.json`.

## 2. The modules

| Module | Models | State and actions |
| --- | --- | --- |
| `Access` | `constants/roles.go`, `middleware/rbac.go` | operators only |
| `ScenarioStates` | `constants/scenario_state.go` | the legal moves of a scenario |
| `RolloverScenarios` | the scenario handlers | `scenarios` (table), `trail` (audit log per scenario), `requests` (goroutines), `build` (deployed algorithm version), `writes` (bound) |
| `ScenarioLifecycle` | what the scenario component promises | abstract: stage, author, approver and last actor of each scenario, one legal move at a time by an entitled user |
| `CycleDetection` | what it means that a dependency graph has a cycle | one operator |
| `DependencyGraph` | the dependent-service handlers | `services`, `trail`, `requests`, `writes` |
| `CertificateValidation` | `x509util/certificate.go`, the window and the fingerprint an import or the seed calculates | operators over `Certificates` and their `Content` |
| `TrustInventory` | the anchor and chain handlers, `constants/certificate_state.go` | `anchors`, `chains`, `trail`, `requests`, `clock`, `writes` |
| `SnapshotFreeze` | the creation of a scenario: its reads, `buildSnapshot` and its commit, and what other handlers commit meanwhile | `anchors`, `chains`, `services` (tables), `request` (the creation), `commits` (bound) |
| `RateLimiter` | `RateLimiter.Middleware` | `buckets`, `sweepAt` (the struct), `clock`, `requests` (time read, waiting for the mutex), `admitted` (history), `arrivals` (bound) |
| `Simulator` | `algorithm/simulator.go` | the snapshot, and the search for a cycle step by step: `state`, `stack`, `pc`; then `result` |
| `Server` | `cmd/server/main.go`, `database/database.go`, the transaction manager, the pool of connections | `phase` (the process), `wanted` (the container runtime's wish), `visited`, `accounts`, `staged`, `domain` (the seed), `pc`, `outcome`, `gone`, `hung` (requests), `rows`, `records` (what has committed), `incidents` (bound) |
| `WebClient` | `frontend/src/stores/rollover-scenario.ts`, `stores/auth.ts`, `api/client.ts`, `hooks/useAuth.ts`, and the server as they see it | `tabs` (a store and a session each), `storage` (localStorage), `calls` (under way), `rows`, `sessions`, `expired` (the server), `commits` (bound) |
| `MC…` | | the constants of the configurations |
| `…_proofs` | | theorems and their proofs |

How the handlers are cut into steps: each read with the checks that follow it is
one step (`LoadFor…`, `FindByIdempotencyKey`, `ValidateReferences`,
`CheckForCycle`), the transaction is one (`Commit…`, in which the row and the
audit record are written together, or `Abort`, in which neither is), the read
for the response is one (`Respond`). `requests[w]` keeps what goroutine `w` has
read, so that a later step can act on a row that is out of date. `Restart`
loses all requests in flight (and the limiter's table) and keeps the database.
Bodies, wording, pagination and the columns no check looks at are left out.

Where a request is accepted or refused by something outside a module (for
`DependencyGraph`, the existence of a chain), the model allows both outcomes.

How the modules compose:

* `RolloverScenarios`, `DependencyGraph` and `TrustInventory` share `Access`.
* `TrustInventory` extends `CertificateValidation`: an import is accepted if and only
  if the certificates in its PEM text are.
* `ScenarioLifecycle` is instantiated by `RolloverScenarios` through a refinement
  mapping (`ImplementsLifecycle`).
* A scenario freezes its input once. `RolloverScenarios` takes that input as a value
  out of `Inputs`; `SnapshotFreeze` shows where it comes from, and instantiates
  `Simulator` with what it has read: the validation of a snapshot is
  `Simulator`'s, and its type invariant says that what is stored meets what
  `Simulator` assumes of its initial states (a dependency leads to another service of
  the same snapshot). `DependencyGraph`, `Simulator` and
  through it `SnapshotFreeze` share `CycleDetection`.
* The handler models take a transaction as one step that happens or does not, and
  start from the seeded tables. `Server` opens both up: there a transaction is three
  statements and a commit on a connection, the seed is a sequence of
  statements, and the process can end anywhere.

In `Server` a request stands for any handler that changes a row: a read, a
transaction of an update and an audit record, a read for the response. Statements
of the start-up are answered or fail; those of requests may also hang.

In `WebClient` a scenario is its number and how often it has changed. A change is
committed (`CommitChange`), read again (`AnswerChange`, the service's `Get`) and taken
by the tab (`Take`) in three steps, between which anything may happen. A call is
refused before the commit (`TakeRefusal`, `TakeUnauthorized`) or answered with an
error after it (`TakeErrorAfterCommit`). Where only the answer itself matters (a
login, an error), it is given and taken in one step. A call whose tab was closed
or whose connection broke may still reach the server, and is from then on one of
`OtherClient`. A simulation that is answered from its key changes nothing; the client
makes a new key for every call (`utils/idempotency.ts`), so it never sees one. Four
fields of a tab are history: `latest`, `listAt` and `activeAt` say as of which change
the newest answer, the list and the detail were read, `missed` which is the last
change the tab was not told of.

Definitions whose name ends in an underscore and a fault
(`Matches_NoState`, `Store_Forgotten`, …) are what the definition after them would be
with a plausible mistake; each property is shown to fail with one of them. They
are used nowhere else.

## 3. What is checked

| Run | Configuration | Shows |
| --- | --- | --- |
| `scenario_races` | 2 scenarios, 2 keys, 2 builds, 2 goroutines, an administrator (who created the seeded scenario), an owner, a reviewer, 4 commits | types; `ReviewerSeparation`: no interleaving has a scenario verified by its creator or without permission; `AuditAccountsForState` and `AuditAccountsForEvidence`: the log tells how each scenario came to its state, key, result and replay flag; `EvidenceBeforeApproval`; `ReuseHasResult`: only a stored result is answered as reused; `ApprovedResultIsFrozen`; `ImplementsLifecycle`: the concurrent handlers implement the abstract lifecycle |
| `service_changes` | 3 services, 2 teams, an operator and an owner, 2 goroutines, 2 commits, reads may fail | types; `GraphIsClosed`; `DeactivatedOnce`; `CyclesNeedAnOvertakenCheck`: only an update whose check saw another graph closes a cycle; `OwnersDoNotTransfer` |
| `inventory_changes` | the 2 seeded anchors and chains, an anchor and 2 chains to import, 8 certificates (a root that is about to expire, an intermediate and its cross-signed twin), 12 PEM texts, 2 goroutines, 2 instants, 3 commits | types; `RevocationIsFinal`; `RestoreWasOvertaken`: a revoked anchor is un-archived only by a restore that had read it before; `ShownStateOnlyWorsens`; `AuditAccountsForAnchors` and `AuditAccountsForChains`; `OverlapIsVerified`: at every time of its stored window a bundle verifies against its anchor, although it is verified once; `BundlesAreStoredOnce`: in whatever order its certificates are sent, but for seeded ones and bundles that repeat a certificate or a subject |
| `late_requests` | 2 clients at 1 endpoint, 2 goroutines, limit 2, 8 requests in 5 units, delay at most half a minute | types; `RefusalIsEarned`: nobody is refused for somebody else's requests or for old ones; `AdmissionsAreBounded`: at most three windows' worth in any minute; `TableIsSwept` |
| `frozen_snapshots` | 3 services, 2 chains, 4 configurations, all combinations of the tables in `MCSimulator` | `SearchDecidesCycles` and `SearchEnds`: the search decides cyclicity in every order of the map and ends; `EvidenceIsExact`: what is reported equals reachability by definition; `BrokenPathsAreWitnesses`: each reported path leads along dependencies to a service at fault; `OverlapBreaksNothing`: a service reachable just before the window stays so within it, unless a chain expires |
| `snapshot_reads` | 3 anchors, 4 chains, 3 services, a page of 2 chains, 5 requests one after another, 3 commits of others | types, and that what is stored is an input `Simulator` accepts; `MissingChainsExpireLast`: a chain the snapshot lacks was imported after the chains were read, or the page was full and it expires no earlier than any chain on it; `QuietSnapshotIsTheModel`: unless overtaken, what is stored is the database, and a request is refused for a cycle exactly if there is one |
| `server_life` | 2 requests over 1 connection, 2 accounts, 4 failures, kills, stops or starts | types; `SeededBeforeServing`; `ChangesAreDurable`: a change and its audit record are stored together, what was answered with success is stored, what was refused is not; `RequestsEnd`: no request waits for a connection for ever unless the database stops answering; `StartsAndStops` |
| `two_tabs` | 2 tabs, one of them on the page of scenarios, 2 calls under way, 3 sign-ins or changes of scenarios in all | `ShownIsCurrent`: however its calls overlapped, a tab that waits for nothing shows the server's list, each scenario once and counted, and its detail as it is, unless it was not told of a change (another client's, or its own that was lost or answered with an error), or took an answer that was read before one it had already taken or that created a scenario already in its list; `TabsKnowTheirSession`: a tab acts as the user it shows unless another tab has signed in or out since |

Four more runs each check one statement of the documentation or of an error
message and find a behaviour of the code that contradicts it:

| Run | Statement | What happens |
| --- | --- | --- |
| `distinct_drafts` | "an identical frozen scenario already exists" (`service/rollover_scenario_service.go:84`) | the unique index also covers the empty idempotency key, so a second draft is refused whatever its input |
| `repeated_key` | "repeated requests with the same key return the stored result" (`README.md:54`) | a simulation after a reset overwrites the key, and a repeat of the first one is answered 409 |
| `crossing_edges` | "dependency graph would be cyclic" (`service/dependent_service_service.go:156`) | two updates that each add one edge both pass the check and commit |
| `sampled_times` | "All active service trust paths remain reachable …" (`algorithm/simulator.go:295`) | only six times are evaluated; the old chain ends and the new one begins between two of them |

Two further consequences of unconditional updates are stated positively, as what
is still true. An owner's update that was checked before an operator moved
the service to another team commits after it and takes the service back
("service owner may only modify services owned by their team",
`service/dependent_service_service.go:36`), but no owner ever gives a service
away (`OwnersDoNotTransfer`). A restore that read an anchor before its revocation
un-archives it after ("revoked trust anchors cannot be restored",
`service/trust_anchor_service.go:113`), but it keeps its date and state
(`RevocationIsFinal`), and that race is the only way (`RestoreWasOvertaken`).

**Bounds.** All violations of the conditional updates need two handlers, one
that reads before and commits after another one's commit; two goroutines give
all such pairs, and `MaxWrites` allows a handler to be overtaken by a commit and
another one to follow. Two scenarios are what a lookup over all scenarios
and a unique index need. The administrator alone may both write and verify, so only
an administrator's scenario can be verified by its creator; creating one and bringing
it to `verified` takes five writes, the seeded one four. The code seeds it for an
operator; the configuration has it created and simulated by the administrator, who
can then be refused the last step (without the check of
`service/rollover_scenario_service.go:192` the run fails). Three services and singleton dependency sets are enough
for cycles of length two and three and for a new service.

Three commits on the inventory cover a revocation overtaken by another or by a
restore, and two imports of one bundle. Its clock shows two instants, the month of
the seed and one after every certificate that matters has crossed its notice
period or its end; the *windows* are checked at every month from the first
`notBefore` to the last `notAfter`, whatever the clock shows.

The page of a snapshot is two chains instead of 200: three chains overflow it,
four let two be left out, one that is in use and one that is a candidate. The three
commits of others can add the chain, the service that names it and
change either before the next read.

The limiter's minute is two units so that a request can be half a minute
late and windows can overlap; eight requests exceed three windows of two, and the bound
of three is tight (with two the property fails).

The server has one connection, as it opens for sqlite; with more, waiting is rarer and
nothing else differs (postgres has 20). Two requests are one that holds the
connection and one that waits. Four incidents allow a kill in the seed, another in the
second attempt, a stop and a start. `DomainStatements` is six, as in the code.

The client has two calls under way, one that overtakes the other, as often as one
likes. One tab shows scenarios and the other may only sign in and out, which is all a
tab does to another one; what it would change of scenarios, other clients do.
`MaxChanges` bounds sign-ins and changes together: two changes in one session, or one
in two. That is enough for each exception of `ShownIsCurrent` to be necessary: with
the order of answers left out, or the created scenario that a list already held, or
the errors after a commit, or the changes of others, TLC finds a tab that shows
something old. Lists fit their page of 100.

`Workers` are symmetric in safety runs, and so are calls and users of
`WebClient`; runs with a liveness property use no symmetry. Restart is always
possible in the handler models and a tab can always be reloaded, so their
runs may not deadlock and TLC checks that; `Simulator`, a function that returns,
and `Server`, whose container may be stopped for good, may stop.

**Fairness.** The handler models state only safety, because the code promises no
progress: a client can go away, a transaction fail. `Simulator` assumes weak
fairness of its next step: it is straight-line code in one goroutine
that does no I/O and takes no lock. `RateLimiter` has one timing assumption,
`DelayAssumption`: between reading the clock and taking the mutex passes at most
half a minute. `Server` assumes weak fairness of what the process does on its own:
its start (the container runtime restarts it, `docker-compose.yml:48`, and the
database answers it or fails), the deadline of a shutdown
(`context.WithTimeout`), the exit, and each handler's next step unless its
statement hangs. It assumes strong fairness of taking a connection: the pool of
`database/sql` serves one of those who wait when a connection is returned, so
nobody is passed over for ever. Nothing is assumed of failures, of clients that
disconnect or of the container runtime's wish to stop. `WebClient` states
safety: the network promises nothing.

## 4. What is proved

All theorems hold for any number of goroutines, users, rows and steps; they use
the `ASSUME`s of their modules, and no bound (`MaxWrites`, `MaxTime` and so on are
arbitrary). TLC evaluates the assumptions in the runs above.

*`RolloverScenarios_proofs`.* The inductive invariant is
`PInv == TypeOK /\ RequestsEntitled`. `TypeOK` alone does not give the
four-eyes rule: the check of the creator is made on an old row. What makes it safe
is `RequestsEntitled`: a pending request is made by a user entitled to it on the
row as it was read, *and the columns entitlement depends on have not changed since*,
because no handler changes a creator or deletes a row. From it follows
`StepIsRowStep`: a step leaves the tables alone or changes one row in one of
four ways, for a user entitled to it now. Every theorem is an
argument about these four ways: `TypeCorrect`, `ReviewerSeparationHolds`,
`EvidenceBeforeApprovalHolds`, `ApprovedResultIsFrozenHolds`, and
`RefinesLifecycle`, the refinement of `ScenarioLifecycle`.
For the audit log, `LogInv` adds that a run which is about to commit has read a
draft (`PendingRunsReadDrafts`), that every key in the table was recorded by a
run (`KeysAreRecorded`) and that a reuse is answered by a row with a result: a
reset keeps key and result, only another run replaces them. With it the log
and the table move together in each of the four ways:
`AuditAccountsForStateHolds`, `AuditAccountsForEvidenceHolds`,
`ReuseHasResultHolds`.

*`DependencyGraph_proofs`.* `GraphInv` adds to the types that absent rows are empty,
that the graph is closed, and `RequestsChecked`: a request that waits to commit
still refers to registered services, belongs to the owner's team, and the graph
it means to leave behind has no cycle *unless it is marked overtaken*. A commit
keeps that for all other requests because it either changes some service's
dependencies, which marks them, or adds at most a service nobody
depends on, which is on no cycle (`SourceIsOnNoCycle`). `StepWrites` then says
what one step can do to the table, and gives `GraphTypeCorrect`,
`GraphIsClosedHolds`, `DeactivatedOnceHolds`, `OwnersDoNotTransferHolds` and
`CyclesNeedAnOvertakenCheckHolds`. The last one tells that the window shown by
`crossing_edges`, with the discarded read error, is the *only* way to a cycle.

*`RateLimiter_proofs`.* `LimiterInv` adds to the types that no stored time lies
ahead of the clock and no waiting request is older than the delay
(`TimesArePast`), and that the requests a window has admitted are the last ones
of its key and came after its start (`WindowsAreEarned`). It gives
`LimiterTypeCorrect`, `RefusalIsEarnedHolds` and `TableIsSweptHolds`. The bound
`AdmissionsAreBoundedHolds` needs to know how the windows of one client
lie: `AdmissionsAreSpaced` says that a new one begins no less than a
minute minus the delay after the one before. The first request of a window is always
admitted, so the windows can be read off the log of admissions, and no more than
three of them (two, if no request is late) have admissions within one minute.

*`Server_proofs`.* `ServerInv` adds to the types and to `ChangesAreDurable` that the
seed leaves no gap (`SeedLeavesNoGap`: the domain data is there as a whole or not at
all, and who is past a part of the seed has what it creates) and that the place of
a request tells whether it has committed (`ProgressTellsCommit`). The end of the
process, by whatever cause, is one lemma (`DieKeepsServerInv`); that statements
inside a transaction show in no table is another (`StatementsAreStaged`). It gives
`ServerTypeCorrect`, `SeededBeforeServingHolds` and `ChangesAreDurableHolds`, for any
number of requests, accounts, connections and failures.

*`TrustInventory_proofs`.* First what the operators of `CertificateValidation`
compute for *any* certificates and bundles. References are built by a fold, so one
would argue by induction, which the provers cannot be given; the proofs take a
least counterexample instead (`LeastNatural`, `MinimalMember`) and
show that there is none. `SameReferences`: bundles without a repeated subject
have the same references exactly if they hold the same certificates. A
bundle that verifies once does so all over the window stored with it, because
the window ends with the first certificate of the bundle and a path uses no other. Then
`InventoryInv`: the types; that an anchor with a date of revocation is revoked
(`AnchorsAreSound`) and a chain has the window of its stored bundle, which verified
against an anchor that is there (`ChainsAreSound`); that stored fingerprints are those of
their bundles and unique (`FingerprintsAreUnique`); and that what a request is about to
commit was made, by a legal move, from the row it read (`RequestsAreGrounded`). `SeedAssumption` says of the constants what the seed
computes for its chains. It gives `TypesKept`, `RevocationIsFinalHolds`,
`ShownStateOnlyWorsensHolds`, `RestoreWasOvertakenHolds`,
`AuditAccountsForAnchorsHolds`, `AuditAccountsForChainsHolds`,
`OverlapIsVerifiedHolds` and `BundlesAreStoredOnceHolds`. The last one did not
hold as first stated: a bundle that sends one certificate twice has other
references than one that sends it once, so it is stored beside it. The property now
leaves out bundles that repeat a certificate.

*`Simulator_proofs`.* `SearchInv` is what a depth-first search knows: the stack is a
path of distinct open services (`StackIsPath`), a dependency that a call has taken is
finished or the one being visited (`VisitedAreFinished`), and no cycle goes
through a finished service (`FinishedAreSafe`). It gives
`SearchDecidesCyclesHolds`. What `resolveService` returns is shown
for every graph the search lets pass: in an acyclic graph every set
of services has one that depends on no other of the set (`Foremost`), which takes the
place of induction over the calls. With it the recursion is
shown to have a solution (`SolutionExists`), so that its values can be used at
all, and the least service with a wrong value is shown not to exist.
`EvidenceIsExactHolds`, `BrokenPathsAreWitnessesHolds` and
`OverlapBreaksNothingHolds` follow, for any number of services, chains and times.

*`SnapshotFreeze_proofs`.* `PageIsFull` is about the page alone: for any order of
expiry and any size, a chain that is left out comes after all of a page that is
full. `FreezeInv` says at each stage of a creation what is still true of
what has been read: nothing that was seen is ever deleted and no chain changes when it
expires (`PageInv`), what was read without being overtaken equals the tables
(`QuietInv`), and the answer is `Simulator`'s verdict over what was frozen
(`VerdictInv`). `OthersEffect` has all that other handlers can do in one lemma. It
gives `TypeCorrect`, by which every stored scenario meets what `Simulator` assumes of
its services, `MissingChainsExpireLastHolds` and `QuietSnapshotIsTheModelHolds`.

*`WebClient_proofs`.* `ShownIsCurrent` speaks only of tabs that wait for nothing;
`ClientInv` says what is true while calls are under way. What a tab shows is true
*as of the change at which it was read*, up to the tab's own calls that are still to
be answered (`TabInv`): an item may be old if a change of it is pending, a scenario
may be missing if its creation is. The same holds of every answer on its way
(`CallInv`). When an answer is taken, either it is the newest, and
what it says overrides what the tab held (`KeptTruth`, `ListAfterChange`), or a newer
one has been taken and the tab no longer knows (`EarlierTruth`). A commit makes its
call pending for its own tab and is missed by all others (`CommitKeeps`); an error
turns what was pending into what is missed (`CallEnds`). With no call left nothing is
pending, which is `ShownIsCurrentHolds`, and a tab shows a spinner only while it waits
(`SpinnersWait`).
`SessionsAreIssued` (a token that is held anywhere was given to the user it is
shown with, and a tab that was not overtaken holds the stored one) gives
`TabsKnowTheirSessionHolds`.

Every safety property that a passing run checks is so proved for all values of the
constants. **Only model-checked** is liveness, `SearchEnds`, `RequestsEnd` and
`StartsAndStops`: fairness is stated with `ENABLED`, which is out of the provers'
reach.

## 5. What is not modelled

* **Cryptography and the x509 library.** `CertificateValidation` has of it what the
  certificates of this system can tell apart: names, keys, signers, CA and key-usage
  flags, validity. Name constraints, path lengths and algorithms are left out, no
  certificate carries any.
* **Passwords and the contents of tokens.** A token is valid, expired or unknown.
  The role inside a token is fixed when it is issued; accounts do not change.
* **Lists, searches and comparisons** change nothing. Two matter and are
  modelled: the page of chains in a snapshot and the overlap of two chains. The
  list of anchors by *stored* state is noted as a hazard.
* **HTTP plumbing, redaction, logging, configuration, the health check:** no state
  that outlives a request.
* **Canonical JSON and hashing of snapshots, comparison of results:** functions of one value.
* **The other stores and pages of the client** have the shape of the one that is
  modelled; forms, filters and drawing are left out.
* **More than one server process:** the deployment has one. Two would share the
  database, on which the handler models' interleavings are the same, and
  each would have a rate limiter of its own.

## 6. Plan

Done: `Access`, `ScenarioStates`, `RolloverScenarios` with its refinement;
`CycleDetection`, `DependencyGraph`; `CertificateValidation` and
`TrustInventory`; `RateLimiter`; `Simulator`; `SnapshotFreeze`; `Server`;
`WebClient`; the proofs of all their safety properties.

Next:

1. An abstract specification of the inventory (an anchor's and a chain's life as
   its audit log tells it) that `TrustInventory` implements, with the proof, as
   `ScenarioLifecycle` is for scenarios.
2. The same for `Simulator`: that a simulation is one step from a snapshot to the
   evidence reachability gives, which the search implements.
