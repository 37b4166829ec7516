------------------------------- MODULE Server -------------------------------
(***************************************************************************)
(* The life of the server process: start, migration and seed of the        *)
(* database, requests over the pool of connections, graceful shutdown,     *)
(* failure and restart (backend/cmd/server/main.go,                        *)
(* internal/database/database.go, the transactions of                      *)
(* internal/repository/trust_anchor_repository.go, docker-compose.yml).    *)
(*                                                                         *)
(* The other modules take a transaction as one step over seeded tables;    *)
(* here it is a connection held over several statements, and the seed is   *)
(* what the start of the process leaves.                                   *)
(***************************************************************************)
EXTENDS Integers, FiniteSets

CONSTANTS
    Requests,     \* requests that change a row, each sent once
    Accounts,     \* how many accounts are seeded
    MaxOpenConns, \* connections of the pool
    MaxIncidents  \* bound on failures, kills, stops and starts

ASSUME ServerAssumption ==
    /\ Accounts \in Nat \ {0} /\ MaxOpenConns \in Nat \ {0}
    /\ MaxIncidents \in Nat /\ IsFiniteSet(Requests)

VARIABLES
    phase,     \* what the process is doing
    wanted,    \* whether the container is meant to be running
    code,      \* with which status the process exits
    visited,   \* accounts the seed has looked up since the start
    accounts,  \* accounts in the database
    staged,    \* statements of the seed's open transaction
    domain,    \* statements of the seed that are in the database
    pc,        \* where each request is
    outcome,   \* what its client learned
    gone,      \* requests whose client has disconnected
    hung,      \* requests whose statement the database does not answer
    rows,      \* requests whose change is in the database
    records,   \* requests whose audit record is
    incidents  \* failures, kills, stops and starts so far

seedVars == <<visited, accounts, staged, domain>>
requestVars == <<pc, outcome, gone, hung, rows, records>>
vars == <<phase, wanted, code, seedVars, requestVars, incidents>>

-----------------------------------------------------------------------------
(* The process.                                                            *)

\* Until it listens the process takes no request, and a signal ends it.
StartUp == {"opening", "accounts", "counting", "domain", "listening"}
Phases == StartUp \cup {"down", "serving", "draining", "closing"}

\* Statements of seedDomain: anchors, chains, services, two updates of their
\* edges, scenario.
DomainStatements == 6

Incident == incidents < MaxIncidents /\ incidents' = incidents + 1

InFlight == {r \in Requests : pc[r] \notin {"none", "ended"}}

\* The process is gone: its open transactions are rolled back, the requests
\* in flight lost.
Die(status) ==
    /\ phase' = "down" /\ code' = status
    /\ visited' = 0 /\ staged' = 0
    /\ pc' = [r \in Requests |-> IF r \in InFlight THEN "ended" ELSE pc[r]]
    /\ outcome' = [r \in Requests |-> IF r \in InFlight THEN "lost" ELSE outcome[r]]
    /\ hung' = {}
    /\ UNCHANGED <<accounts, domain, gone, rows, records>>

\* restart: unless-stopped
Start ==
    /\ phase = "down" /\ wanted
    /\ phase' = "opening"
    /\ UNCHANGED <<wanted, code, seedVars, requestVars, incidents>>

\* The database answers a ping within ten seconds and its schema is migrated.
Open ==
    /\ phase = "opening"
    /\ phase' = "accounts"
    /\ UNCHANGED <<wanted, code, seedVars, requestVars, incidents>>

\* What becomes of an account that the seed looks up: it is created unless it
\* is found.
FindOrCreate_Create(found) ==  \* fault: created without a look
    IF found THEN "duplicate" ELSE "created"
FindOrCreate_NotUnique(found) == "created"  \* fault: nor is it unique
FindOrCreate(found) == IF found THEN "found" ELSE "created"

SeedAccount ==
    /\ phase = "accounts" /\ visited < Accounts
    /\ LET result == FindOrCreate(visited < accounts)
       IN  \/ /\ result = "duplicate"  \* the index on usernames
              /\ Die("failed")
              /\ UNCHANGED <<wanted, incidents>>
           \/ /\ result # "duplicate"
              /\ visited' = visited + 1
              /\ accounts' = IF result = "created" THEN accounts + 1 ELSE accounts
              /\ UNCHANGED <<phase, wanted, code, staged, domain, requestVars, incidents>>

AccountsSeeded ==
    /\ phase = "accounts" /\ visited = Accounts
    /\ phase' = "counting"
    /\ UNCHANGED <<wanted, code, seedVars, requestVars, incidents>>

\* The domain data is taken to be there if there is any anchor.
CountAnchors ==
    /\ phase = "counting"
    /\ phase' = IF domain > 0 THEN "listening" ELSE "domain"
    /\ UNCHANGED <<wanted, code, seedVars, requestVars, incidents>>

\* fault: the statements are run outside a transaction
SeedDomain_NoTransaction ==
    /\ phase = "domain" /\ domain < DomainStatements
    /\ domain' = domain + 1
    /\ phase' = IF domain' = DomainStatements THEN "listening" ELSE phase
    /\ UNCHANGED <<wanted, code, visited, accounts, staged, requestVars, incidents>>

\* The statements of seedDomain in one transaction, and its commit.
SeedDomain ==
    /\ phase = "domain"
    /\ \/ /\ staged < DomainStatements
          /\ staged' = staged + 1
          /\ UNCHANGED <<phase, domain>>
       \/ /\ staged = DomainStatements
          /\ staged' = 0 /\ domain' = staged
          /\ phase' = "listening"
    /\ UNCHANGED <<wanted, code, visited, accounts, requestVars, incidents>>

Listen ==
    /\ phase = "listening"
    /\ phase' = "serving"
    /\ UNCHANGED <<wanted, code, seedVars, requestVars, incidents>>

\* A step of the start returns an error: ping, migration, a statement of the
\* seed, the address in use.
StartFails ==
    /\ phase \in StartUp
    /\ Incident /\ Die("failed")
    /\ UNCHANGED wanted

\* The listener breaks while serving: run returns without a shutdown.
ListenerFails ==
    /\ phase = "serving"
    /\ Incident
    /\ phase' = "closing" /\ code' = "failed"
    /\ UNCHANGED <<wanted, seedVars, requestVars>>

Kill ==
    /\ phase # "down"
    /\ Incident /\ Die("killed")
    /\ UNCHANGED wanted

\* The container is stopped: the signal starts a graceful shutdown once the
\* process listens for it.
Stop ==
    /\ wanted /\ Incident
    /\ wanted' = FALSE
    /\ \/ phase \in StartUp /\ Die("killed")
       \/ /\ phase = "serving"
          /\ phase' = "draining"
          /\ UNCHANGED <<code, seedVars, requestVars>>
       \/ /\ phase \in {"down", "draining", "closing"}
          /\ UNCHANGED <<phase, code, seedVars, requestVars>>

Up ==
    /\ ~wanted /\ Incident
    /\ wanted' = TRUE
    /\ UNCHANGED <<phase, code, seedVars, requestVars>>

\* server.Shutdown returns when no request is in flight or its time is up.
Shutdown_Untimed ==  \* fault: a shutdown without a deadline
    /\ phase = "draining" /\ InFlight = {}
    /\ phase' = "closing" /\ code' = "clean"
    /\ UNCHANGED <<wanted, seedVars, requestVars, incidents>>
Shutdown ==
    /\ phase = "draining"
    /\ phase' = "closing"
    /\ \/ InFlight = {} /\ code' = "clean"
       \/ code' = "failed"
    /\ UNCHANGED <<wanted, seedVars, requestVars, incidents>>

\* The deferred Close of the database, then the end of main.
Exit ==
    /\ phase = "closing"
    /\ Die(code)
    /\ UNCHANGED <<wanted, incidents>>

-----------------------------------------------------------------------------
(* A request: a read with its checks, a transaction that changes a row and *)
(* writes its audit record, and a read for the response.                   *)

Waiting == {"load", "begin", "reload"}                      \* for a connection
InTransaction == {"row", "record", "commit"}
Holding == {"loading", "reloading"} \cup InTransaction      \* a connection
Places == {"none", "ended"} \cup Waiting \cup Holding

Free == Cardinality({r \in Requests : pc[r] \in Holding}) < MaxOpenConns

\* A request ends; a client that is gone does not learn how.
End(r, result) ==
    /\ pc' = [pc EXCEPT ![r] = "ended"]
    /\ outcome' = [outcome EXCEPT ![r] = IF r \in gone THEN "lost" ELSE result]

Others == <<phase, wanted, code, seedVars, incidents>>

Accept(r) ==
    /\ phase = "serving" /\ pc[r] = "none"
    /\ pc' = [pc EXCEPT ![r] = "load"]
    /\ UNCHANGED <<Others, outcome, gone, hung, rows, records>>

\* A closed pool gives no connection, and a client that is gone cancels the
\* wait for one.
Acquire(r) ==
    /\ pc[r] \in Waiting /\ Free /\ phase # "closing"
    /\ pc' = [pc EXCEPT ![r] = CASE @ = "load"   -> "loading"
                                 [] @ = "begin"  -> "row"
                                 [] @ = "reload" -> "reloading"]
    /\ UNCHANGED <<Others, outcome, gone, hung, rows, records>>

GiveUp(r) ==
    /\ pc[r] \in Waiting /\ (phase = "closing" \/ r \in gone)
    /\ End(r, "failed")
    /\ UNCHANGED <<Others, gone, hung, rows, records>>

\* The request is refused, read or failed, or goes on to change something.
Load(r) ==
    /\ pc[r] = "loading" /\ r \notin hung
    /\ \/ End(r, "refused")
       \/ pc' = [pc EXCEPT ![r] = "begin"] /\ UNCHANGED outcome
    /\ UNCHANGED <<Others, gone, hung, rows, records>>

\* The handle on which a statement runs: the transaction of its context, or
\* the pool.
scopedDB_Pool(r) == "pool"  \* fault: the context is not looked at
scopedDB(r) == IF pc[r] \in InTransaction THEN "transaction" ELSE "pool"

\* A statement that changes a table.  On the transaction it uses its
\* connection and shows when it commits; on the pool it needs another
\* connection and shows at once.
Execute(r, table) ==
    /\ scopedDB(r) = "transaction" \/ Free
    /\ table' = IF scopedDB(r) = "transaction" THEN table ELSE table \cup {r}

WriteRow(r) ==
    /\ pc[r] = "row" /\ r \notin hung
    /\ Execute(r, rows)
    /\ pc' = [pc EXCEPT ![r] = "record"]
    /\ UNCHANGED <<Others, outcome, gone, hung, records>>

WriteRecord(r) ==
    /\ pc[r] = "record" /\ r \notin hung
    /\ Execute(r, records)
    /\ pc' = [pc EXCEPT ![r] = "commit"]
    /\ UNCHANGED <<Others, outcome, gone, hung, rows>>

\* The commit succeeds, or it does and its confirmation is lost.
Commit(r) ==
    /\ pc[r] = "commit" /\ r \notin hung
    /\ rows' = rows \cup {r} /\ records' = records \cup {r}
    /\ \/ pc' = [pc EXCEPT ![r] = "reload"] /\ UNCHANGED outcome
       \/ End(r, "failed")
    /\ UNCHANGED <<Others, gone, hung>>

\* A statement fails, a check in the transaction refuses or the handler
\* panics: the transaction is rolled back.
Rollback_Ignored(r) ==  \* fault: the error is not returned
    /\ pc[r] \in InTransaction
    /\ pc' = [pc EXCEPT ![r] = "reload"]
    /\ UNCHANGED <<Others, outcome, gone, hung, rows, records>>
Rollback(r) ==
    /\ pc[r] \in InTransaction /\ r \notin hung
    /\ End(r, "failed")
    /\ UNCHANGED <<Others, gone, hung, rows, records>>

Reload(r) ==
    /\ pc[r] = "reloading" /\ r \notin hung
    /\ \E result \in {"ok", "failed"} : End(r, result)
    /\ UNCHANGED <<Others, gone, hung, rows, records>>

\* The context of a client that is gone cancels its statement and rolls its
\* transaction back.
Cancel(r) ==
    /\ pc[r] \in Holding /\ r \in gone
    /\ End(r, "failed")
    /\ hung' = hung \ {r}
    /\ UNCHANGED <<Others, gone, rows, records>>

Disconnect(r) ==
    /\ r \in InFlight \ gone
    /\ gone' = gone \cup {r}
    /\ UNCHANGED <<Others, pc, outcome, hung, rows, records>>

\* Statements have no timeout: one may never return.
Hang(r) ==
    /\ pc[r] \in Holding /\ r \notin hung
    /\ hung' = hung \cup {r}
    /\ UNCHANGED <<Others, pc, outcome, gone, rows, records>>

-----------------------------------------------------------------------------
Init ==
    /\ phase = "down" /\ wanted = TRUE /\ code = "none"
    /\ visited = 0 /\ accounts = 0 /\ staged = 0 /\ domain = 0
    /\ pc = [r \in Requests |-> "none"]
    /\ outcome = [r \in Requests |-> "none"]
    /\ gone = {} /\ hung = {} /\ rows = {} /\ records = {}
    /\ incidents = 0

Boot ==
    \/ Start \/ Open \/ SeedAccount \/ AccountsSeeded \/ CountAnchors
    \/ SeedDomain \/ Listen

Handle(r) ==
    \/ Load(r) \/ WriteRow(r) \/ WriteRecord(r) \/ Commit(r) \/ Reload(r)
    \/ GiveUp(r) \/ Cancel(r)

Next ==
    \/ Boot \/ StartFails \/ ListenerFails \/ Kill \/ Stop \/ Up
    \/ Shutdown \/ Exit
    \/ \E r \in Requests :
          \/ Accept(r) \/ Acquire(r) \/ Handle(r)
          \/ Rollback(r) \/ Disconnect(r) \/ Hang(r)

\* The container runtime starts the process, which does not pause between its
\* steps; the deadline of a shutdown passes; a handler goes on while it can,
\* and nothing fails of necessity;
\* the pool picks one of those who wait at random, so none waits forever while
\* connections come free again and again.
Fairness ==
    /\ WF_vars(Boot) /\ WF_vars(Shutdown) /\ WF_vars(Exit)
    /\ \A r \in Requests : WF_vars(Handle(r)) /\ SF_vars(Acquire(r))

Spec == Init /\ [][Next]_vars /\ Fairness

-----------------------------------------------------------------------------
(* Properties.                                                             *)

\* Every variable keeps its type.
TypeOK ==
    /\ phase \in Phases /\ wanted \in BOOLEAN
    /\ code \in {"none", "clean", "failed", "killed"}
    /\ visited \in 0 .. Accounts /\ accounts \in 0 .. Accounts
    /\ staged \in 0 .. DomainStatements /\ domain \in 0 .. DomainStatements
    /\ pc \in [Requests -> Places]
    /\ outcome \in [Requests -> {"none", "ok", "refused", "failed", "lost"}]
    /\ gone \subseteq Requests /\ hung \subseteq Requests
    /\ rows \subseteq Requests /\ records \subseteq Requests
    /\ incidents \in Nat

\* However often the start was interrupted, a server that takes requests has
\* every account and all of the domain data, although the seed is skipped as
\* soon as there is one anchor.
SeededBeforeServing ==
    phase \in {"serving", "draining"} =>
        accounts = Accounts /\ domain = DomainStatements

\* A change is in the database together with its audit record or not at all,
\* wherever process, connection or client fail; a request that was answered
\* with success is in the database for good, one refused or rolled back is not.
ChangesAreDurable ==
    /\ rows = records
    /\ \A r \in Requests :
          /\ outcome[r] = "ok" => r \in rows
          /\ outcome[r] = "refused" => r \notin rows

\* Every request ends, however few connections there are, unless the database
\* stops answering: no request waits for a connection that is only returned
\* when the request itself goes on.
RequestsEnd ==
    \A r \in Requests : r \in InFlight ~> (r \notin InFlight \/ hung # {})

\* A container that is meant to run serves again after every failure, and one
\* that is stopped ends although requests hang, unless the wish changes.
StartsAndStops ==
    /\ wanted ~> (phase = "serving" \/ ~wanted)
    /\ ~wanted ~> (phase = "down" \/ wanted)

=============================================================================
