---------------------------- MODULE Server_proofs ----------------------------
(***************************************************************************)
(* What the life of the server preserves, for any number of requests,      *)
(* accounts, connections and failures.                                     *)
(***************************************************************************)
EXTENDS Server, TLAPS

\* The seed leaves no gap behind: the accounts it has looked up are there, and
\* the domain data is there as a whole or not at all; who is past a part of
\* the seed has what it creates.
SeedLeavesNoGap ==
    /\ visited <= accounts
    /\ domain \in {0, DomainStatements}
    /\ phase \in {"counting", "domain", "listening", "serving", "draining"} =>
          accounts = Accounts
    /\ phase \in {"listening", "serving", "draining"} => domain = DomainStatements

\* How far a request is tells whether it has committed, and it is answered only
\* when it ends.
Progress(r) ==
    /\ pc[r] \in {"reload", "reloading"} => r \in rows
    /\ r \in rows => pc[r] \in {"reload", "reloading", "ended"}
    /\ outcome[r] # "none" => pc[r] = "ended"
ProgressTellsCommit == \A r \in Requests : Progress(r)

ServerInv ==
    TypeOK /\ SeedLeavesNoGap /\ ProgressTellsCommit /\ ChangesAreDurable

-----------------------------------------------------------------------------
\* Initially nothing is seeded and nothing requested.
LEMMA InitServerInv == Init => ServerInv
  BY ServerAssumption
  DEF Init, ServerInv, TypeOK, SeedLeavesNoGap, ProgressTellsCommit, Progress,
      ChangesAreDurable, Phases, StartUp, Places, DomainStatements

\* The end of the process keeps what has committed and answers nobody.
LEMMA DieKeepsServerInv ==
  ASSUME ServerInv, NEW status \in {"none", "clean", "failed", "killed"}, Die(status),
         wanted' \in BOOLEAN, incidents' \in Nat
  PROVE  ServerInv'
<1> USE ServerAssumption DEF ServerInv, Die
<1>1. TypeOK'
  BY DEF TypeOK, Phases, StartUp, Places, InFlight, DomainStatements
<1>2. SeedLeavesNoGap'
  BY DEF SeedLeavesNoGap, TypeOK, DomainStatements
<1>3. ProgressTellsCommit'
  <2> SUFFICES ASSUME NEW r \in Requests PROVE Progress(r)'
    BY DEF ProgressTellsCommit
  <2>1. CASE r \in InFlight
    BY <2>1 DEF ProgressTellsCommit, Progress, TypeOK, InFlight
  <2>2. CASE r \notin InFlight
    BY <2>2 DEF ProgressTellsCommit, Progress, TypeOK, InFlight
  <2> QED BY <2>1, <2>2
<1>4. ChangesAreDurable'
  BY DEF ChangesAreDurable, TypeOK
<1> QED BY <1>1, <1>2, <1>3, <1>4

\* A step of the process that goes on leaves the requests alone.
LEMMA ProcessKeepsServerInv ==
  ASSUME ServerInv,
         Boot \/ StartFails \/ ListenerFails \/ Kill \/ Stop \/ Up \/ Shutdown \/ Exit
  PROVE  ServerInv'
<1> USE ServerAssumption DEF ServerInv
<1>0. ASSUME UNCHANGED requestVars PROVE ProgressTellsCommit' /\ ChangesAreDurable'
  BY <1>0 DEF requestVars, ProgressTellsCommit, Progress, ChangesAreDurable
<1>a. ASSUME Incident PROVE incidents' \in Nat
  BY <1>a DEF Incident, TypeOK
<1>1. CASE Start \/ Open \/ Listen
  BY <1>0, <1>1 DEF Start, Open, Listen, TypeOK, SeedLeavesNoGap, seedVars,
     requestVars, Phases, StartUp
<1>2. CASE SeedAccount
  <2>1. FindOrCreate(visited < accounts) \in {"found", "created"}
    BY DEF FindOrCreate
  <2>2. /\ visited' = visited + 1 /\ phase = "accounts" /\ visited < Accounts
        /\ accounts' = IF visited < accounts THEN accounts ELSE accounts + 1
        /\ UNCHANGED <<phase, wanted, code, staged, domain, requestVars, incidents>>
    BY <1>2, <2>1 DEF SeedAccount, FindOrCreate
  <2>3. TypeOK' /\ SeedLeavesNoGap'
    BY <2>2 DEF TypeOK, SeedLeavesNoGap, requestVars, DomainStatements
  <2> QED BY <1>0, <2>2, <2>3
<1>3. CASE AccountsSeeded
  BY <1>0, <1>3 DEF AccountsSeeded, TypeOK, SeedLeavesNoGap, seedVars, requestVars,
     Phases, StartUp
<1>4. CASE CountAnchors
  BY <1>0, <1>4 DEF CountAnchors, TypeOK, SeedLeavesNoGap, seedVars, requestVars,
     Phases, StartUp, DomainStatements
<1>5. CASE SeedDomain
  <2>1. TypeOK'
    BY <1>5 DEF SeedDomain, TypeOK, requestVars, Phases, StartUp, DomainStatements
  <2>2. SeedLeavesNoGap'
    BY <1>5 DEF SeedDomain, TypeOK, SeedLeavesNoGap, DomainStatements
  <2> QED BY <1>0, <1>5, <2>1, <2>2 DEF SeedDomain
<1>6. CASE StartFails \/ Kill \/ Exit
  BY <1>6, DieKeepsServerInv DEF StartFails, Kill, Exit, Incident, TypeOK
<1>7. CASE ListenerFails \/ Shutdown
  BY <1>0, <1>7 DEF ListenerFails, Shutdown, Incident, TypeOK, SeedLeavesNoGap,
     seedVars, requestVars, Phases, StartUp
<1>8. CASE Stop
  <2>1. wanted' = FALSE /\ Incident
    BY Zenon, <1>8 DEF Stop
  <2>a. wanted' \in BOOLEAN /\ incidents' \in Nat
    BY <1>a, <2>1
  <2>2. CASE Die("killed")
    BY <2>a, <2>2, DieKeepsServerInv
  <2>3. CASE /\ phase = "serving" /\ phase' = "draining"
             /\ UNCHANGED <<code, seedVars, requestVars>>
    BY <1>0, <2>a, <2>3 DEF TypeOK, SeedLeavesNoGap, seedVars, requestVars, Phases
  <2>4. CASE UNCHANGED <<phase, code, seedVars, requestVars>>
    BY <1>0, <2>a, <2>4 DEF TypeOK, SeedLeavesNoGap, seedVars, requestVars
  <2> QED BY <1>8, <2>2, <2>3, <2>4 DEF Stop
<1>9. CASE Up
  <2>1. wanted' = TRUE /\ Incident /\ UNCHANGED <<phase, code, seedVars, requestVars>>
    BY Zenon, <1>9 DEF Up
  <2> QED
    BY <1>0, <1>a, <2>1 DEF TypeOK, SeedLeavesNoGap, seedVars, requestVars
<1> QED
  BY <1>1, <1>2, <1>3, <1>4, <1>5, <1>6, <1>7, <1>8, <1>9 DEF Boot

\* A statement within a transaction shows in no table before the commit.
LEMMA StatementsAreStaged ==
  ASSUME TypeOK, NEW r \in Requests
  PROVE  /\ WriteRow(r) => rows' = rows
         /\ WriteRecord(r) => records' = records
  BY DEF TypeOK, WriteRow, WriteRecord, Execute, scopedDB, InTransaction

\* A step of a request leaves the process and the seed alone.
LEMMA RequestKeepsServerInv ==
  ASSUME ServerInv, NEW r \in Requests,
         Accept(r) \/ Acquire(r) \/ Handle(r) \/ Rollback(r) \/ Disconnect(r) \/ Hang(r)
  PROVE  ServerInv'
<1> USE DEF ServerInv
<1>0. ASSUME UNCHANGED Others
      PROVE  /\ SeedLeavesNoGap'
             /\ phase' \in Phases /\ wanted' \in BOOLEAN
             /\ code' \in {"none", "clean", "failed", "killed"}
             /\ visited' \in 0 .. Accounts /\ accounts' \in 0 .. Accounts
             /\ staged' \in 0 .. DomainStatements /\ domain' \in 0 .. DomainStatements
             /\ incidents' \in Nat
  BY <1>0 DEF Others, seedVars, SeedLeavesNoGap, TypeOK
<1>1. CASE Accept(r)
  BY <1>0, <1>1 DEF Accept, TypeOK, ProgressTellsCommit, Progress, ChangesAreDurable,
     Places, Waiting
<1>2. CASE Acquire(r)
  <2>1. /\ pc[r] \in {"load", "begin", "reload"}
        /\ UNCHANGED <<Others, outcome, gone, hung, rows, records>>
        /\ pc' = [pc EXCEPT ![r] = CASE pc[r] = "load"   -> "loading"
                                     [] pc[r] = "begin"  -> "row"
                                     [] pc[r] = "reload" -> "reloading"]
    BY <1>2 DEF Acquire, Waiting, TypeOK
  <2> QED
    BY <1>0, <2>1 DEF TypeOK, ProgressTellsCommit, Progress, ChangesAreDurable,
       Places, Holding,
       InTransaction
<1>3. CASE GiveUp(r) \/ Load(r) \/ Rollback(r) \/ Cancel(r)
  <2>1. pc[r] \in {"load", "begin", "reload", "loading"} \cup Holding
    BY <1>3 DEF GiveUp, Load, Rollback, Cancel, Waiting, Holding
  <2>2. UNCHANGED <<Others, gone, rows, records>> /\ hung' \subseteq Requests
    BY <1>3 DEF GiveUp, Load, Rollback, Cancel, TypeOK
  <2>3. \/ pc[r] = "loading" /\ pc' = [pc EXCEPT ![r] = "begin"] /\ UNCHANGED outcome
        \/ /\ pc' = [pc EXCEPT ![r] = "ended"]
           /\ \E result \in {"failed", "lost", "refused"} :
                 /\ outcome' = [outcome EXCEPT ![r] = result]
                 /\ result = "refused" => pc[r] = "loading"
    BY <1>3 DEF GiveUp, Load, Rollback, Cancel, End
  <2> QED
    BY <1>0, <2>1, <2>2, <2>3 DEF TypeOK, ProgressTellsCommit, Progress,
       ChangesAreDurable, Places,
       Waiting
<1>4. CASE WriteRow(r) \/ WriteRecord(r)
  <2>1. UNCHANGED <<Others, outcome, gone, hung, rows, records>>
    BY <1>4, StatementsAreStaged DEF WriteRow, WriteRecord
  <2>2. \/ pc[r] = "row" /\ pc' = [pc EXCEPT ![r] = "record"]
        \/ pc[r] = "record" /\ pc' = [pc EXCEPT ![r] = "commit"]
    BY <1>4 DEF WriteRow, WriteRecord
  <2> QED
    BY <1>0, <2>1, <2>2 DEF TypeOK, ProgressTellsCommit, Progress, ChangesAreDurable,
       Places, Holding,
       InTransaction
<1>5. CASE Commit(r)
  <2>1. /\ pc[r] = "commit" /\ rows' = rows \cup {r} /\ records' = records \cup {r}
        /\ UNCHANGED <<Others, gone, hung>>
        /\ \/ pc' = [pc EXCEPT ![r] = "reload"] /\ UNCHANGED outcome
           \/ /\ pc' = [pc EXCEPT ![r] = "ended"]
              /\ \E result \in {"failed", "lost"} :
                    outcome' = [outcome EXCEPT ![r] = result]
    BY <1>5 DEF Commit, End
  <2> QED
    BY <1>0, <2>1 DEF TypeOK, ProgressTellsCommit, Progress, ChangesAreDurable,
       Places, Waiting
<1>6. CASE Reload(r)
  <2>1. /\ pc[r] = "reloading" /\ pc' = [pc EXCEPT ![r] = "ended"]
        /\ UNCHANGED <<Others, gone, hung, rows, records>>
        /\ \E result \in {"ok", "failed", "lost"} :
              outcome' = [outcome EXCEPT ![r] = result]
    BY <1>6 DEF Reload, End
  <2> QED
    BY <1>0, <2>1 DEF TypeOK, ProgressTellsCommit, Progress, ChangesAreDurable, Places
<1>7. CASE Disconnect(r) \/ Hang(r)
  BY <1>0, <1>7 DEF Disconnect, Hang, InFlight, TypeOK, ProgressTellsCommit, Progress,
     ChangesAreDurable
<1> QED
  BY <1>1, <1>2, <1>3, <1>4, <1>5, <1>6, <1>7 DEF Handle

\* The invariant of the process, its seed and its requests, in every behaviour.
THEOREM ServerInvariant == Spec => []ServerInv
<1>1. ASSUME ServerInv, [Next]_vars PROVE ServerInv'
  <2>1. CASE UNCHANGED vars
    BY <1>1, <2>1 DEF vars, seedVars, requestVars, ServerInv, TypeOK, SeedLeavesNoGap,
       ProgressTellsCommit, Progress, ChangesAreDurable
  <2>2. CASE Next
    BY <1>1, <2>2, ProcessKeepsServerInv, RequestKeepsServerInv DEF Next
  <2> QED BY <1>1, <2>1, <2>2
<1> QED BY <1>1, InitServerInv, PTL DEF Spec

-----------------------------------------------------------------------------
\* Every variable keeps its type, however often the process is ended.
THEOREM ServerTypeCorrect == Spec => []TypeOK
  BY ServerInvariant, PTL DEF ServerInv

\* However often the start is interrupted, a server that takes requests has
\* every account and all of the domain data.
THEOREM SeededBeforeServingHolds == Spec => []SeededBeforeServing
<1>1. ServerInv => SeededBeforeServing
  BY DEF ServerInv, SeedLeavesNoGap, SeededBeforeServing
<1> QED BY <1>1, ServerInvariant, PTL

\* A change and its audit record are stored together, what was answered with
\* success is stored, what was refused is not, wherever process, connection or
\* client fail.
THEOREM ChangesAreDurableHolds == Spec => []ChangesAreDurable
  BY ServerInvariant, PTL DEF ServerInv

=============================================================================
