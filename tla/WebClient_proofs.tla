--------------------------- MODULE WebClient_proofs ---------------------------
(***************************************************************************)
(* Proofs about WebClient: that a tab acts as the user it shows, and that  *)
(* what it shows is current unless it was not told of a change or was told *)
(* in another order, for any number of tabs and calls.                     *)
(*                                                                         *)
(* ClientInv is what makes the second inductive.  What a tab shows, and    *)
(* what an answer on its way holds, is true as of the change at which it   *)
(* was read: each scenario is as it is now, or one of the tab's own calls  *)
(* that is still to be answered has changed it since.                      *)
(***************************************************************************)
EXTENDS WebClient, TLAPS

-----------------------------------------------------------------------------
(* Types.                                                                  *)

SessionType == [token : Nat, user : Users \cup {NoUser}]

Scenario == [id : Nat, version : Nat]

Tab ==
    [session   : SessionType,
     loading   : BOOLEAN,
     items     : Seq(Scenario),
     total     : Nat,
     active    : Scenario,
     overtaken : BOOLEAN,
     latest    : Nat,
     listAt    : Nat \cup {Unknown},
     activeAt  : Nat \cup {Unknown},
     missed    : Nat]

CallType ==
    [stage : {"none", "sent", "committed", "answered"},
     tab   : Tabs \cup {NoTab},
     kind  : {"login", "list", "create", "change"},
     token : Nat,
     user  : Users \cup {NoUser},
     id    : Nat,
     rows  : Seq(Scenario),
     done  : Nat,
     at    : Nat]

\* What a step leaves alone besides tabs and calls is well typed.
RestIsTyped ==
    /\ rows \in Seq(Nat) /\ commits \in Nat
    /\ sessions \in Seq(Users) /\ expired \subseteq Nat
    /\ storage \in SessionType

TypeOK ==
    /\ RestIsTyped
    /\ tabs \in [Tabs -> Tab]
    /\ calls \in [Calls -> CallType]

-----------------------------------------------------------------------------
(* The inductive invariant.  The calls (cs), the table of scenarios, a tab *)
(* and how many changes there have been (n) are parameters, so that what   *)
(* holds before a step can be compared with what holds after it.           *)

\* A call of tab t has made a change of scenario id later than the n-th, and is
\* still to be answered to it.
Pending(cs, t, id, n) ==
    \E c \in Calls : cs[c].tab = t /\ cs[c].id = id /\ cs[c].done > n

\* That change created the scenario.
Created(cs, t, id, n) ==
    \E c \in Calls :
        cs[c].tab = t /\ cs[c].id = id /\ cs[c].done > n /\ cs[c].kind = "create"

\* A scenario as of the n-th change, for tab t.
RowTrue(cs, table, t, row, n) ==
    row.version = table[row.id] \/ Pending(cs, t, row.id, n)

\* A list as of the n-th change: each scenario once, but for those that a call of
\* the tab has created since.
ListTrue(cs, table, t, items, n) ==
    /\ \A i, j \in DOMAIN items : items[i].id = items[j].id => i = j
    /\ \A id \in DOMAIN table :
          \/ Created(cs, t, id, n)
          \/ \E i \in DOMAIN items :
                items[i].id = id /\ RowTrue(cs, table, t, items[i], n)

\* A tab shows scenarios that exist.
Known(tab, table) ==
    /\ \A i \in DOMAIN tab.items : tab.items[i].id \in DOMAIN table
    /\ tab.active # NoScenario => tab.active.id \in DOMAIN table

\* It has read what it knows, and not later than its newest answer.
Bounded(tab, n) ==
    /\ tab.latest <= n /\ tab.listAt <= tab.latest /\ tab.activeAt <= n
    /\ tab.total = Len(tab.items)

\* What it shows is true as of when that was read.
ShowsTruth(cs, table, t, tab) ==
    /\ tab.missed <= tab.listAt => ListTrue(cs, table, t, tab.items, tab.listAt)
    /\ tab.missed <= tab.activeAt /\ tab.active # NoScenario =>
          RowTrue(cs, table, t, tab.active, tab.activeAt)

TabInv(cs, table, n, t, tab) ==
    Bounded(tab, n) /\ Known(tab, table) /\ ShowsTruth(cs, table, t, tab)

\* A call that has made a change knows which.
Sensible(call, table, n) ==
    /\ call.stage = "none" => call = NoCall
    /\ call.stage # "none" => call.tab \in Tabs
    /\ call.done > 0 =>
          /\ call.kind \in {"create", "change"}
          /\ call.stage \in {"committed", "answered"}
          /\ call.id \in DOMAIN table /\ call.done <= n
    /\ call.stage = "sent" =>
          /\ call.kind = "login" => call.user \in Users
          /\ call.kind = "change" => call.id \in DOMAIN table
          /\ call.kind # "change" => call.id = 0
    /\ call.stage = "committed" => call.done > 0
    /\ call.stage = "answered" =>
          /\ call.kind # "login" /\ call.at <= n
          /\ \A i \in DOMAIN call.rows : call.rows[i].id \in DOMAIN table
          /\ call.kind # "list" =>
                /\ Len(call.rows) = 1 /\ call.rows[1].id = call.id
                /\ call.done > 0 /\ call.done <= call.at

\* An answer that its tab can still take in order is true as of when it was read.
AnswerTrue(cs, table, tab, call) ==
    call.stage = "answered" /\ tab.latest <= call.at /\ tab.missed <= call.at =>
        /\ call.kind = "list" => ListTrue(cs, table, call.tab, call.rows, call.at)
        /\ call.kind # "list" => RowTrue(cs, table, call.tab, call.rows[1], call.at)

CallInv(cs, table, n, tbs, call) ==
    /\ Sensible(call, table, n)
    /\ call.stage # "none" => AnswerTrue(cs, table, tbs[call.tab], call)

\* A spinner waits for a list.
SpinnersWait ==
    \A t \in Tabs :
        tabs[t].loading => \E c \in Calls : calls[c].tab = t /\ calls[c].kind = "list"

ClientInv ==
    /\ TypeOK
    /\ \A t \in Tabs : TabInv(calls, rows, commits, t, tabs[t])
    /\ \A c \in Calls : CallInv(calls, rows, commits, tabs, calls[c])
    /\ SpinnersWait

\* A session on this side is one the server has issued.
Issued(session) ==
    session # NoSession =>
        /\ session.token \in 1..Len(sessions)
        /\ sessions[session.token] = session.user

SessionsAreIssued ==
    /\ Issued(storage)
    /\ \A t \in Tabs : Issued(tabs[t].session)
    /\ \A t \in Tabs : ~tabs[t].overtaken => storage = tabs[t].session

-----------------------------------------------------------------------------
(* Truth as of a change.                                                   *)

\* The changes of tab t later than the n-th that were to be answered still are.
Keeps(cs, after, t, n) ==
    \A c \in Calls :
        cs[c].tab = t /\ cs[c].done > n =>
            /\ after[c].tab = t /\ after[c].done = cs[c].done
            /\ after[c].id = cs[c].id /\ after[c].kind = cs[c].kind

\* Then what was true as of the n-th change is so still.
LEMMA KeptTruth ==
  ASSUME NEW cs, NEW after, NEW t, NEW n, Keeps(cs, after, t, n), NEW table
  PROVE  /\ \A row : RowTrue(cs, table, t, row, n) => RowTrue(after, table, t, row, n)
         /\ \A items : ListTrue(cs, table, t, items, n) =>
                         ListTrue(after, table, t, items, n)
<1>1. \A id : Pending(cs, t, id, n) => Pending(after, t, id, n)
  BY DEF Keeps, Pending
<1>2. \A id : Created(cs, t, id, n) => Created(after, t, id, n)
  BY DEF Keeps, Created
<1>3. \A row : RowTrue(cs, table, t, row, n) => RowTrue(after, table, t, row, n)
  BY <1>1, Zenon DEF RowTrue
<1>4. ASSUME NEW items, ListTrue(cs, table, t, items, n)
      PROVE  ListTrue(after, table, t, items, n)
  BY <1>2, <1>3, <1>4, Zenon DEF ListTrue
<1> QED BY <1>3, <1>4

\* What has been true as of a later change is so as of an earlier one.
LEMMA EarlierTruth ==
  ASSUME NEW cs, NEW table, NEW t, NEW row, NEW m \in Nat, NEW n \in Nat, n <= m,
         \A c \in Calls : cs[c].done \in Nat, RowTrue(cs, table, t, row, m)
  PROVE  RowTrue(cs, table, t, row, n)
BY DEF RowTrue, Pending

\* A scenario in a true list is true.
LEMMA TruthOfItem ==
  ASSUME NEW cs, NEW table, NEW t, NEW items, NEW n,
         ListTrue(cs, table, t, items, n),
         NEW i \in DOMAIN items, items[i].id \in DOMAIN table
  PROVE  RowTrue(cs, table, t, items[i], n)
<1>1. CASE Created(cs, t, items[i].id, n)
  BY <1>1 DEF Created, RowTrue, Pending
<1>2. CASE \E j \in DOMAIN items :
              items[j].id = items[i].id /\ RowTrue(cs, table, t, items[j], n)
  BY <1>2 DEF ListTrue
<1> QED BY <1>1, <1>2 DEF ListTrue

-----------------------------------------------------------------------------
(* Steps that leave the scenarios alone.                                   *)

\* A tab that shows the same scenarios, and may have missed more changes.
Alike(tab, after) ==
    /\ after.items = tab.items /\ after.total = tab.total
    /\ after.active = tab.active /\ after.latest = tab.latest
    /\ after.listAt = tab.listAt /\ after.activeAt = tab.activeAt
    /\ tab.missed <= after.missed

\* Tab t has seen and missed no less than before, and every later change of its
\* own that was to be answered still is.
Ages(t) ==
    /\ tabs[t].latest <= tabs'[t].latest /\ tabs[t].missed <= tabs'[t].missed
    /\ \A n \in Nat : n >= tabs'[t].latest /\ n >= tabs'[t].missed =>
          Keeps(calls, calls', t, n)

\* A tab that shows the same is as true as it was.
LEMMA TabStays ==
  ASSUME NEW cs, NEW later, NEW table, NEW n, NEW t,
         NEW tab \in Tab, NEW after \in Tab, Alike(tab, after),
         \A m \in Nat : m >= after.missed => Keeps(cs, later, t, m),
         TabInv(cs, table, n, t, tab)
  PROVE  TabInv(later, table, n, t, after)
<1>1. Bounded(after, n) /\ Known(after, table)
  BY DEF Alike, TabInv, Bounded, Known
<1>2. ASSUME after.missed <= after.listAt
      PROVE  ListTrue(later, table, t, after.items, after.listAt)
  <2>1. after.listAt \in Nat /\ tab.missed <= tab.listAt
    BY <1>2 DEF Alike, Tab, Unknown
  <2>2. ListTrue(cs, table, t, after.items, after.listAt)
    BY <2>1 DEF Alike, TabInv, ShowsTruth
  <2>3. Keeps(cs, later, t, after.listAt)
    BY <1>2, <2>1 DEF Tab
  <2> QED BY <2>2, <2>3, KeptTruth
<1>3. ASSUME after.missed <= after.activeAt, after.active # NoScenario
      PROVE  RowTrue(later, table, t, after.active, after.activeAt)
  <2>1. after.activeAt \in Nat /\ tab.missed <= tab.activeAt
    BY <1>3 DEF Alike, Tab, Unknown
  <2>2. RowTrue(cs, table, t, after.active, after.activeAt)
    BY <1>3, <2>1 DEF Alike, TabInv, ShowsTruth
  <2>3. Keeps(cs, later, t, after.activeAt)
    BY <1>3, <2>1 DEF Tab
  <2> QED BY <2>2, <2>3, KeptTruth
<1> QED BY <1>1, <1>2, <1>3 DEF TabInv, ShowsTruth

\* An answer on its way to a tab that ages is as true as it was.
LEMMA AnswerStays ==
  ASSUME NEW call \in CallType, NEW table, NEW t \in Tabs, call.tab = t,
         tabs[t] \in Tab, tabs'[t] \in Tab, Ages(t),
         AnswerTrue(calls, table, tabs[t], call)
  PROVE  AnswerTrue(calls', table, tabs'[t], call)
<1> SUFFICES ASSUME call.stage = "answered", tabs'[t].latest <= call.at,
                    tabs'[t].missed <= call.at
             PROVE  /\ call.kind = "list" => ListTrue(calls', table, t, call.rows, call.at)
                    /\ call.kind # "list" => RowTrue(calls', table, t, call.rows[1], call.at)
  BY DEF AnswerTrue
<1>1. call.at \in Nat
  BY DEF CallType
<1>2. tabs[t].latest <= call.at /\ tabs[t].missed <= call.at
  BY <1>1 DEF Ages, Tab
<1>3. /\ call.kind = "list" => ListTrue(calls, table, t, call.rows, call.at)
      /\ call.kind # "list" => RowTrue(calls, table, t, call.rows[1], call.at)
  BY <1>2 DEF AnswerTrue
<1>4. Keeps(calls, calls', t, call.at)
  BY <1>1 DEF Ages, Tab
<1> QED BY <1>3, <1>4, KeptTruth

\* A step that leaves the scenarios alone keeps the invariant if every tab shows
\* the same or is true, and every call is the same or sensible and true.
LEMMA QuietStep ==
  ASSUME ClientInv, TypeOK', UNCHANGED <<rows, commits>>, SpinnersWait',
         \A t \in Tabs :
            \/ TabInv(calls', rows, commits, t, tabs'[t])
            \/ /\ Alike(tabs[t], tabs'[t])
               /\ \A n \in Nat : n >= tabs'[t].missed => Keeps(calls, calls', t, n),
         \A c \in Calls :
            \/ CallInv(calls', rows, commits, tabs', calls'[c])
            \/ /\ calls'[c] = calls[c]
               /\ calls[c].stage = "answered" => Ages(calls[c].tab)
  PROVE  ClientInv'
<1>1. ASSUME NEW t \in Tabs PROVE TabInv(calls', rows, commits, t, tabs'[t])
  <2>1. tabs[t] \in Tab /\ tabs'[t] \in Tab /\ TabInv(calls, rows, commits, t, tabs[t])
    BY DEF ClientInv, TypeOK
  <2> QED BY <2>1, TabStays
<1>2. ASSUME NEW c \in Calls, calls'[c] = calls[c],
             calls[c].stage = "answered" => Ages(calls[c].tab)
      PROVE  CallInv(calls', rows, commits, tabs', calls'[c])
  <2>1. Sensible(calls[c], rows, commits)
    BY DEF ClientInv, CallInv
  <2>2. CASE calls[c].stage # "answered"
    BY <1>2, <2>1, <2>2 DEF CallInv, AnswerTrue
  <2>3. CASE calls[c].stage = "answered"
    <3>1. calls[c].tab \in Tabs /\ calls[c] \in CallType
      BY <2>1, <2>3 DEF Sensible, ClientInv, TypeOK
    <3>2. tabs[calls[c].tab] \in Tab /\ tabs'[calls[c].tab] \in Tab
      BY <3>1 DEF ClientInv, TypeOK
    <3>3. AnswerTrue(calls, rows, tabs[calls[c].tab], calls[c])
      BY <2>3 DEF ClientInv, CallInv
    <3>4. AnswerTrue(calls', rows, tabs'[calls[c].tab], calls[c])
      BY <1>2, <2>3, <3>1, <3>2, <3>3, AnswerStays
    <3> QED BY <1>2, <2>1, <3>4 DEF CallInv
  <2> QED BY <2>2, <2>3
<1>3. \A c \in Calls : CallInv(calls', rows, commits, tabs', calls'[c])
  BY <1>2
<1> QED BY <1>1, <1>3 DEF ClientInv

-----------------------------------------------------------------------------
(* The operators on tabs.                                                  *)

\* No scenario, no session, no call and a page just loaded are well typed.
LEMMA EmptyTypes ==
  /\ NoScenario \in Scenario /\ NoSession \in SessionType /\ NoCall \in CallType
  /\ \A session \in SessionType : commits \in Nat => Loaded(session) \in Tab
  BY DEF NoScenario, NoSession, NoCall, Loaded, NoToken,
         Scenario, SessionType, CallType, Tab

\* A call that is none.
LEMMA NoCallFacts ==
  /\ NoCall.stage = "none" /\ NoCall.tab = NoTab /\ NoCall.done = 0
  /\ NoTab \notin Tabs
  /\ \A cs, table, n, tbs : CallInv(cs, table, n, tbs, NoCall)
<1>1. NoCall.stage = "none" /\ NoCall.tab = NoTab /\ NoCall.done = 0
  BY DEF NoCall
<1>2. ASSUME NEW cs, NEW table, NEW n, NEW tbs PROVE CallInv(cs, table, n, tbs, NoCall)
  BY <1>1 DEF CallInv, Sensible
<1> QED BY <1>1, <1>2, ClientAssumption

\* The later of two changes.
LEMMA LaterIsLater ==
  ASSUME NEW m \in Nat, NEW n \in Nat
  PROVE  Later(m, n) \in Nat /\ m <= Later(m, n) /\ n <= Later(m, n)
  BY DEF Later

\* The listing of a table: every scenario once, the newest first.
LEMMA ListingType ==
  ASSUME rows \in Seq(Nat)
  PROVE  /\ Listing \in Seq(Scenario)
         /\ DOMAIN Listing = 1..Len(rows)
         /\ \A i \in 1..Len(rows) :
               /\ Listing[i].id = Len(rows) + 1 - i
               /\ Listing[i].id \in DOMAIN rows
               /\ Listing[i].version = rows[Listing[i].id]
<1>1. \A i \in 1..Len(rows) :
         /\ Len(rows) + 1 - i \in DOMAIN rows
         /\ [id |-> Len(rows) + 1 - i, version |-> rows[Len(rows) + 1 - i]]
               \in Scenario
  BY DEF Scenario
<1> QED BY <1>1 DEF Listing

\* What a call that fails leaves of a tab: a spinner has gone if it was for that
\* list, and a change that was made has been missed.
LEMMA FailedTab ==
  ASSUME NEW tab \in Tab, NEW call \in CallType
  PROVE  LET after == Failed(tab, call)
         IN  /\ after \in Tab /\ Alike(tab, after)
             /\ after.session = tab.session
             /\ after.missed = Later(tab.missed, call.done)
<1> DEFINE missed == Later(tab.missed, call.done)
           loading == tab.loading /\ call.kind # "list"
           after == [tab EXCEPT !.loading = loading, !.missed = missed]
<1>1. missed \in Nat /\ tab.missed <= missed
  BY LaterIsLater DEF Tab, CallType
<1>2. loading \in BOOLEAN
  OBVIOUS
<1>3. after = Failed(tab, call)
  BY DEF Failed, Tab
<1> HIDE DEF missed, loading
<1>4. /\ after \in Tab /\ after.session = tab.session /\ after.missed = missed
      /\ after.items = tab.items /\ after.total = tab.total
      /\ after.active = tab.active /\ after.latest = tab.latest
      /\ after.listAt = tab.listAt /\ after.activeAt = tab.activeAt
  BY <1>1, <1>2 DEF Tab
<1> HIDE DEF after
<1>5. Alike(tab, after)
  BY <1>1, <1>4 DEF Alike
<1> QED BY <1>3, <1>4, <1>5 DEF missed

\* Its Boolean fields.
LEMMA FailedFlags ==
  ASSUME NEW tab \in Tab, NEW call
  PROVE  /\ Failed(tab, call).overtaken <=> tab.overtaken
         /\ Failed(tab, call).loading => tab.loading /\ call.kind # "list"
  BY DEF Failed, Tab

\* As of which change a tab knows an answer.
LEMMA AsOfType ==
  ASSUME NEW tab \in Tab, NEW call \in CallType
  PROVE  /\ AsOf(tab, call) \in Nat \cup {Unknown}
         /\ AsOf(tab, call) # Unknown =>
               AsOf(tab, call) = call.at /\ tab.latest <= call.at
         /\ Unknown \notin Nat /\ \A n \in Nat : ~(n <= Unknown) /\ Unknown <= n
  BY DEF AsOf, Tab, CallType, Unknown

\* What a tab shows after taking a list.
LEMMA ListedTab ==
  ASSUME NEW tab \in Tab, NEW call \in CallType
  PROVE  LET after == Listed(tab, call)
             first == tab.active = NoScenario /\ call.rows # << >>
         IN  /\ after \in Tab /\ after.session = tab.session
             /\ after.items = call.rows /\ after.total = Len(call.rows)
             /\ after.active = IF first THEN call.rows[1] ELSE tab.active
             /\ after.latest = Later(tab.latest, call.at)
             /\ after.listAt = AsOf(tab, call)
             /\ after.activeAt = IF first THEN AsOf(tab, call) ELSE tab.activeAt
             /\ after.missed = tab.missed
<1> DEFINE first == tab.active = NoScenario /\ call.rows # << >>
           active == IF first THEN call.rows[1] ELSE tab.active
           activeAt == IF first THEN AsOf(tab, call) ELSE tab.activeAt
           latest == Later(tab.latest, call.at)
           asOf == AsOf(tab, call)
           rws == call.rows
           total == Len(call.rows)
           after == [tab EXCEPT !.loading = FALSE, !.items = rws, !.total = total,
                                !.active = active, !.latest = latest,
                                !.listAt = asOf, !.activeAt = activeAt]
<1>1. rws \in Seq(Scenario) /\ total \in Nat /\ tab.active \in Scenario
  BY DEF CallType, Tab
<1>2. active \in Scenario
  BY <1>1
<1>3. asOf \in Nat \cup {Unknown} /\ activeAt \in Nat \cup {Unknown} /\ latest \in Nat
  BY AsOfType, LaterIsLater DEF Tab, CallType
<1>4. after = Listed(tab, call)
  BY DEF Listed, Tab
<1> HIDE DEF active, activeAt, latest, asOf, rws, total
<1>5. /\ after \in Tab /\ after.session = tab.session
      /\ after.items = rws /\ after.total = total /\ after.active = active
      /\ after.latest = latest /\ after.listAt = asOf /\ after.activeAt = activeAt
      /\ after.missed = tab.missed
  BY <1>1, <1>2, <1>3 DEF Tab
<1> HIDE DEF after
<1> QED BY <1>4, <1>5 DEF active, activeAt, latest, asOf, rws, total

\* Its Boolean fields.
LEMMA ListedFlags ==
  ASSUME NEW tab \in Tab, NEW call
  PROVE  /\ Listed(tab, call).overtaken <=> tab.overtaken
         /\ ~Listed(tab, call).loading
  BY DEF Listed, Tab

\* What a tab shows after taking the answer of a change.
ItemsAfter(items, call) ==
    IF call.kind = "create" THEN <<call.rows[1]>> \o items
    ELSE [i \in DOMAIN items |->
             IF items[i].id = call.rows[1].id THEN call.rows[1] ELSE items[i]]

TotalAfter(total, call) == IF call.kind = "create" THEN total + 1 ELSE total

ListAtAfter(tab, call) ==
    IF \/ AsOf(tab, call) = Unknown
       \/ call.kind = "create" /\ Holds(tab, call.rows[1].id)
    THEN Unknown ELSE tab.listAt

\* It is a list of scenarios again, and counted if it was.
LEMMA ItemsAfterType ==
  ASSUME NEW items \in Seq(Scenario), NEW call, call.rows[1] \in Scenario
  PROVE  /\ ItemsAfter(items, call) \in Seq(Scenario)
         /\ Len(ItemsAfter(items, call)) = TotalAfter(Len(items), call)
<1>1. /\ <<call.rows[1]>> \o items \in Seq(Scenario)
      /\ Len(<<call.rows[1]>> \o items) = Len(items) + 1
  OBVIOUS
<1> DEFINE merged == [i \in DOMAIN items |->
         IF items[i].id = call.rows[1].id THEN call.rows[1] ELSE items[i]]
<1>2. merged \in Seq(Scenario)
  OBVIOUS
<1>3. DOMAIN merged = DOMAIN items
  OBVIOUS
<1> HIDE DEF merged
<1>4. Len(merged) = Len(items)
  BY <1>2, <1>3
<1> QED BY <1>1, <1>2, <1>4 DEF ItemsAfter, TotalAfter, merged

\* Taking the answer of a change has no other effect on what is shown.
LEMMA ShowsTab ==
  ASSUME NEW tab \in Tab, NEW call \in CallType, call.rows[1] \in Scenario
  PROVE  LET after == Shows(tab, call)
         IN  /\ after \in Tab /\ after.session = tab.session
             /\ after.items = ItemsAfter(tab.items, call)
             /\ after.total = TotalAfter(tab.total, call)
             /\ after.active = call.rows[1]
             /\ after.latest = Later(tab.latest, call.at)
             /\ after.listAt = ListAtAfter(tab, call)
             /\ after.activeAt = AsOf(tab, call)
             /\ after.missed = tab.missed
<1> DEFINE items == ItemsAfter(tab.items, call)
           total == TotalAfter(tab.total, call)
           middle == IF call.kind = "create" THEN Prepended(tab, call.rows[1])
                                             ELSE Merged(tab, call.rows[1])
           row == call.rows[1]
           latest == Later(tab.latest, call.at)
           listAt == ListAtAfter(tab, call)
           asOf == AsOf(tab, call)
           after == [tab EXCEPT !.items = items, !.total = total, !.active = row,
                                !.latest = latest, !.listAt = listAt,
                                !.activeAt = asOf]
<1>1. items \in Seq(Scenario) /\ total \in Nat /\ row \in Scenario
  BY ItemsAfterType DEF TotalAfter, Tab
<1>2. middle = [tab EXCEPT !.items = items, !.total = total]
  <2>1. CASE call.kind = "create"
    BY <2>1 DEF ItemsAfter, TotalAfter, Prepended, Tab
  <2>2. CASE call.kind # "create"
    BY <2>2 DEF ItemsAfter, TotalAfter, Merged, Tab
  <2> QED BY <2>1, <2>2
<1>3. asOf \in Nat \cup {Unknown} /\ listAt \in Nat \cup {Unknown} /\ latest \in Nat
  BY AsOfType, LaterIsLater DEF ListAtAfter, Tab, CallType
<1>4. Shows(tab, call) =
        [middle EXCEPT !.active = row, !.latest = Later(middle.latest, call.at),
            !.listAt = IF \/ asOf = Unknown
                          \/ call.kind = "create" /\ Holds(tab, row.id)
                       THEN Unknown ELSE middle.listAt,
            !.activeAt = asOf]
  BY DEF Shows
<1> HIDE DEF items, total, middle, row
<1>5. middle.latest = tab.latest /\ middle.listAt = tab.listAt
  BY <1>2 DEF Tab
<1>6. Shows(tab, call) =
        [middle EXCEPT !.active = row, !.latest = latest, !.listAt = listAt,
                       !.activeAt = asOf]
  BY <1>4, <1>5 DEF ListAtAfter, row
<1> HIDE DEF latest, listAt, asOf
<1>7. after = Shows(tab, call)
  BY <1>2, <1>6 DEF Tab
<1>8. /\ after \in Tab /\ after.session = tab.session
      /\ after.items = items /\ after.total = total /\ after.active = row
      /\ after.latest = latest /\ after.listAt = listAt /\ after.activeAt = asOf
      /\ after.missed = tab.missed
  BY <1>1, <1>3 DEF Tab
<1> HIDE DEF after
<1> QED BY <1>7, <1>8 DEF items, total, row, latest, listAt, asOf

\* Its Boolean fields.
LEMMA ShowsFlags ==
  ASSUME NEW tab \in Tab, NEW call
  PROVE  /\ Shows(tab, call).overtaken <=> tab.overtaken
         /\ Shows(tab, call).loading <=> tab.loading
  BY DEF Shows, Prepended, Merged, Tab

\* The tabs after a session has been written to localStorage.
LEMMA TakesSessionTabs ==
  ASSUME NEW t \in Tabs, tabs \in [Tabs -> Tab], NEW tab \in Tab,
         NEW session \in SessionType, TakesSession(t, tab, session)
  PROVE  /\ tabs' \in [Tabs -> Tab] /\ storage' = session
         /\ Alike(tab, tabs'[t]) /\ tabs'[t].session = session
         /\ tabs'[t].missed = tab.missed
         /\ tabs'[t].loading => tab.loading
         /\ \A other \in Tabs \ {t} :
               /\ Alike(tabs[other], tabs'[other])
               /\ tabs'[other].session = tabs[other].session
               /\ tabs'[other].missed = tabs[other].missed
               /\ tabs'[other].overtaken
               /\ tabs'[other].loading => tabs[other].loading
<1> DEFINE mine == [tab EXCEPT !.session = session, !.overtaken = FALSE]
           others(other) == [tabs[other] EXCEPT !.overtaken = TRUE]
<1>1. /\ mine \in Tab /\ mine.session = session /\ mine.missed = tab.missed
      /\ mine.items = tab.items /\ mine.total = tab.total
      /\ mine.active = tab.active /\ mine.latest = tab.latest
      /\ mine.listAt = tab.listAt /\ mine.activeAt = tab.activeAt
  BY DEF Tab
<1>2. mine.loading => tab.loading
  BY DEF Tab
<1>3. ASSUME NEW other \in Tabs
      PROVE  LET after == others(other)
             IN  /\ after \in Tab /\ after.session = tabs[other].session
                 /\ after.missed = tabs[other].missed
                 /\ after.items = tabs[other].items /\ after.total = tabs[other].total
                 /\ after.active = tabs[other].active
                 /\ after.latest = tabs[other].latest
                 /\ after.listAt = tabs[other].listAt
                 /\ after.activeAt = tabs[other].activeAt
  <2>1. tabs[other] \in Tab
    OBVIOUS
  <2> QED BY <2>1 DEF Tab
<1>4. ASSUME NEW other \in Tabs
      PROVE  others(other).overtaken /\ (others(other).loading => tabs[other].loading)
  BY DEF Tab
<1>5. tabs' = [other \in Tabs |-> IF other = t THEN mine ELSE others(other)]
  BY DEF TakesSession
<1> HIDE DEF mine, others
<1>6. \A m \in Nat : m <= m
  OBVIOUS
<1>7. \A some \in Tab : some.missed \in Nat
  BY DEF Tab
<1>8. Alike(tab, mine)
  BY <1>1, <1>6, <1>7, Zenon DEF Alike
<1>9. \A other \in Tabs : Alike(tabs[other], others(other))
  BY <1>3, <1>6, <1>7, Zenon DEF Alike
<1>10. tabs' \in [Tabs -> Tab]
  BY <1>1, <1>3, <1>5
<1>11. tabs'[t] = mine /\ \A other \in Tabs \ {t} : tabs'[other] = others(other)
  BY <1>5
<1>12. \A other \in Tabs \ {t} :
               /\ Alike(tabs[other], tabs'[other])
               /\ tabs'[other].session = tabs[other].session
               /\ tabs'[other].missed = tabs[other].missed
  BY <1>3, <1>11, <1>9
<1>13. \A other \in Tabs \ {t} :
               tabs'[other].overtaken /\ (tabs'[other].loading => tabs[other].loading)
  BY <1>4, <1>11, Zenon
<1>14. storage' = session
  BY DEF TakesSession
<1>15. tabs'[t].loading => tab.loading
  BY <1>2, <1>11, Zenon
<1>16. /\ Alike(tab, tabs'[t]) /\ tabs'[t].session = session
       /\ tabs'[t].missed = tab.missed
  BY <1>1, <1>11, <1>8
<1> QED BY <1>10, <1>12, <1>13, <1>14, <1>15, <1>16

-----------------------------------------------------------------------------
(* Steps of the tabs and calls, scenarios as they were.                    *)

\* A call that gives way to none takes nothing with it that is true as of its
\* change or a later one.
LEMMA CallGone ==
  ASSUME calls \in [Calls -> CallType], NEW c \in Calls,
         calls' = [calls EXCEPT ![c] = NoCall],
         NEW t, NEW n \in Nat, calls[c].tab = t => calls[c].done <= n
  PROVE  Keeps(calls, calls', t, n)
<1> SUFFICES ASSUME NEW d \in Calls, calls[d].tab = t, calls[d].done > n
             PROVE  calls'[d] = calls[d]
  BY Zenon DEF Keeps
<1>1. calls[c].done \in Nat
  BY DEF CallType
<1>2. d # c
  BY <1>1
<1> QED BY <1>2

\* A call of tab t comes to an end: the tab is true again, or shows the same and
\* has missed the change the call made.
LEMMA CallEnds ==
  ASSUME ClientInv, RestIsTyped', UNCHANGED <<rows, commits>>,
         NEW c \in Calls, NEW t \in Tabs, calls[c].tab = t,
         calls' = [calls EXCEPT ![c] = NoCall], tabs' \in [Tabs -> Tab],
         \A other \in Tabs \ {t} : Alike(tabs[other], tabs'[other]),
         \A other \in Tabs : tabs'[other].loading => tabs[other].loading,
         tabs'[t].loading => calls[c].kind # "list",
         tabs[t].latest <= tabs'[t].latest, tabs[t].missed <= tabs'[t].missed,
         calls[c].done <= tabs'[t].latest \/ calls[c].done <= tabs'[t].missed,
         \/ TabInv(calls', rows, commits, t, tabs'[t])
         \/ Alike(tabs[t], tabs'[t]) /\ calls[c].done <= tabs'[t].missed
  PROVE  ClientInv'
<1>1. calls \in [Calls -> CallType] /\ tabs \in [Tabs -> Tab] /\ calls[c].done \in Nat
  BY DEF ClientInv, TypeOK, CallType
<1>2. calls' \in [Calls -> CallType] /\ TypeOK'
  BY <1>1, EmptyTypes DEF TypeOK
<1>3. \A u \in Tabs : /\ tabs[u].latest \in Nat /\ tabs[u].missed \in Nat
                      /\ tabs'[u].latest \in Nat /\ tabs'[u].missed \in Nat
  BY <1>1, <1>2 DEF Tab
<1>4. ASSUME NEW u \in Tabs, NEW n \in Nat, u # t \/ calls[c].done <= n
      PROVE  Keeps(calls, calls', u, n)
  BY <1>1, <1>4, CallGone
<1>5. Ages(t)
  <2> SUFFICES ASSUME NEW n \in Nat, n >= tabs'[t].latest, n >= tabs'[t].missed
               PROVE  Keeps(calls, calls', t, n)
    BY DEF Ages
  <2>1. calls[c].done <= n
    BY <1>1, <1>3
  <2> QED BY <1>4, <2>1
<1>6. ASSUME NEW u \in Tabs, u # t PROVE Ages(u)
  <2>1. tabs[u].latest <= tabs'[u].latest /\ tabs[u].missed <= tabs'[u].missed
    BY <1>3, <1>6 DEF Alike
  <2> QED BY <1>4, <1>6, <2>1 DEF Ages
<1>7. ASSUME NEW u \in Tabs
      PROVE  \/ TabInv(calls', rows, commits, u, tabs'[u])
             \/ /\ Alike(tabs[u], tabs'[u])
                /\ \A n \in Nat : n >= tabs'[u].missed => Keeps(calls, calls', u, n)
  <2>1. CASE u # t
    BY <1>4, <2>1
  <2>2. CASE u = t /\ Alike(tabs[t], tabs'[t]) /\ calls[c].done <= tabs'[t].missed
    <3>1. \A n \in Nat : n >= tabs'[t].missed => calls[c].done <= n
      BY <1>1, <1>3, <2>2
    <3> QED BY <1>4, <2>2, <3>1
  <2> QED BY <2>1, <2>2
<1>8. ASSUME NEW d \in Calls
      PROVE  \/ CallInv(calls', rows, commits, tabs', calls'[d])
             \/ /\ calls'[d] = calls[d]
                /\ calls[d].stage = "answered" => Ages(calls[d].tab)
  <2>1. CASE d = c
    BY <1>1, <2>1, NoCallFacts
  <2>2. CASE d # c
    <3>1. calls'[d] = calls[d]
      BY <1>1, <2>2
    <3>2. calls[d].stage = "answered" => calls[d].tab \in Tabs
      BY DEF ClientInv, CallInv, Sensible
    <3> QED BY <1>5, <1>6, <3>1, <3>2
  <2> QED BY <2>1, <2>2
<1>9. SpinnersWait'
  <2> SUFFICES ASSUME NEW u \in Tabs, tabs'[u].loading
               PROVE  \E d \in Calls : calls'[d].tab = u /\ calls'[d].kind = "list"
    BY Zenon DEF SpinnersWait
  <2>1. PICK d \in Calls : calls[d].tab = u /\ calls[d].kind = "list"
    BY Zenon DEF ClientInv, SpinnersWait
  <2>2. d # c
    BY <2>1
  <2>3. calls'[d] = calls[d]
    BY <1>1, <2>2
  <2> QED BY <2>1, <2>3
<1> QED BY <1>2, <1>7, <1>8, <1>9, QuietStep

\* A call is made or answered; of the tabs, only a spinner may come or go.
LEMMA CallMoves ==
  ASSUME ClientInv, RestIsTyped', UNCHANGED <<rows, commits>>,
         NEW c \in Calls, NEW call \in CallType, calls' = [calls EXCEPT ![c] = call],
         \/ calls[c].stage = "none"
         \/ /\ call.tab = calls[c].tab /\ call.done = calls[c].done
            /\ call.id = calls[c].id /\ call.kind = calls[c].kind,
         tabs' \in [Tabs -> Tab],
         \A u \in Tabs : Alike(tabs[u], tabs'[u]),
         \A u \in Tabs : tabs'[u].loading =>
              tabs[u].loading \/ (call.tab = u /\ call.kind = "list"),
         CallInv(calls', rows, commits, tabs', call)
  PROVE  ClientInv'
<1>1. calls \in [Calls -> CallType] /\ tabs \in [Tabs -> Tab]
  BY DEF ClientInv, TypeOK
<1>2. TypeOK' /\ calls'[c] = call
  BY <1>1 DEF TypeOK
<1>3. calls[c].stage = "none" => calls[c] = NoCall
  BY DEF ClientInv, CallInv, Sensible
<1>4. ASSUME NEW u \in Tabs, NEW n \in Nat PROVE Keeps(calls, calls', u, n)
  <2> SUFFICES ASSUME NEW d \in Calls, calls[d].tab = u, calls[d].done > n
               PROVE  /\ calls'[d].tab = u /\ calls'[d].done = calls[d].done
                      /\ calls'[d].id = calls[d].id /\ calls'[d].kind = calls[d].kind
    BY Zenon DEF Keeps
  <2>1. CASE d # c
    BY <1>1, <2>1
  <2>2. CASE d = c
    <3>1. calls[c].stage # "none"
      BY <1>3, <2>2, NoCallFacts
    <3> QED BY <1>2, <2>2, <3>1
  <2> QED BY <2>1, <2>2
<1>5. ASSUME NEW u \in Tabs PROVE Ages(u)
  <2>1. tabs[u].latest \in Nat /\ tabs[u].missed \in Nat
    BY <1>1 DEF Tab
  <2>2. tabs[u].latest <= tabs'[u].latest /\ tabs[u].missed <= tabs'[u].missed
    BY <2>1 DEF Alike
  <2> QED BY <1>4, <2>2 DEF Ages
<1>6. ASSUME NEW d \in Calls
      PROVE  \/ CallInv(calls', rows, commits, tabs', calls'[d])
             \/ /\ calls'[d] = calls[d]
                /\ calls[d].stage = "answered" => Ages(calls[d].tab)
  <2>1. CASE d = c
    BY <1>2, <2>1
  <2>2. CASE d # c
    <3>1. calls'[d] = calls[d]
      BY <1>1, <2>2
    <3>2. calls[d].stage = "answered" => calls[d].tab \in Tabs
      BY DEF ClientInv, CallInv, Sensible
    <3> QED BY <1>5, <3>1, <3>2
  <2> QED BY <2>1, <2>2
<1>7. SpinnersWait'
  <2> SUFFICES ASSUME NEW u \in Tabs, tabs'[u].loading
               PROVE  \E d \in Calls : calls'[d].tab = u /\ calls'[d].kind = "list"
    BY Zenon DEF SpinnersWait
  <2>1. CASE call.tab = u /\ call.kind = "list"
    BY <1>2, <2>1
  <2>2. CASE tabs[u].loading
    <3>1. PICK d \in Calls : calls[d].tab = u /\ calls[d].kind = "list"
      BY <2>2, Zenon DEF ClientInv, SpinnersWait
    <3>2. d # c => calls'[d] = calls[d]
      BY <1>1
    <3>3. calls[c].tab = u => calls[c].stage # "none"
      BY <1>3, NoCallFacts
    <3> QED BY <1>2, <3>1, <3>2, <3>3
  <2> QED BY <2>1, <2>2, Zenon
<1> QED BY <1>2, <1>4, <1>6, <1>7, QuietStep

\* A tab makes a call.
LEMMA CallMade ==
  ASSUME ClientInv, NEW t \in Tabs, NEW kind \in {"login", "list", "create", "change"},
         NEW token \in Nat, NEW id \in Nat, NEW user \in Users \cup {NoUser},
         Call(t, kind, token, id, user), RestIsTyped',
         kind = "login" => user \in Users,
         kind = "change" => id \in DOMAIN rows, kind # "change" => id = 0,
         tabs' \in [Tabs -> Tab],
         \A u \in Tabs : Alike(tabs[u], tabs'[u]),
         \A u \in Tabs : tabs'[u].loading => tabs[u].loading \/ (t = u /\ kind = "list")
  PROVE  ClientInv'
<1> DEFINE call == [NoCall EXCEPT !.stage = "sent", !.tab = t, !.kind = kind, !.id = id,
                                  !.token = token, !.user = user]
<1>1. /\ call \in CallType /\ call.stage = "sent" /\ call.tab = t /\ call.kind = kind
      /\ call.id = id /\ call.user = user /\ call.done = 0
  <2>1. NoCall.done = 0
    BY DEF NoCall
  <2>2. NoCall \in CallType
    BY EmptyTypes
  <2> HIDE DEF NoCall
  <2> QED BY <2>1, <2>2 DEF CallType
<1>2. PICK c \in Calls : calls[c].stage = "none" /\ calls' = [calls EXCEPT ![c] = call]
  BY DEF Call
<1>3. UNCHANGED <<rows, commits>>
  BY DEF Call, server
<1> HIDE DEF call
<1>4. Sensible(call, rows, commits)
  BY <1>1 DEF Sensible
<1>5. CallInv(calls', rows, commits, tabs', call)
  BY <1>1, <1>4 DEF CallInv, AnswerTrue
<1>6. \A u \in Tabs : tabs'[u].loading =>
              tabs[u].loading \/ (call.tab = u /\ call.kind = "list")
  BY <1>1
<1> QED BY <1>1, <1>2, <1>3, <1>5, <1>6, CallMoves

\* Nothing but tabs and calls.
LEMMA RestStays ==
  ASSUME TypeOK, UNCHANGED <<server, storage>>
  PROVE  RestIsTyped'
  BY DEF TypeOK, RestIsTyped, server

\* A tab that is left as it is.
LEMMA SameTab ==
  ASSUME NEW tab \in Tab
  PROVE  Alike(tab, tab)
  BY DEF Alike, Tab

\* The calls that the stores of a tab make.
LEMMA CallsKeep ==
  ASSUME ClientInv, NEW t \in Tabs,
         \/ Login(t) \/ FetchScenarios(t) \/ CreateScenario(t) \/ ChangeScenario(t)
  PROVE  ClientInv'
<1>1. TypeOK /\ tabs \in [Tabs -> Tab] /\ tabs[t] \in Tab /\ storage.token \in Nat
  BY DEF ClientInv, TypeOK, RestIsTyped, SessionType
<1>2. \A u \in Tabs : Alike(tabs[u], tabs[u])
  BY <1>1, SameTab
<1>3. UNCHANGED <<server, storage>>
  <2>1. \A kind, token, id, user :
           Call(t, kind, token, id, user) => UNCHANGED <<server, storage>>
    BY DEF Call
  <2> QED BY <2>1 DEF Login, FetchScenarios, CreateScenario, ChangeScenario
<1>4. RestIsTyped'
  BY <1>1, <1>3, RestStays
<1>5. CASE Login(t)
  <2>1. PICK user \in Users : Call(t, "login", NoToken, 0, user)
    BY <1>5 DEF Login
  <2>2. tabs' = tabs /\ NoToken \in Nat
    BY <1>5 DEF Login, NoToken
  <2> QED BY <1>1, <1>2, <1>4, <2>1, <2>2, CallMade
<1>6. CASE FetchScenarios(t)
  <2> DEFINE after == [tabs[t] EXCEPT !.loading = TRUE]
  <2>1. /\ after \in Tab
        /\ after.items = tabs[t].items /\ after.total = tabs[t].total
        /\ after.active = tabs[t].active /\ after.latest = tabs[t].latest
        /\ after.listAt = tabs[t].listAt /\ after.activeAt = tabs[t].activeAt
        /\ after.missed = tabs[t].missed
    BY <1>1 DEF Tab
  <2>2. tabs' = [tabs EXCEPT ![t] = after]
    BY <1>6 DEF FetchScenarios
  <2> HIDE DEF after
  <2>3. Alike(tabs[t], after)
    BY <1>1, <2>1 DEF Alike, Tab
  <2>4. tabs' \in [Tabs -> Tab] /\ \A u \in Tabs : Alike(tabs[u], tabs'[u])
    BY <1>1, <1>2, <2>1, <2>2, <2>3
  <2>5. \A u \in Tabs : u # t => tabs'[u] = tabs[u]
    BY <1>1, <2>2
  <2>6. \A u \in Tabs : tabs'[u].loading =>
                tabs[u].loading \/ (t = u /\ "list" = "list")
    BY <2>5, Zenon
  <2>7. Call(t, "list", storage.token, 0, NoUser)
    BY <1>6 DEF FetchScenarios
  <2> QED BY <1>1, <1>4, <2>4, <2>6, <2>7, CallMade
<1>7. CASE CreateScenario(t)
  <2>1. Call(t, "create", storage.token, 0, NoUser) /\ tabs' = tabs
    BY <1>7 DEF CreateScenario
  <2> QED BY <1>1, <1>2, <1>4, <2>1, CallMade
<1>8. CASE ChangeScenario(t)
  <2>1. Call(t, "change", storage.token, tabs[t].active.id, NoUser) /\ tabs' = tabs
    BY <1>8 DEF ChangeScenario
  <2>2. tabs[t].active.id \in DOMAIN rows /\ tabs[t].active.id \in Nat
    BY <1>1, <1>8 DEF ChangeScenario, ClientInv, TabInv, Known, Tab, Scenario
  <2> QED BY <1>1, <1>2, <1>4, <2>1, <2>2, CallMade
<1> QED BY <1>5, <1>6, <1>7, <1>8

\* The scenario selected is as true as the list it is of.
LEMMA SelectKeeps ==
  ASSUME ClientInv, NEW t \in Tabs, Select(t)
  PROVE  ClientInv'
<1>1. PICK i \in DOMAIN tabs[t].items :
         tabs' = [tabs EXCEPT ![t].active = tabs[t].items[i],
                              ![t].activeAt = tabs[t].listAt]
  BY DEF Select
<1>2. TypeOK /\ tabs \in [Tabs -> Tab] /\ tabs[t] \in Tab /\ commits \in Nat
  BY DEF ClientInv, TypeOK, RestIsTyped
<1> DEFINE item == tabs[t].items[i]
           after == [tabs[t] EXCEPT !.active = item, !.activeAt = tabs[t].listAt]
<1>3. item \in Scenario
  BY <1>2 DEF Tab
<1> HIDE DEF item
<1>4. /\ after \in Tab
      /\ after.items = tabs[t].items /\ after.total = tabs[t].total
      /\ after.active = item /\ after.latest = tabs[t].latest
      /\ after.listAt = tabs[t].listAt /\ after.activeAt = tabs[t].listAt
      /\ after.missed = tabs[t].missed
  BY <1>2, <1>3 DEF Tab
<1>5. after.loading <=> tabs[t].loading
  BY <1>2 DEF Tab
<1>6. tabs' = [tabs EXCEPT ![t] = after]
  BY <1>1 DEF item
<1> HIDE DEF after
<1>7. /\ UNCHANGED <<server, storage>> /\ UNCHANGED <<rows, commits>> /\ calls' = calls
  BY DEF Select, server
<1>8. TypeOK'
  BY <1>2, <1>4, <1>6, <1>7, RestStays DEF TypeOK
<1>9. \A u \in Tabs : u # t => tabs'[u] = tabs[u]
  BY <1>2, <1>6
<1>10. tabs'[t] = after
  BY <1>2, <1>6
<1>11. TabInv(calls, rows, commits, t, tabs[t])
  BY DEF ClientInv
<1>12. Bounded(after, commits) /\ Known(after, rows)
  <2>1. item.id \in DOMAIN rows
    BY <1>11 DEF TabInv, Known, item
  <2>2. tabs[t].listAt <= commits
    BY <1>2, <1>11 DEF TabInv, Bounded, Tab, Unknown
  <2> QED BY <1>4, <1>11, <2>1, <2>2 DEF TabInv, Bounded, Known
<1>13. ShowsTruth(calls, rows, t, after)
  <2>1. ASSUME after.missed <= after.listAt
        PROVE  /\ ListTrue(calls, rows, t, after.items, after.listAt)
               /\ RowTrue(calls, rows, t, after.active, after.activeAt)
    <3>1. ListTrue(calls, rows, t, tabs[t].items, tabs[t].listAt)
      BY <1>4, <1>11, <2>1 DEF TabInv, ShowsTruth
    <3>2. item.id \in DOMAIN rows
      BY <1>11 DEF TabInv, Known, item
    <3>3. RowTrue(calls, rows, t, item, tabs[t].listAt)
      BY <3>1, <3>2, TruthOfItem DEF item
    <3> QED BY <1>4, <3>1, <3>3
  <2> QED BY <1>4, <2>1 DEF ShowsTruth
<1>14. TabInv(calls', rows, commits, t, tabs'[t])
  BY <1>7, <1>10, <1>12, <1>13 DEF TabInv
<1>15. \A u \in Tabs, n \in Nat : Keeps(calls, calls', u, n)
  BY <1>7 DEF Keeps
<1>16. ASSUME NEW u \in Tabs PROVE Ages(u)
  <2>1. CASE u = t
    BY <1>2, <1>4, <1>10, <1>15, <2>1 DEF Ages, Tab
  <2>2. CASE u # t
    <3>1. tabs[u] \in Tab
      BY <1>2
    <3> QED BY <1>9, <1>15, <2>2, <3>1 DEF Ages, Tab
  <2> QED BY <2>1, <2>2
<1>17. \A u \in Tabs :
            \/ TabInv(calls', rows, commits, u, tabs'[u])
            \/ /\ Alike(tabs[u], tabs'[u])
               /\ \A n \in Nat : n >= tabs'[u].missed => Keeps(calls, calls', u, n)
  BY <1>2, <1>9, <1>14, <1>15, SameTab
<1>18. \A c \in Calls :
            /\ calls'[c] = calls[c]
            /\ calls[c].stage = "answered" => Ages(calls[c].tab)
  BY <1>7, <1>16 DEF ClientInv, CallInv, Sensible
<1>19. SpinnersWait'
  <2>1. \A u \in Tabs : tabs'[u].loading => tabs[u].loading
    BY <1>5, <1>9, <1>10, Zenon
  <2> QED BY <1>7, <2>1, Zenon DEF SpinnersWait, ClientInv
<1> QED BY <1>7, <1>8, <1>17, <1>18, <1>19, QuietStep

\* What the server answers.
LEMMA ReplyFields ==
  ASSUME commits \in Nat, NEW call \in CallType, NEW answer \in Seq(Scenario)
  PROVE  LET reply == Reply(call, answer)
         IN  /\ reply \in CallType /\ reply.stage = "answered"
             /\ reply.tab = call.tab /\ reply.kind = call.kind /\ reply.id = call.id
             /\ reply.done = call.done /\ reply.rows = answer /\ reply.at = commits
<1>1. NoToken \in Nat
  BY DEF NoToken
<1> QED BY <1>1 DEF Reply, CallType

\* A call is answered.
LEMMA CallAnswered ==
  ASSUME ClientInv, UNCHANGED <<server, storage, tabs>>,
         NEW c \in Calls, NEW answer \in Seq(Scenario), calls[c].stage # "none",
         calls' = [calls EXCEPT ![c] = Reply(calls[c], answer)],
         CallInv(calls', rows, commits, tabs, Reply(calls[c], answer))
  PROVE  ClientInv'
<1>1. /\ TypeOK /\ calls[c] \in CallType /\ commits \in Nat
      /\ tabs \in [Tabs -> Tab] /\ tabs' = tabs
  BY DEF ClientInv, TypeOK, RestIsTyped
<1>2. UNCHANGED <<rows, commits>> /\ RestIsTyped'
  BY <1>1, RestStays DEF server
<1> DEFINE reply == Reply(calls[c], answer)
<1>3. /\ reply \in CallType /\ reply.tab = calls[c].tab /\ reply.kind = calls[c].kind
      /\ reply.id = calls[c].id /\ reply.done = calls[c].done
  BY <1>1, ReplyFields
<1>4. \A u \in Tabs : Alike(tabs[u], tabs'[u])
  BY <1>1, SameTab
<1>5. CallInv(calls', rows, commits, tabs', reply) /\ calls' = [calls EXCEPT ![c] = reply]
  BY <1>1
<1>6. \A u \in Tabs :
         tabs'[u].loading => tabs[u].loading \/ (reply.tab = u /\ reply.kind = "list")
  BY <1>1, Zenon
<1> HIDE DEF reply
<1> QED BY <1>1, <1>2, <1>3, <1>4, <1>5, <1>6, CallMoves

\* A list is read when it is answered.
LEMMA AnswerListKeeps ==
  ASSUME ClientInv, NEW c \in Calls, AnswerList(c)
  PROVE  ClientInv'
<1>1. /\ calls[c].stage = "sent" /\ calls[c].kind = "list"
      /\ calls' = [calls EXCEPT ![c] = Reply(calls[c], Listing)]
      /\ UNCHANGED <<server, storage, tabs>>
  BY DEF AnswerList
<1>2. /\ calls[c] \in CallType /\ rows \in Seq(Nat) /\ commits \in Nat
      /\ Sensible(calls[c], rows, commits)
  BY DEF ClientInv, TypeOK, RestIsTyped, CallInv
<1>3. /\ Listing \in Seq(Scenario) /\ DOMAIN Listing = 1..Len(rows)
      /\ \A i \in 1..Len(rows) :
            /\ Listing[i].id = Len(rows) + 1 - i
            /\ Listing[i].id \in DOMAIN rows
            /\ Listing[i].version = rows[Listing[i].id]
  BY <1>2, ListingType
<1> DEFINE reply == Reply(calls[c], Listing)
<1>4. /\ reply.stage = "answered" /\ reply.tab = calls[c].tab /\ reply.kind = "list"
      /\ reply.done = calls[c].done /\ reply.rows = Listing /\ reply.at = commits
  BY <1>1, <1>2, <1>3, ReplyFields
<1> HIDE DEF reply
<1>5. calls[c].done = 0 /\ calls[c].tab \in Tabs
  BY <1>1, <1>2 DEF Sensible, CallType
<1>6. Sensible(reply, rows, commits)
  BY <1>2, <1>3, <1>4, <1>5 DEF Sensible
<1>7. ListTrue(calls', rows, calls[c].tab, Listing, commits)
  <2> HIDE DEF Listing
  <2>1. ASSUME NEW i \in DOMAIN Listing, NEW j \in DOMAIN Listing,
               Listing[i].id = Listing[j].id
        PROVE  i = j
    <3>1. i \in 1..Len(rows) /\ j \in 1..Len(rows)
      BY <1>3
    <3>2. Listing[i].id = Len(rows) + 1 - i /\ Listing[j].id = Len(rows) + 1 - j
      BY <1>3, <3>1
    <3>3. Len(rows) + 1 - i = Len(rows) + 1 - j
      BY <2>1, <3>2
    <3>4. Len(rows) \in Nat
      BY <1>2
    <3> QED BY <3>1, <3>3, <3>4
  <2>2. ASSUME NEW id \in DOMAIN rows
        PROVE  \E i \in DOMAIN Listing :
                  /\ Listing[i].id = id
                  /\ RowTrue(calls', rows, calls[c].tab, Listing[i], commits)
    <3>1. id \in 1..Len(rows) /\ Len(rows) + 1 - id \in 1..Len(rows)
      BY <1>2
    <3>2. Listing[Len(rows) + 1 - id].id = id
      <4>1. Listing[Len(rows) + 1 - id].id = Len(rows) + 1 - (Len(rows) + 1 - id)
        BY <1>3, <3>1
      <4> QED BY <3>1, <4>1
    <3>3. Listing[Len(rows) + 1 - id].version = rows[Listing[Len(rows) + 1 - id].id]
      BY <1>3, <3>1
    <3> QED BY <1>3, <3>1, <3>2, <3>3 DEF RowTrue
  <2> QED BY <2>1, <2>2 DEF ListTrue
<1>8. CallInv(calls', rows, commits, tabs, reply)
  BY <1>4, <1>6, <1>7 DEF CallInv, AnswerTrue
<1> QED BY <1>1, <1>3, <1>8, CallAnswered DEF reply

\* So is the scenario a call has changed.
LEMMA AnswerChangeKeeps ==
  ASSUME ClientInv, NEW c \in Calls, AnswerChange(c)
  PROVE  ClientInv'
<1> DEFINE id == calls[c].id
           row == [id |-> id, version |-> rows[id]]
<1>1. /\ calls[c].stage = "committed"
      /\ calls' = [calls EXCEPT ![c] = Reply(calls[c], <<row>>)]
      /\ UNCHANGED <<server, storage, tabs>>
  BY DEF AnswerChange
<1>2. /\ calls[c] \in CallType /\ rows \in Seq(Nat) /\ commits \in Nat
      /\ Sensible(calls[c], rows, commits)
  BY DEF ClientInv, TypeOK, RestIsTyped, CallInv
<1>3. /\ calls[c].done > 0 /\ calls[c].done <= commits /\ calls[c].tab \in Tabs
      /\ calls[c].kind \in {"create", "change"} /\ id \in DOMAIN rows
  BY <1>1, <1>2 DEF Sensible
<1>4. row \in Scenario /\ row.id = id /\ row.version = rows[id]
  BY <1>2, <1>3 DEF Scenario
<1> HIDE DEF row
<1> DEFINE answer == <<row>>
           reply == Reply(calls[c], answer)
<1>5. answer \in Seq(Scenario) /\ Len(answer) = 1 /\ answer[1] = row /\ DOMAIN answer = {1}
  BY <1>4
<1> HIDE DEF answer
<1>6. /\ reply.stage = "answered" /\ reply.tab = calls[c].tab
      /\ reply.kind = calls[c].kind /\ reply.id = id
      /\ reply.done = calls[c].done /\ reply.rows = answer /\ reply.at = commits
  BY <1>2, <1>5, ReplyFields
<1> HIDE DEF reply
<1>7. Sensible(reply, rows, commits)
  BY <1>2, <1>3, <1>4, <1>5, <1>6 DEF Sensible
<1>8. RowTrue(calls', rows, calls[c].tab, row, commits)
  BY <1>4 DEF RowTrue
<1>9. CallInv(calls', rows, commits, tabs, reply)
  BY <1>3, <1>5, <1>6, <1>7, <1>8 DEF CallInv, AnswerTrue
<1> QED BY <1>1, <1>5, <1>9, CallAnswered DEF reply, answer

\* A call that fails leaves its tab with a change it has missed, if it made one.
LEMMA TakeErrorKeeps ==
  ASSUME ClientInv, NEW c \in Calls, calls[c].stage # "none", TakeError(c)
  PROVE  ClientInv'
<1> DEFINE t == calls[c].tab
           after == Failed(tabs[t], calls[c])
<1>1. TypeOK /\ tabs \in [Tabs -> Tab] /\ calls[c] \in CallType
  BY DEF ClientInv, TypeOK
<1>2. t \in Tabs
  BY DEF ClientInv, CallInv, Sensible
<1>3. /\ tabs' = [tabs EXCEPT ![t] = after] /\ calls' = [calls EXCEPT ![c] = NoCall]
      /\ UNCHANGED <<server, storage>>
  BY <1>1, <1>2 DEF TakeError
<1>4. after \in Tab /\ Alike(tabs[t], after)
      /\ after.missed = Later(tabs[t].missed, calls[c].done)
  BY <1>1, <1>2, FailedTab
<1>5. after.loading => tabs[t].loading /\ calls[c].kind # "list"
  BY <1>1, <1>2, FailedFlags
<1>6. /\ tabs[t].missed \in Nat /\ calls[c].done \in Nat
      /\ tabs[t].latest \in Nat /\ after.latest = tabs[t].latest
  BY <1>1, <1>2, <1>4 DEF Tab, CallType, Alike
<1> HIDE DEF after, t
<1>7. tabs[t].missed <= after.missed /\ calls[c].done <= after.missed
  BY <1>4, <1>6, LaterIsLater
<1>8. tabs' \in [Tabs -> Tab] /\ tabs'[t] = after
  BY <1>1, <1>2, <1>3, <1>4
<1>9. \A u \in Tabs \ {t} : tabs'[u] = tabs[u] /\ Alike(tabs[u], tabs'[u])
  BY <1>1, <1>3, SameTab
<1>10. \A u \in Tabs : tabs'[u].loading => tabs[u].loading
  BY <1>5, <1>8, <1>9, Zenon
<1>11. RestIsTyped' /\ UNCHANGED <<rows, commits>>
  BY <1>1, <1>3, RestStays DEF server
<1>12. tabs'[t].loading => calls[c].kind # "list"
  BY <1>5, <1>8, Zenon
<1>13. t = calls[c].tab
  BY DEF t
<1>14. /\ tabs[t].latest <= tabs'[t].latest /\ tabs[t].missed <= tabs'[t].missed
       /\ calls[c].done <= tabs'[t].missed /\ Alike(tabs[t], tabs'[t])
  BY <1>4, <1>6, <1>7, <1>8
<1>15. /\ calls' = [calls EXCEPT ![c] = NoCall]
       /\ \A u \in Tabs \ {t} : Alike(tabs[u], tabs'[u])
  BY <1>3, <1>9
<1> QED BY <1>2, <1>8, <1>10, <1>11, <1>12, <1>13, <1>14, <1>15, CallEnds

\* A list that is taken is what the tab shows, true as of when it was read.
LEMMA TakeListKeeps ==
  ASSUME ClientInv, NEW c \in Calls, Take(c), calls[c].kind = "list"
  PROVE  ClientInv'
<1> DEFINE call == calls[c]
           t == call.tab
           tab == tabs[t]
           after == Listed(tab, call)
           first == tab.active = NoScenario /\ call.rows # << >>
<1>1. /\ TypeOK /\ tabs \in [Tabs -> Tab] /\ calls \in [Calls -> CallType]
      /\ call \in CallType /\ call.stage = "answered" /\ commits \in Nat
  BY DEF ClientInv, TypeOK, RestIsTyped, Take
<1>2. Sensible(call, rows, commits) /\ AnswerTrue(calls, rows, tab, call)
  BY <1>1 DEF ClientInv, CallInv
<1>3. t \in Tabs /\ call.done = 0 /\ call.at <= commits
  BY <1>1, <1>2 DEF Sensible, CallType
<1>4. tab \in Tab /\ TabInv(calls, rows, commits, t, tab)
  BY <1>1, <1>3 DEF ClientInv
<1>5. /\ tabs' = [tabs EXCEPT ![t] = after] /\ calls' = [calls EXCEPT ![c] = NoCall]
      /\ UNCHANGED <<server, storage>>
  BY <1>1, <1>3 DEF Take
<1>6. /\ after \in Tab /\ after.items = call.rows /\ after.total = Len(call.rows)
      /\ after.active = IF first THEN call.rows[1] ELSE tab.active
      /\ after.latest = Later(tab.latest, call.at)
      /\ after.listAt = AsOf(tab, call)
      /\ after.activeAt = IF first THEN AsOf(tab, call) ELSE tab.activeAt
      /\ after.missed = tab.missed
  BY <1>1, <1>4, ListedTab
<1>7. ~after.loading
  BY <1>4, ListedFlags
<1>8. /\ AsOf(tab, call) \in Nat \cup {Unknown}
      /\ AsOf(tab, call) # Unknown => AsOf(tab, call) = call.at /\ tab.latest <= call.at
      /\ \A n \in Nat : ~(n <= Unknown) /\ Unknown <= n
  BY <1>1, <1>4, AsOfType
<1>9. /\ tab.latest \in Nat /\ call.at \in Nat /\ tab.missed \in Nat
      /\ call.rows \in Seq(Scenario) /\ tab.activeAt \in Nat \cup {Unknown}
  BY <1>1, <1>4 DEF Tab, CallType
<1>10. /\ after.latest \in Nat /\ tab.latest <= after.latest /\ call.at <= after.latest
  BY <1>6, <1>9, LaterIsLater
<1>11. after.latest <= commits
  BY <1>3, <1>4, <1>6 DEF TabInv, Bounded, Later
<1>12. call.rows # << >> => 1 \in DOMAIN call.rows
  BY <1>9
<1>13. \A i \in DOMAIN call.rows : call.rows[i].id \in DOMAIN rows
  BY <1>1, <1>2 DEF Sensible
<1> HIDE DEF after, tab, t, call
<1>14. Bounded(after, commits)
  <2>1. AsOf(tab, call) <= after.latest /\ AsOf(tab, call) <= commits
    BY <1>1, <1>3, <1>8, <1>9, <1>10
  <2>2. tab.activeAt <= commits
    BY <1>4 DEF TabInv, Bounded
  <2> QED BY <1>6, <1>11, <2>1, <2>2 DEF Bounded
<1>15. Known(after, rows)
  BY <1>4, <1>6, <1>12, <1>13 DEF TabInv, Known
<1>16. ASSUME NEW n \in Nat PROVE Keeps(calls, calls', t, n)
  <2>1. calls[c].done <= n
    BY <1>3 DEF call
  <2>2. calls \in [Calls -> CallType] /\ calls' = [calls EXCEPT ![c] = NoCall]
    BY <1>1, <1>5
  <2> QED BY <2>1, <2>2, CallGone
<1>17. ASSUME tab.missed <= AsOf(tab, call)
       PROVE  /\ AsOf(tab, call) = call.at
              /\ ListTrue(calls', rows, t, call.rows, call.at)
  <2>1. AsOf(tab, call) = call.at /\ tab.latest <= call.at
    BY <1>8, <1>9, <1>17
  <2>2. ListTrue(calls, rows, t, call.rows, call.at)
    BY <1>1, <1>2, <1>17, <2>1 DEF AnswerTrue, t, call
  <2> QED BY <1>9, <1>16, <2>1, <2>2, KeptTruth
<1>18. ASSUME after.missed <= after.activeAt, after.active # NoScenario
       PROVE  RowTrue(calls', rows, t, after.active, after.activeAt)
  <2>1. CASE first
    <3>1. ListTrue(calls', rows, t, call.rows, call.at) /\ AsOf(tab, call) = call.at
      BY <1>6, <1>17, <1>18, <2>1
    <3>2. RowTrue(calls', rows, t, call.rows[1], call.at)
      BY <1>12, <1>13, <2>1, <3>1, TruthOfItem
    <3> QED BY <1>6, <2>1, <3>1, <3>2
  <2>2. CASE ~first
    <3>1. /\ after.active = tab.active /\ after.activeAt = tab.activeAt
          /\ tab.missed <= tab.activeAt /\ tab.activeAt \in Nat
      BY <1>6, <1>8, <1>9, <1>18, <2>2
    <3>2. RowTrue(calls, rows, t, tab.active, tab.activeAt)
      BY <1>4, <1>18, <3>1 DEF TabInv, ShowsTruth
    <3>3. Keeps(calls, calls', t, tab.activeAt)
      BY <1>16, <3>1
    <3> QED BY <3>1, <3>2, <3>3, KeptTruth
  <2> QED BY <2>1, <2>2
<1>19. ShowsTruth(calls', rows, t, after)
  BY <1>6, <1>17, <1>18 DEF ShowsTruth
<1>20. TabInv(calls', rows, commits, t, after)
  BY <1>14, <1>15, <1>19 DEF TabInv
<1>21. tabs' \in [Tabs -> Tab] /\ tabs'[t] = after
  BY <1>1, <1>3, <1>5, <1>6
<1>22. \A u \in Tabs \ {t} : tabs'[u] = tabs[u] /\ Alike(tabs[u], tabs'[u])
  BY <1>1, <1>5, SameTab
<1>23. \A u \in Tabs : tabs'[u].loading => tabs[u].loading
  BY <1>7, <1>21, <1>22, Zenon
<1>24. RestIsTyped' /\ UNCHANGED <<rows, commits>>
  BY <1>1, <1>5, RestStays DEF server
<1>25. ~tabs'[t].loading
  BY <1>7, <1>21, Zenon
<1>26. /\ tabs[t].latest <= tabs'[t].latest /\ tabs[t].missed <= tabs'[t].missed
       /\ calls[c].done <= tabs'[t].latest
       /\ TabInv(calls', rows, commits, t, tabs'[t])
  BY <1>3, <1>6, <1>9, <1>10, <1>20, <1>21 DEF tab, call
<1>27. /\ calls' = [calls EXCEPT ![c] = NoCall]
       /\ \A u \in Tabs \ {t} : Alike(tabs[u], tabs'[u])
  BY <1>5, <1>22
<1>28. calls[c].tab = t
  BY DEF t, call
<1> QED BY <1>3, <1>21, <1>23, <1>24, <1>25, <1>26, <1>27, <1>28, CallEnds

\* The list after the answer of a change, scenario by scenario.
LEMMA ItemsAfterFacts ==
  ASSUME NEW items \in Seq(Scenario), NEW call
  PROVE  LET after == ItemsAfter(items, call)
         IN  /\ call.kind = "create" =>
                   /\ DOMAIN after = 1..Len(items) + 1
                   /\ after[1] = call.rows[1]
                   /\ \A i \in 1..Len(items) : after[i + 1] = items[i]
             /\ call.kind # "create" =>
                   /\ DOMAIN after = 1..Len(items)
                   /\ \A i \in 1..Len(items) :
                         after[i] = IF items[i].id = call.rows[1].id
                                    THEN call.rows[1] ELSE items[i]
<1> DEFINE row == call.rows[1]
           prepended == <<row>> \o items
           merged == [i \in DOMAIN items |->
             IF items[i].id = call.rows[1].id THEN call.rows[1] ELSE items[i]]
<1>1. /\ DOMAIN prepended = 1..Len(items) + 1 /\ prepended[1] = row
      /\ \A i \in 1..Len(items) : prepended[i + 1] = items[i]
  OBVIOUS
<1>2. /\ DOMAIN merged = 1..Len(items)
      /\ \A i \in 1..Len(items) :
            merged[i] = IF items[i].id = call.rows[1].id THEN call.rows[1] ELSE items[i]
  OBVIOUS
<1>3. ItemsAfter(items, call) = IF call.kind = "create" THEN prepended ELSE merged
  BY DEF ItemsAfter
<1> HIDE DEF prepended, merged
<1> QED BY <1>1, <1>2, <1>3 DEF row

\* A true list is true after the answer of a change, which is of the same change
\* or of a later one, that came in order: the scenario in it is what the call was
\* awaited for.
LEMMA ListAfterChange ==
  ASSUME calls \in [Calls -> CallType], NEW c \in Calls, NEW t, calls[c].tab = t,
         calls' = [calls EXCEPT ![c] = NoCall],
         calls[c].rows[1] \in Scenario, calls[c].rows[1].id = calls[c].id,
         NEW items \in Seq(Scenario), NEW n \in Nat,
         ListTrue(calls, rows, t, items, n),
         RowTrue(calls', rows, t, calls[c].rows[1], n),
         calls[c].kind = "create" =>
            \A i \in DOMAIN items : items[i].id # calls[c].id
  PROVE  ListTrue(calls', rows, t, ItemsAfter(items, calls[c]), n)
<1> DEFINE row == calls[c].rows[1]
           after == ItemsAfter(items, calls[c])
<1>1. /\ calls[c].kind = "create" =>
            /\ DOMAIN after = 1..Len(items) + 1 /\ after[1] = row
            /\ \A i \in 1..Len(items) : after[i + 1] = items[i]
      /\ calls[c].kind # "create" =>
            /\ DOMAIN after = 1..Len(items)
            /\ \A i \in 1..Len(items) :
                  after[i] = IF items[i].id = row.id THEN row ELSE items[i]
  BY ItemsAfterFacts
<1>2. row.id = calls[c].id /\ RowTrue(calls', rows, t, row, n)
  OBVIOUS
<1>3. \A d \in Calls : d # c => calls'[d] = calls[d]
  OBVIOUS
<1>4. ASSUME NEW id, id # row.id
      PROVE  /\ Pending(calls, t, id, n) => Pending(calls', t, id, n)
             /\ Created(calls, t, id, n) => Created(calls', t, id, n)
  BY <1>2, <1>3, <1>4 DEF Pending, Created
<1>5. calls[c].kind # "create" =>
         (Created(calls, t, row.id, n) => Created(calls', t, row.id, n))
  BY <1>3 DEF Created
<1>6. \A id \in DOMAIN rows :
         \/ Created(calls, t, id, n)
         \/ \E i \in DOMAIN items :
               items[i].id = id /\ RowTrue(calls, rows, t, items[i], n)
  BY DEF ListTrue
<1>7. DOMAIN items = 1..Len(items) /\ Len(items) \in Nat
  OBVIOUS
<1>8. \A i, j \in 1..Len(items) : items[i].id = items[j].id => i = j
  BY <1>7 DEF ListTrue
<1>9. ASSUME NEW i \in DOMAIN items, items[i].id # row.id,
             RowTrue(calls, rows, t, items[i], n)
      PROVE  RowTrue(calls', rows, t, items[i], n)
  BY <1>4, <1>9 DEF RowTrue
<1> HIDE DEF after, row
<1>10. ASSUME calls[c].kind = "create" PROVE ListTrue(calls', rows, t, after, n)
  <2>1. \A i, j \in DOMAIN after : after[i].id = after[j].id => i = j
    <3>1. \A i \in DOMAIN after :
             \/ i = 1 /\ after[i] = row
             \/ i - 1 \in 1..Len(items) /\ after[i] = items[i - 1]
      <4> SUFFICES ASSUME NEW i \in DOMAIN after, i # 1
                   PROVE  i - 1 \in 1..Len(items) /\ after[i] = items[i - 1]
        BY <1>1, <1>10
      <4>1. i - 1 \in 1..Len(items) /\ (i - 1) + 1 = i
        BY <1>1, <1>7, <1>10
      <4> QED BY <1>1, <1>10, <4>1
    <3>2. \A i \in 1..Len(items) : items[i].id # row.id
      BY <1>2, <1>7, <1>10
    <3>3. \A i \in DOMAIN after : i \in Nat
      BY <1>1, <1>7, <1>10
    <3> SUFFICES ASSUME NEW i \in DOMAIN after, NEW j \in DOMAIN after,
                        after[i].id = after[j].id
                 PROVE  i = j
      OBVIOUS
    <3>4. i = 1 <=> j = 1
      BY <3>1, <3>2
    <3>5. i # 1 => i - 1 = j - 1
      BY <1>8, <3>1, <3>4
    <3> QED BY <3>3, <3>4, <3>5
  <2>2. ASSUME NEW id \in DOMAIN rows
        PROVE  \/ Created(calls', t, id, n)
               \/ \E i \in DOMAIN after :
                     after[i].id = id /\ RowTrue(calls', rows, t, after[i], n)
    <3>1. CASE id = row.id
      <4>1. 1 \in DOMAIN after /\ after[1] = row
        BY <1>1, <1>7, <1>10
      <4> QED BY <1>2, <3>1, <4>1
    <3>2. CASE id # row.id
      <4>1. CASE Created(calls, t, id, n)
        BY <1>4, <3>2, <4>1
      <4>2. CASE \E i \in DOMAIN items :
                    items[i].id = id /\ RowTrue(calls, rows, t, items[i], n)
        <5>1. PICK i \in DOMAIN items :
                 items[i].id = id /\ RowTrue(calls, rows, t, items[i], n)
          BY <4>2
        <5>2. i + 1 \in DOMAIN after /\ after[i + 1] = items[i]
          BY <1>1, <1>7, <1>10
        <5>3. RowTrue(calls', rows, t, items[i], n)
          BY <1>9, <3>2, <5>1
        <5> QED BY <5>1, <5>2, <5>3
      <4> QED BY <1>6, <4>1, <4>2
    <3> QED BY <3>1, <3>2
  <2> QED BY <2>1, <2>2 DEF ListTrue
<1>11. ASSUME calls[c].kind # "create" PROVE ListTrue(calls', rows, t, after, n)
  <2>1. /\ DOMAIN after = 1..Len(items)
        /\ \A i \in 1..Len(items) :
              after[i] = IF items[i].id = row.id THEN row ELSE items[i]
    BY <1>1, <1>11
  <2>2. \A i \in 1..Len(items) : after[i].id = items[i].id
    BY <2>1
  <2>3. \A i, j \in DOMAIN after : after[i].id = after[j].id => i = j
    BY <1>8, <2>1, <2>2
  <2>4. ASSUME NEW id \in DOMAIN rows
        PROVE  \/ Created(calls', t, id, n)
               \/ \E i \in DOMAIN after :
                     after[i].id = id /\ RowTrue(calls', rows, t, after[i], n)
    <3>1. CASE Created(calls, t, id, n)
      BY <1>4, <1>5, <1>11, <3>1
    <3>2. CASE \E i \in DOMAIN items :
                  items[i].id = id /\ RowTrue(calls, rows, t, items[i], n)
      <4>1. PICK i \in DOMAIN items :
               items[i].id = id /\ RowTrue(calls, rows, t, items[i], n)
        BY <3>2
      <4>2. i \in DOMAIN after /\ after[i].id = id
        BY <1>7, <2>1, <2>2, <4>1
      <4>3. CASE id = row.id
        <5>1. after[i] = row
          BY <1>7, <2>1, <4>1, <4>3
        <5> QED BY <1>2, <4>2, <5>1
      <4>4. CASE id # row.id
        <5>1. after[i] = items[i]
          BY <1>7, <2>1, <4>1, <4>4
        <5>2. RowTrue(calls', rows, t, items[i], n)
          BY <1>9, <4>1, <4>4
        <5> QED BY <4>2, <5>1, <5>2
      <4> QED BY <4>3, <4>4
    <3> QED BY <1>6, <3>1, <3>2
  <2> QED BY <2>3, <2>4 DEF ListTrue
<1> QED BY <1>10, <1>11 DEF after

\* The answer of a change that is taken in order brings what the tab shows up to
\* what it was awaited for.
LEMMA TakeChangeKeeps ==
  ASSUME ClientInv, NEW c \in Calls, Take(c), calls[c].kind # "list"
  PROVE  ClientInv'
<1> DEFINE call == calls[c]
           t == call.tab
           tab == tabs[t]
           after == Shows(tab, call)
           row == call.rows[1]
<1>1. /\ TypeOK /\ tabs \in [Tabs -> Tab] /\ calls \in [Calls -> CallType]
      /\ call \in CallType /\ call.stage = "answered" /\ commits \in Nat
  BY DEF ClientInv, TypeOK, RestIsTyped, Take
<1>2. Sensible(call, rows, commits) /\ AnswerTrue(calls, rows, tab, call)
  BY <1>1 DEF ClientInv, CallInv
<1>3. /\ t \in Tabs /\ call.at <= commits /\ call.done <= call.at
      /\ row.id = call.id /\ row.id \in DOMAIN rows
  <2>1. Len(call.rows) = 1 /\ \A i \in DOMAIN call.rows : call.rows[i].id \in DOMAIN rows
    BY <1>1, <1>2 DEF Sensible
  <2>2. 1 \in DOMAIN call.rows
    BY <1>1, <2>1 DEF CallType
  <2> QED BY <1>1, <1>2, <2>1, <2>2 DEF Sensible
<1>4. tab \in Tab /\ TabInv(calls, rows, commits, t, tab)
  BY <1>1, <1>3 DEF ClientInv
<1>5. row \in Scenario
  <2>1. Len(call.rows) = 1 /\ call.rows \in Seq(Scenario)
    BY <1>1, <1>2 DEF Sensible, CallType
  <2> QED BY <2>1
<1>6. /\ tabs' = [tabs EXCEPT ![t] = after] /\ calls' = [calls EXCEPT ![c] = NoCall]
      /\ UNCHANGED <<server, storage>>
  BY <1>1, <1>3 DEF Take
<1>7. /\ after \in Tab /\ after.items = ItemsAfter(tab.items, call)
      /\ after.total = TotalAfter(tab.total, call) /\ after.active = row
      /\ after.latest = Later(tab.latest, call.at)
      /\ after.listAt = ListAtAfter(tab, call)
      /\ after.activeAt = AsOf(tab, call)
      /\ after.missed = tab.missed
  BY <1>1, <1>4, <1>5, ShowsTab
<1>8. after.loading <=> tab.loading
  BY <1>4, ShowsFlags
<1>9. /\ AsOf(tab, call) \in Nat \cup {Unknown}
      /\ AsOf(tab, call) # Unknown => AsOf(tab, call) = call.at /\ tab.latest <= call.at
      /\ \A n \in Nat : ~(n <= Unknown) /\ Unknown <= n
  BY <1>1, <1>4, AsOfType
<1>10. /\ tab.latest \in Nat /\ call.at \in Nat /\ tab.missed \in Nat
       /\ call.done \in Nat /\ tab.listAt \in Nat \cup {Unknown}
       /\ tab.items \in Seq(Scenario) /\ tab.total \in Nat
  BY <1>1, <1>4 DEF Tab, CallType
<1>11. /\ after.latest \in Nat /\ tab.latest <= after.latest /\ call.at <= after.latest
  BY <1>7, <1>10, LaterIsLater
<1>12. after.latest <= commits
  BY <1>3, <1>4, <1>7 DEF TabInv, Bounded, Later
<1>13. ItemsAfter(tab.items, call) \in Seq(Scenario)
       /\ Len(ItemsAfter(tab.items, call)) = TotalAfter(Len(tab.items), call)
  BY <1>5, <1>10, ItemsAfterType
<1>14. calls[c] = call /\ calls[c].tab = t /\ calls[c].rows[1] = row /\ tabs[t] = tab
  OBVIOUS
<1> HIDE DEF after, tab, t, call, row
<1>15. Bounded(after, commits)
  <2>1. AsOf(tab, call) <= commits
    BY <1>1, <1>3, <1>9, <1>10
  <2>2. tab.listAt <= after.latest
    BY <1>4, <1>10, <1>11 DEF TabInv, Bounded, Unknown
  <2>3. ListAtAfter(tab, call) <= after.latest
    BY <1>9, <1>11, <2>2 DEF ListAtAfter
  <2>4. tab.total = Len(tab.items)
    BY <1>4 DEF TabInv, Bounded
  <2> QED BY <1>7, <1>12, <1>13, <2>1, <2>3, <2>4 DEF Bounded
<1>16. Known(after, rows)
  <2>1. \A i \in DOMAIN tab.items : tab.items[i].id \in DOMAIN rows
    BY <1>4 DEF TabInv, Known
  <2>2. \A i \in DOMAIN ItemsAfter(tab.items, call) :
           ItemsAfter(tab.items, call)[i].id \in DOMAIN rows
    <3>1. CASE call.kind = "create"
      <4> DEFINE items == ItemsAfter(tab.items, call)
      <4>1. /\ DOMAIN items = 1..Len(tab.items) + 1 /\ items[1] = row
            /\ \A i \in 1..Len(tab.items) : items[i + 1] = tab.items[i]
        BY <1>10, <1>14, <3>1, ItemsAfterFacts
      <4> HIDE DEF items
      <4> SUFFICES ASSUME NEW i \in DOMAIN items, i # 1 PROVE items[i].id \in DOMAIN rows
        BY <1>3, <4>1 DEF items
      <4>2. i - 1 \in 1..Len(tab.items) /\ (i - 1) + 1 = i
        BY <1>10, <4>1
      <4>3. items[i] = tab.items[i - 1]
        BY <4>1, <4>2
      <4> QED BY <1>10, <2>1, <4>2, <4>3
    <3>2. CASE call.kind # "create"
      <4>1. /\ DOMAIN ItemsAfter(tab.items, call) = 1..Len(tab.items)
            /\ \A i \in 1..Len(tab.items) :
                  ItemsAfter(tab.items, call)[i] =
                     IF tab.items[i].id = row.id THEN row ELSE tab.items[i]
        BY <1>10, <1>14, <3>2, ItemsAfterFacts
      <4> QED BY <1>3, <1>10, <2>1, <4>1
    <3> QED BY <3>1, <3>2
  <2> QED BY <1>3, <1>7, <2>2 DEF Known
<1>17. ASSUME NEW n \in Nat, call.done <= n PROVE Keeps(calls, calls', t, n)
  <2>1. calls \in [Calls -> CallType] /\ calls[c].done <= n
    BY <1>1, <1>14, <1>17
  <2> QED BY <1>6, <2>1, CallGone
<1>18. ASSUME tab.latest <= call.at, tab.missed <= call.at
       PROVE  RowTrue(calls', rows, t, row, call.at)
  <2>1. RowTrue(calls, rows, t, row, call.at)
    BY <1>1, <1>2, <1>14, <1>18 DEF AnswerTrue
  <2>2. Keeps(calls, calls', t, call.at)
    BY <1>3, <1>10, <1>17
  <2> QED BY <2>1, <2>2, KeptTruth
<1>19. ASSUME after.missed <= after.activeAt
       PROVE  RowTrue(calls', rows, t, after.active, after.activeAt)
  <2>1. after.activeAt = call.at /\ tab.latest <= call.at /\ tab.missed <= call.at
    BY <1>7, <1>9, <1>10, <1>19
  <2> QED BY <1>7, <1>18, <2>1
<1>20. ASSUME after.missed <= after.listAt
       PROVE  ListTrue(calls', rows, t, after.items, after.listAt)
  <2>1. /\ AsOf(tab, call) # Unknown /\ ~(call.kind = "create" /\ Holds(tab, row.id))
        /\ after.listAt = tab.listAt /\ tab.listAt \in Nat /\ tab.missed <= tab.listAt
    BY <1>7, <1>9, <1>10, <1>14, <1>20 DEF ListAtAfter
  <2>2. tab.latest <= call.at /\ tab.listAt <= call.at /\ tab.missed <= call.at
    BY <1>4, <1>9, <1>10, <2>1 DEF TabInv, Bounded
  <2>3. ListTrue(calls, rows, t, tab.items, tab.listAt)
    BY <1>4, <2>1 DEF TabInv, ShowsTruth
  <2>4. calls' \in [Calls -> CallType]
    BY <1>1, <1>6, EmptyTypes
  <2>5. \A d \in Calls : calls'[d].done \in Nat
    BY <2>4 DEF CallType
  <2>6. RowTrue(calls', rows, t, row, tab.listAt)
    BY <1>10, <1>18, <2>1, <2>2, <2>5, EarlierTruth
  <2>7. call.kind = "create" => \A i \in DOMAIN tab.items : tab.items[i].id # call.id
    BY <1>3, <2>1 DEF Holds
  <2>8. ListTrue(calls', rows, t, ItemsAfter(tab.items, calls[c]), tab.listAt)
    BY <1>1, <1>3, <1>5, <1>6, <1>10, <1>14, <2>1, <2>3, <2>6, <2>7, ListAfterChange
  <2> QED BY <1>7, <1>14, <2>1, <2>8
<1>21. TabInv(calls', rows, commits, t, after)
  BY <1>15, <1>16, <1>19, <1>20 DEF TabInv, ShowsTruth
<1>22. tabs' \in [Tabs -> Tab] /\ tabs'[t] = after
  BY <1>1, <1>3, <1>6, <1>7
<1>23. \A u \in Tabs \ {t} : tabs'[u] = tabs[u] /\ Alike(tabs[u], tabs'[u])
  BY <1>1, <1>6, SameTab
<1>24. \A u \in Tabs : tabs'[u].loading => tabs[u].loading
  BY <1>8, <1>14, <1>22, <1>23, Zenon
<1>25. RestIsTyped' /\ UNCHANGED <<rows, commits>>
  BY <1>1, <1>6, RestStays DEF server
<1>26. /\ tabs[t].latest <= tabs'[t].latest /\ tabs[t].missed <= tabs'[t].missed
       /\ calls[c].done <= tabs'[t].latest
       /\ TabInv(calls', rows, commits, t, tabs'[t])
  BY <1>3, <1>7, <1>10, <1>11, <1>14, <1>21, <1>22
<1>27. /\ calls' = [calls EXCEPT ![c] = NoCall]
       /\ \A u \in Tabs \ {t} : Alike(tabs[u], tabs'[u])
  BY <1>6, <1>23
<1> QED BY <1>3, <1>14, <1>22, <1>24, <1>25, <1>26, <1>27, CallEnds

\* A login that is granted.
LEMMA TakeLoginKeeps ==
  ASSUME ClientInv, NEW c \in Calls, TakeLogin(c)
  PROVE  ClientInv'
<1> DEFINE t == calls[c].tab
           session == [token |-> Len(sessions) + 1, user |-> calls[c].user]
<1>1. /\ TypeOK /\ tabs \in [Tabs -> Tab] /\ calls[c] \in CallType
      /\ calls[c].stage = "sent" /\ calls[c].kind = "login"
      /\ sessions' = Append(sessions, calls[c].user)
      /\ TakesSession(t, tabs[t], session)
      /\ calls' = [calls EXCEPT ![c] = NoCall]
      /\ UNCHANGED <<rows, commits, expired>>
  BY DEF ClientInv, TypeOK, TakeLogin
<1>2. Sensible(calls[c], rows, commits)
  BY DEF ClientInv, CallInv
<1>3. t \in Tabs /\ calls[c].user \in Users /\ calls[c].done = 0
  BY <1>1, <1>2 DEF Sensible, CallType
<1>4. session \in SessionType /\ sessions' \in Seq(Users)
  BY <1>1, <1>3 DEF TypeOK, RestIsTyped, SessionType
<1>5. tabs[t] \in Tab /\ tabs[t].latest \in Nat /\ tabs[t].missed \in Nat
  BY <1>1, <1>3 DEF Tab
<1> HIDE DEF session, t
<1>6. /\ tabs' \in [Tabs -> Tab] /\ storage' = session
      /\ Alike(tabs[t], tabs'[t]) /\ tabs'[t].missed = tabs[t].missed
      /\ \A other \in Tabs \ {t} : Alike(tabs[other], tabs'[other])
  BY <1>1, <1>3, <1>4, <1>5, TakesSessionTabs
<1>7. /\ tabs'[t].loading => tabs[t].loading
      /\ \A other \in Tabs \ {t} : tabs'[other].loading => tabs[other].loading
  BY <1>1, <1>3, <1>4, <1>5, TakesSessionTabs
<1>8. \A other \in Tabs : tabs'[other].loading => tabs[other].loading
  BY <1>7, Zenon
<1>9. RestIsTyped' /\ UNCHANGED <<rows, commits>>
  BY <1>1, <1>4, <1>6 DEF TypeOK, RestIsTyped
<1>10. /\ tabs[t].latest <= tabs'[t].latest /\ tabs[t].missed <= tabs'[t].missed
       /\ calls[c].done <= tabs'[t].missed
  BY <1>3, <1>5, <1>6 DEF Alike
<1>11. calls[c].tab = t /\ calls[c].kind # "list"
  BY <1>1 DEF t
<1> QED BY <1>1, <1>3, <1>6, <1>8, <1>9, <1>10, <1>11, CallEnds

\* A call that is refused for its token.
LEMMA TakeUnauthorizedKeeps ==
  ASSUME ClientInv, NEW c \in Calls, TakeUnauthorized(c)
  PROVE  ClientInv'
<1> DEFINE t == calls[c].tab
           failed == Failed(tabs[t], calls[c])
<1>1. /\ TypeOK /\ tabs \in [Tabs -> Tab] /\ calls[c] \in CallType
      /\ calls[c].stage = "sent"
      /\ TakesSession(t, failed, NoSession)
      /\ calls' = [calls EXCEPT ![c] = NoCall]
      /\ UNCHANGED server
  BY DEF ClientInv, TypeOK, TakeUnauthorized, SignOut
<1>2. Sensible(calls[c], rows, commits)
  BY DEF ClientInv, CallInv
<1>3. t \in Tabs /\ calls[c].done = 0
  BY <1>1, <1>2 DEF Sensible, CallType
<1>4. tabs[t] \in Tab /\ tabs[t].latest \in Nat /\ tabs[t].missed \in Nat
  BY <1>1, <1>3 DEF Tab
<1>5. failed \in Tab /\ Alike(tabs[t], failed)
  BY <1>1, <1>4, FailedTab
<1>6. failed.loading => tabs[t].loading /\ calls[c].kind # "list"
  BY <1>4, FailedFlags
<1>7. NoSession \in SessionType
  BY EmptyTypes
<1> HIDE DEF failed, t
<1>8. /\ tabs' \in [Tabs -> Tab] /\ storage' = NoSession
      /\ Alike(failed, tabs'[t]) /\ tabs'[t].missed = failed.missed
      /\ \A other \in Tabs \ {t} : Alike(tabs[other], tabs'[other])
  BY <1>1, <1>3, <1>5, <1>7, TakesSessionTabs
<1>9. /\ tabs'[t].loading => failed.loading
      /\ \A other \in Tabs \ {t} : tabs'[other].loading => tabs[other].loading
  BY <1>1, <1>3, <1>5, <1>7, TakesSessionTabs
<1>10. /\ \A other \in Tabs : tabs'[other].loading => tabs[other].loading
       /\ tabs'[t].loading => calls[c].kind # "list"
  BY <1>6, <1>9, Zenon
<1>11. Alike(tabs[t], tabs'[t]) /\ tabs[t].missed <= tabs'[t].missed
  BY <1>5, <1>8 DEF Alike
<1>12. RestIsTyped' /\ UNCHANGED <<rows, commits>>
  BY <1>1, <1>7, <1>8 DEF TypeOK, RestIsTyped, server
<1>13. tabs[t].latest <= tabs'[t].latest /\ calls[c].done <= tabs'[t].missed
  <2>1. tabs'[t].missed \in Nat
    BY <1>3, <1>8 DEF Tab
  <2> QED BY <1>3, <1>4, <1>11, <2>1 DEF Alike
<1>14. calls[c].tab = t
  BY DEF t
<1> QED BY <1>1, <1>3, <1>8, <1>10, <1>11, <1>12, <1>13, <1>14, CallEnds

\* Signing out changes the session only.
LEMMA LogoutKeeps ==
  ASSUME ClientInv, NEW t \in Tabs, Logout(t)
  PROVE  ClientInv'
<1>1. /\ TypeOK /\ tabs \in [Tabs -> Tab] /\ tabs[t] \in Tab
      /\ TakesSession(t, tabs[t], NoSession) /\ UNCHANGED <<server, calls>>
      /\ NoSession \in SessionType
  BY EmptyTypes DEF ClientInv, TypeOK, Logout, SignOut
<1>2. /\ tabs' \in [Tabs -> Tab] /\ storage' = NoSession
      /\ Alike(tabs[t], tabs'[t])
      /\ \A other \in Tabs \ {t} : Alike(tabs[other], tabs'[other])
  BY <1>1, TakesSessionTabs
<1>3. /\ tabs'[t].loading => tabs[t].loading
      /\ \A other \in Tabs \ {t} : tabs'[other].loading => tabs[other].loading
  BY <1>1, TakesSessionTabs
<1>4. \A u \in Tabs : tabs'[u].loading => tabs[u].loading
  BY <1>3, Zenon
<1>5. calls' = calls /\ UNCHANGED <<rows, commits>>
  BY <1>1 DEF server
<1>6. TypeOK'
  BY <1>1, <1>2, <1>5 DEF TypeOK, RestIsTyped, server
<1>7. \A u \in Tabs : Alike(tabs[u], tabs'[u])
  BY <1>2
<1>8. \A u \in Tabs, n \in Nat : Keeps(calls, calls', u, n)
  BY <1>5 DEF Keeps
<1>9. ASSUME NEW u \in Tabs PROVE Ages(u)
  <2>1. tabs[u].latest \in Nat
    BY <1>1 DEF Tab
  <2>2. tabs[u].latest <= tabs'[u].latest /\ tabs[u].missed <= tabs'[u].missed
    BY <1>7, <2>1 DEF Alike
  <2> QED BY <1>8, <2>2 DEF Ages
<1>10. \A c \in Calls :
          calls'[c] = calls[c] /\ (calls[c].stage = "answered" => Ages(calls[c].tab))
  BY <1>5, <1>9 DEF ClientInv, CallInv, Sensible
<1>11. SpinnersWait'
  BY <1>4, <1>5, Zenon DEF SpinnersWait, ClientInv
<1>12. \A u \in Tabs :
          Alike(tabs[u], tabs'[u])
          /\ \A n \in Nat : n >= tabs'[u].missed => Keeps(calls, calls', u, n)
  BY <1>7, <1>8
<1> QED BY <1>5, <1>6, <1>10, <1>11, <1>12, QuietStep

\* So does the expiry of a token, and a step of something else, leave all of it.
LEMMA ElseKeeps ==
  ASSUME ClientInv, Expire \/ UNCHANGED vars
  PROVE  ClientInv'
<1>1. UNCHANGED <<rows, commits, sessions, storage, tabs, calls>>
  BY DEF Expire, vars, server
<1>2. expired' \subseteq Nat
  <2>1. storage.token \in Nat /\ \A c \in Calls : calls[c].token \in Nat
    BY DEF ClientInv, TypeOK, RestIsTyped, SessionType, CallType
  <2>2. expired \subseteq Nat
    BY DEF ClientInv, TypeOK, RestIsTyped
  <2>3. CASE Expire
    <3>1. PICK token \in {storage.token} \cup {calls[c].token : c \in Calls} :
             expired' = expired \cup {token}
      BY <2>3 DEF Expire
    <3> QED BY <2>1, <2>2, <3>1
  <2>4. CASE UNCHANGED vars
    BY <2>2, <2>4 DEF vars, server
  <2> QED BY <2>3, <2>4
<1>3. TypeOK'
  BY <1>1, <1>2 DEF ClientInv, TypeOK, RestIsTyped
<1> QED BY <1>1, <1>3, Zenon DEF ClientInv, SpinnersWait

\* A page that is loaded again waits for nothing and knows nothing.
LEMMA ReloadKeeps ==
  ASSUME ClientInv, NEW t \in Tabs, Reload(t)
  PROVE  ClientInv'
<1> DEFINE after == Loaded(storage)
<1>1. /\ TypeOK /\ tabs \in [Tabs -> Tab] /\ calls \in [Calls -> CallType]
      /\ storage \in SessionType /\ commits \in Nat
  BY DEF ClientInv, TypeOK, RestIsTyped
<1>2. /\ tabs' = [tabs EXCEPT ![t] = after]
      /\ calls' = [c \in Calls |-> IF c \in Waiting(t) THEN NoCall ELSE calls[c]]
      /\ UNCHANGED <<server, storage>>
  BY DEF Reload
<1>3. after \in Tab
  BY <1>1, EmptyTypes
<1>4. /\ after.items = << >> /\ after.total = 0 /\ after.active = NoScenario
      /\ after.latest = 0 /\ after.listAt = Unknown /\ after.activeAt = Unknown
      /\ after.missed = commits
  BY DEF Loaded
<1>5. ~after.loading
  BY DEF Loaded
<1> HIDE DEF after
<1>6. TabInv(calls', rows, commits, t, after)
  <2>1. Bounded(after, commits)
    BY <1>1, <1>4 DEF Bounded, Unknown
  <2>2. DOMAIN after.items = {}
    BY <1>4
  <2>3. Known(after, rows)
    BY <1>4, <2>2 DEF Known
  <2>4. ~(after.missed <= Unknown)
    BY <1>1, <1>4 DEF Unknown
  <2> QED BY <1>4, <2>1, <2>3, <2>4 DEF TabInv, ShowsTruth
<1>7. \A c \in Calls : \/ calls[c].tab = t /\ calls'[c] = NoCall
                       \/ calls[c].tab # t /\ calls'[c] = calls[c]
  BY <1>2 DEF Waiting
<1>8. tabs'[t] = after /\ tabs' \in [Tabs -> Tab] /\ \A u \in Tabs : u # t => tabs'[u] = tabs[u]
  BY <1>1, <1>2, <1>3
<1>9. calls' \in [Calls -> CallType]
  BY <1>1, <1>2, EmptyTypes
<1>10. TypeOK' /\ UNCHANGED <<rows, commits>>
  BY <1>1, <1>2, <1>8, <1>9, RestStays DEF TypeOK, server
<1>11. ASSUME NEW u \in Tabs, u # t PROVE \A n \in Nat : Keeps(calls, calls', u, n)
  BY <1>7, <1>11 DEF Keeps
<1>12. \A u \in Tabs :
            \/ TabInv(calls', rows, commits, u, tabs'[u])
            \/ /\ Alike(tabs[u], tabs'[u])
               /\ \A n \in Nat : n >= tabs'[u].missed => Keeps(calls, calls', u, n)
  BY <1>1, <1>6, <1>8, <1>11, SameTab
<1>13. ASSUME NEW u \in Tabs, u # t PROVE Ages(u)
  <2>1. tabs[u].latest \in Nat /\ tabs[u].missed \in Nat
    BY <1>1 DEF Tab
  <2> QED BY <1>8, <1>11, <1>13, <2>1 DEF Ages
<1>14. \A c \in Calls :
            \/ CallInv(calls', rows, commits, tabs', calls'[c])
            \/ /\ calls'[c] = calls[c]
               /\ calls[c].stage = "answered" => Ages(calls[c].tab)
  <2> SUFFICES ASSUME NEW c \in Calls
               PROVE  \/ CallInv(calls', rows, commits, tabs', calls'[c])
                      \/ /\ calls'[c] = calls[c]
                         /\ calls[c].stage = "answered" => Ages(calls[c].tab)
    OBVIOUS
  <2>1. CASE calls'[c] = NoCall
    BY <2>1, NoCallFacts
  <2>2. CASE calls[c].tab # t /\ calls'[c] = calls[c]
    <3>1. calls[c].stage = "answered" => calls[c].tab \in Tabs
      BY DEF ClientInv, CallInv, Sensible
    <3> QED BY <1>13, <2>2, <3>1
  <2> QED BY <1>7, <2>1, <2>2
<1>15. SpinnersWait'
  <2> SUFFICES ASSUME NEW u \in Tabs, tabs'[u].loading
               PROVE  \E c \in Calls : calls'[c].tab = u /\ calls'[c].kind = "list"
    BY Zenon DEF SpinnersWait
  <2>1. u # t
    BY <1>5, <1>8, Zenon
  <2>2. tabs[u].loading
    BY <1>8, <2>1, Zenon
  <2>3. PICK c \in Calls : calls[c].tab = u /\ calls[c].kind = "list"
    BY <2>2, Zenon DEF ClientInv, SpinnersWait
  <2> QED BY <1>7, <2>1, <2>3
<1> QED BY <1>10, <1>12, <1>14, <1>15, QuietStep

-----------------------------------------------------------------------------
(* Changes of the scenarios.                                               *)

\* The scenario a change is of: a new one for 0.
Target(id) == IF id = 0 THEN Len(rows) + 1 ELSE id

\* A change is of its target alone.
LEMMA ChangedTable ==
  ASSUME rows \in Seq(Nat), NEW id \in 0..Len(rows), rows' = Changed(id)
  PROVE  /\ rows' \in Seq(Nat) /\ DOMAIN rows \subseteq DOMAIN rows'
         /\ Target(id) \in DOMAIN rows' /\ Target(id) \in Nat
         /\ \A i \in DOMAIN rows : i # Target(id) => rows'[i] = rows[i]
         /\ \A i \in DOMAIN rows' : i \in DOMAIN rows \/ (i = Target(id) /\ id = 0)
<1>1. CASE id = 0
  <2>1. rows' = Append(rows, 1)
    BY <1>1 DEF Changed
  <2>2. /\ rows' \in Seq(Nat) /\ DOMAIN rows = 1..Len(rows) /\ Len(rows) \in Nat
        /\ DOMAIN rows' = 1..Len(rows) + 1
        /\ \A i \in 1..Len(rows) : rows'[i] = rows[i]
    BY <2>1
  <2> QED BY <1>1, <2>2 DEF Target
<1>2. CASE id # 0
  <2>1. rows' = [rows EXCEPT ![id] = @ + 1]
    BY <1>2 DEF Changed
  <2>2. id \in DOMAIN rows /\ rows[id] \in Nat
    BY <1>2
  <2>3. /\ rows' \in Seq(Nat) /\ DOMAIN rows' = DOMAIN rows
        /\ \A i \in DOMAIN rows : i # id => rows'[i] = rows[i]
    BY <2>1, <2>2
  <2> QED BY <1>2, <2>2, <2>3 DEF Target
<1> QED BY <1>1, <1>2

\* A change leaves its own tab as it is; the others have missed it.
LEMMA CommitTabs ==
  ASSUME tabs \in [Tabs -> Tab], commits \in Nat, NEW t, Commit(t)
  PROVE  /\ tabs' \in [Tabs -> Tab] /\ commits' = commits + 1
         /\ UNCHANGED <<sessions, expired, storage>>
         /\ t \in Tabs => tabs'[t] = tabs[t]
         /\ \A u \in Tabs \ {t} :
               LET tab == tabs[u] after == tabs'[u]
               IN  /\ after.session = tab.session
                   /\ after.items = tab.items /\ after.total = tab.total
                   /\ after.active = tab.active /\ after.latest = tab.latest
                   /\ after.listAt = tab.listAt /\ after.activeAt = tab.activeAt
                   /\ after.missed = commits + 1
<1> DEFINE now == commits + 1
           others(u) == [tabs[u] EXCEPT !.missed = now]
<1>1. now \in Nat /\ now = commits + 1
  OBVIOUS
<1> HIDE DEF now
<1>2. ASSUME NEW u \in Tabs
      PROVE  LET tab == tabs[u] after == others(u)
             IN  /\ after \in Tab /\ after.session = tab.session
                 /\ after.items = tab.items /\ after.total = tab.total
                 /\ after.active = tab.active /\ after.latest = tab.latest
                 /\ after.listAt = tab.listAt /\ after.activeAt = tab.activeAt
                 /\ after.missed = now
  <2>1. tabs[u] \in Tab
    OBVIOUS
  <2> QED BY <1>1, <2>1 DEF Tab
<1>3. tabs' = [u \in Tabs |-> IF u = t THEN tabs[u] ELSE others(u)]
  BY DEF Commit, now
<1> HIDE DEF others
<1>4. tabs' \in [Tabs -> Tab]
  BY <1>2, <1>3
<1>5. \A u \in Tabs \ {t} : tabs'[u] = others(u)
  BY <1>3
<1>6. commits' = commits + 1 /\ UNCHANGED <<sessions, expired, storage>>
  BY DEF Commit
<1>7. t \in Tabs => tabs'[t] = tabs[t]
  BY <1>3
<1> QED BY <1>2, <1>4, <1>5, <1>6, <1>7, <1>1

\* Its Boolean fields.
LEMMA CommitFlags ==
  ASSUME tabs \in [Tabs -> Tab], NEW t, Commit(t), NEW u \in Tabs
  PROVE  /\ tabs'[u].loading <=> tabs[u].loading
         /\ tabs'[u].overtaken <=> tabs[u].overtaken
<1>1. tabs' = [other \in Tabs |-> IF other = t THEN tabs[other]
                                  ELSE [tabs[other] EXCEPT !.missed = commits + 1]]
  BY DEF Commit
<1>2. tabs[u] \in Tab
  OBVIOUS
<1>3. CASE u = t
  BY <1>1, <1>3
<1>4. CASE u # t
  <2>1. tabs'[u] = [tabs[u] EXCEPT !.missed = commits + 1]
    BY <1>1, <1>4
  <2>2. /\ [tabs[u] EXCEPT !.missed = commits + 1].loading <=> tabs[u].loading
        /\ [tabs[u] EXCEPT !.missed = commits + 1].overtaken <=> tabs[u].overtaken
    BY <1>2 DEF Tab
  <2> QED BY <2>1, <2>2, Zenon
<1> QED BY <1>3, <1>4

\* What is sensible of a call stays so as scenarios and changes are added.
LEMMA SensibleLater ==
  ASSUME NEW call \in CallType, NEW table, NEW later, DOMAIN table \subseteq DOMAIN later,
         NEW n \in Nat, Sensible(call, table, n)
  PROVE  Sensible(call, later, n + 1)
<1>1. call.done \in Nat /\ call.at \in Nat
  BY DEF CallType
<1>2. (call.done <= n => call.done <= n + 1) /\ (call.at <= n => call.at <= n + 1)
  BY <1>1
<1> QED BY <1>2 DEF Sensible

\* For the tab that waits for the answer to a change, what it was told as of an
\* earlier one is as true as before.
LEMMA TruthOvertaken ==
  ASSUME rows \in Seq(Nat), NEW id \in 0..Len(rows), rows' = Changed(id),
         NEW t, NEW n \in Nat, Keeps(calls, calls', t, n),
         Pending(calls', t, Target(id), n),
         id = 0 => Created(calls', t, Target(id), n)
  PROVE  /\ \A row : row.id \in DOMAIN rows /\ RowTrue(calls, rows, t, row, n) =>
                        RowTrue(calls', rows', t, row, n)
         /\ \A items : ListTrue(calls, rows, t, items, n) =>
                         ListTrue(calls', rows', t, items, n)
<1>1. /\ \A i \in DOMAIN rows : i # Target(id) => rows'[i] = rows[i]
      /\ \A i \in DOMAIN rows' : i \in DOMAIN rows \/ (i = Target(id) /\ id = 0)
  BY ChangedTable
<1>2. \A i : Pending(calls, t, i, n) => Pending(calls', t, i, n)
  BY DEF Keeps, Pending
<1>3. \A i : Created(calls, t, i, n) => Created(calls', t, i, n)
  BY DEF Keeps, Created
<1>4. ASSUME NEW row, row.id \in DOMAIN rows, RowTrue(calls, rows, t, row, n)
      PROVE  RowTrue(calls', rows', t, row, n)
  BY <1>1, <1>2, <1>4 DEF RowTrue
<1>5. ASSUME NEW items, ListTrue(calls, rows, t, items, n)
      PROVE  ListTrue(calls', rows', t, items, n)
  <2>1. ASSUME NEW i \in DOMAIN rows'
        PROVE  \/ Created(calls', t, i, n)
               \/ \E k \in DOMAIN items :
                     items[k].id = i /\ RowTrue(calls', rows', t, items[k], n)
    <3>1. CASE i = Target(id) /\ id = 0
      BY <3>1
    <3>2. CASE i \in DOMAIN rows
      <4>1. CASE Created(calls, t, i, n)
        BY <1>3, <4>1
      <4>2. CASE \E k \in DOMAIN items :
                    items[k].id = i /\ RowTrue(calls, rows, t, items[k], n)
        <5>1. PICK k \in DOMAIN items :
                 items[k].id = i /\ RowTrue(calls, rows, t, items[k], n)
          BY <4>2
        <5>2. RowTrue(calls', rows', t, items[k], n)
          BY <1>4, <3>2, <5>1
        <5> QED BY <5>1, <5>2
      <4> QED BY <1>5, <3>2, <4>1, <4>2 DEF ListTrue
    <3> QED BY <1>1, <3>1, <3>2
  <2>2. \A k, l \in DOMAIN items : items[k].id = items[l].id => k = l
    BY <1>5 DEF ListTrue
  <2> QED BY <2>1, <2>2 DEF ListTrue
<1> QED BY <1>4, <1>5

\* The commit of a call of tab t, or of somebody else.
LEMMA CommitKeeps ==
  ASSUME ClientInv, NEW id \in 0..Len(rows), rows' = Changed(id),
         NEW t \in Tabs \cup {NoTab}, Commit(t), calls' \in [Calls -> CallType],
         \A d \in Calls :
            \/ calls'[d] = calls[d]
            \/ /\ Sensible(calls'[d], rows', commits + 1) /\ calls[d].done = 0
               /\ calls'[d].stage = "committed"
               /\ calls'[d].tab = calls[d].tab /\ calls'[d].kind = calls[d].kind,
         t \in Tabs =>
            \E d \in Calls :
               /\ calls'[d].tab = t /\ calls'[d].id = Target(id)
               /\ calls'[d].done = commits + 1
               /\ id = 0 => calls'[d].kind = "create"
  PROVE  ClientInv'
<1>1. /\ TypeOK /\ rows \in Seq(Nat) /\ commits \in Nat /\ tabs \in [Tabs -> Tab]
      /\ calls \in [Calls -> CallType]
  BY DEF ClientInv, TypeOK, RestIsTyped
<1>2. rows' \in Seq(Nat) /\ DOMAIN rows \subseteq DOMAIN rows'
  BY <1>1, ChangedTable
<1>3. /\ tabs' \in [Tabs -> Tab] /\ commits' = commits + 1
      /\ UNCHANGED <<sessions, expired, storage>>
      /\ t \in Tabs => tabs'[t] = tabs[t]
      /\ \A u \in Tabs \ {t} :
               LET tab == tabs[u] after == tabs'[u]
               IN  /\ after.items = tab.items /\ after.total = tab.total
                   /\ after.active = tab.active /\ after.latest = tab.latest
                   /\ after.listAt = tab.listAt /\ after.activeAt = tab.activeAt
                   /\ after.missed = commits + 1
  BY <1>1, CommitTabs
<1>4. TypeOK'
  BY <1>1, <1>2, <1>3 DEF TypeOK, RestIsTyped
<1>5. \A u, n : Keeps(calls, calls', u, n) \/ ~(n \in Nat)
  <2> SUFFICES ASSUME NEW u, NEW n \in Nat, NEW d \in Calls,
                      calls[d].tab = u, calls[d].done > n
               PROVE  calls'[d] = calls[d]
    BY Zenon DEF Keeps
  <2>1. calls[d].done # 0
    OBVIOUS
  <2> QED BY <2>1
<1>6. ASSUME t \in Tabs, NEW n \in Nat, n <= commits
      PROVE  /\ \A row : row.id \in DOMAIN rows /\ RowTrue(calls, rows, t, row, n) =>
                            RowTrue(calls', rows', t, row, n)
             /\ \A items : ListTrue(calls, rows, t, items, n) =>
                             ListTrue(calls', rows', t, items, n)
  <2>1. PICK d \in Calls :
           /\ calls'[d].tab = t /\ calls'[d].id = Target(id)
           /\ calls'[d].done = commits + 1
           /\ id = 0 => calls'[d].kind = "create"
    BY <1>6
  <2>2. calls'[d].done > n
    BY <1>1, <1>6, <2>1
  <2>3. Pending(calls', t, Target(id), n)
    BY <2>1, <2>2 DEF Pending
  <2>4. id = 0 => Created(calls', t, Target(id), n)
    BY <2>1, <2>2 DEF Created
  <2> QED BY <1>1, <1>5, <2>3, <2>4, TruthOvertaken
<1>7. ASSUME NEW u \in Tabs
      PROVE  Bounded(tabs'[u], commits') /\ Known(tabs'[u], rows')
  <2>1. /\ TabInv(calls, rows, commits, u, tabs[u])
        /\ tabs[u].latest \in Nat /\ tabs[u].activeAt \in Nat \cup {Unknown}
    BY <1>1 DEF ClientInv, Tab
  <2>2. /\ tabs'[u].items = tabs[u].items /\ tabs'[u].total = tabs[u].total
        /\ tabs'[u].active = tabs[u].active /\ tabs'[u].latest = tabs[u].latest
        /\ tabs'[u].listAt = tabs[u].listAt /\ tabs'[u].activeAt = tabs[u].activeAt
    BY <1>3
  <2>3. tabs[u].latest <= commits + 1 /\ tabs[u].activeAt <= commits + 1
    BY <1>1, <2>1 DEF TabInv, Bounded, Unknown
  <2> QED BY <1>2, <1>3, <2>1, <2>2, <2>3 DEF TabInv, Bounded, Known
<1>8. ASSUME NEW u \in Tabs
      PROVE  ShowsTruth(calls', rows', u, tabs'[u])
  <2>1. TabInv(calls, rows, commits, u, tabs[u]) /\ tabs[u] \in Tab
    BY <1>1 DEF ClientInv
  <2>2. /\ tabs[u].listAt \in Nat \cup {Unknown} /\ tabs[u].activeAt \in Nat \cup {Unknown}
        /\ tabs[u].missed \in Nat /\ tabs[u].latest \in Nat
    BY <2>1 DEF Tab
  <2>3. tabs[u].listAt <= commits /\ tabs[u].activeAt <= commits
    BY <1>1, <2>1, <2>2 DEF TabInv, Bounded, Unknown
  <2>4. CASE u # t
    <3>1. ~(tabs'[u].missed <= tabs'[u].listAt) /\ ~(tabs'[u].missed <= tabs'[u].activeAt)
      <4>1. /\ tabs'[u].listAt = tabs[u].listAt /\ tabs'[u].activeAt = tabs[u].activeAt
            /\ tabs'[u].missed = commits + 1
        BY <1>3, <2>4
      <4> QED BY <1>1, <2>2, <2>3, <4>1 DEF Unknown
    <3> QED BY <3>1 DEF ShowsTruth
  <2>5. CASE u = t
    <3>1. tabs'[u] = tabs[u] /\ u = t /\ t \in Tabs
      BY <1>3, <2>5
    <3>2. ASSUME tabs[u].missed <= tabs[u].listAt
          PROVE  ListTrue(calls', rows', u, tabs[u].items, tabs[u].listAt)
      <4>1. tabs[u].listAt \in Nat /\ ListTrue(calls, rows, u, tabs[u].items, tabs[u].listAt)
        BY <2>1, <2>2, <3>2 DEF TabInv, ShowsTruth, Unknown
      <4> QED BY <1>6, <2>3, <3>1, <4>1
    <3>3. ASSUME tabs[u].missed <= tabs[u].activeAt, tabs[u].active # NoScenario
          PROVE  RowTrue(calls', rows', u, tabs[u].active, tabs[u].activeAt)
      <4>1. /\ tabs[u].activeAt \in Nat
            /\ RowTrue(calls, rows, u, tabs[u].active, tabs[u].activeAt)
        BY <2>1, <2>2, <3>3 DEF TabInv, ShowsTruth, Unknown
      <4>2. tabs[u].active.id \in DOMAIN rows
        BY <2>1, <3>3 DEF TabInv, Known
      <4> QED BY <1>6, <2>3, <3>1, <4>1, <4>2
    <3> QED BY <3>1, <3>2, <3>3 DEF ShowsTruth
  <2> QED BY <2>4, <2>5
<1>9. \A u \in Tabs : TabInv(calls', rows', commits', u, tabs'[u])
  BY <1>7, <1>8 DEF TabInv
<1>10. ASSUME NEW d \in Calls
       PROVE  Sensible(calls'[d], rows', commits')
  <2>1. calls[d] \in CallType /\ Sensible(calls[d], rows, commits)
    BY <1>1 DEF ClientInv, CallInv
  <2>2. Sensible(calls[d], rows', commits + 1)
    BY <1>1, <1>2, <2>1, SensibleLater
  <2> QED BY <1>3, <2>2
<1>11. ASSUME NEW d \in Calls, calls'[d].stage = "answered"
       PROVE  AnswerTrue(calls', rows', tabs'[calls'[d].tab], calls'[d])
  <2>1. calls'[d] = calls[d]
    BY <1>11
  <2> DEFINE call == calls[d]
             u == call.tab
  <2>2. call \in CallType /\ Sensible(call, rows, commits) /\ call.stage = "answered"
    BY <1>1, <1>11, <2>1 DEF ClientInv, CallInv
  <2>3. u \in Tabs /\ call.at <= commits /\ call.at \in Nat
    BY <2>2 DEF Sensible, CallType
  <2>4. AnswerTrue(calls, rows, tabs[u], call)
    BY <2>2 DEF ClientInv, CallInv
  <2>5. CASE u # t
    <3>1. tabs'[u].missed = commits + 1
      BY <1>3, <2>3, <2>5
    <3>2. ~(tabs'[u].missed <= call.at)
      BY <1>1, <2>3, <3>1
    <3> QED BY <2>1, <3>2 DEF AnswerTrue
  <2>6. CASE u = t
    <3>1. tabs'[u] = tabs[u] /\ t \in Tabs
      BY <1>3, <2>3, <2>6
    <3>2. call.kind # "list" => call.rows[1].id \in DOMAIN rows
      <4> SUFFICES ASSUME call.kind # "list" PROVE call.rows[1].id \in DOMAIN rows
        OBVIOUS
      <4>1. /\ Len(call.rows) = 1
            /\ \A i \in DOMAIN call.rows : call.rows[i].id \in DOMAIN rows
        BY <2>2 DEF Sensible
      <4>2. 1 \in DOMAIN call.rows
        BY <2>2, <4>1 DEF CallType
      <4> QED BY <4>1, <4>2
    <3> HIDE DEF call, u
    <3>3. ASSUME tabs[u].latest <= call.at, tabs[u].missed <= call.at
          PROVE  /\ call.kind = "list" => ListTrue(calls', rows', t, call.rows, call.at)
                 /\ call.kind # "list" => RowTrue(calls', rows', t, call.rows[1], call.at)
      <4>1. /\ call.kind = "list" => ListTrue(calls, rows, t, call.rows, call.at)
            /\ call.kind # "list" => RowTrue(calls, rows, t, call.rows[1], call.at)
        BY <2>2, <2>4, <2>6, <3>3 DEF AnswerTrue, u
      <4> QED BY <1>6, <2>3, <3>1, <3>2, <4>1
    <3>4. AnswerTrue(calls', rows', tabs'[u], call)
      BY <2>6, <3>1, <3>3 DEF AnswerTrue, u
    <3> QED BY <2>1, <3>4 DEF u, call
  <2> QED BY <2>5, <2>6
<1>12. \A d \in Calls : CallInv(calls', rows', commits', tabs', calls'[d])
  <2> SUFFICES ASSUME NEW d \in Calls PROVE CallInv(calls', rows', commits', tabs', calls'[d])
    OBVIOUS
  <2>1. CASE calls'[d].stage = "answered"
    BY <1>10, <1>11, <2>1 DEF CallInv
  <2>2. CASE calls'[d].stage # "answered"
    BY <1>10, <2>2 DEF CallInv, AnswerTrue
  <2> QED BY <2>1, <2>2
<1>13. SpinnersWait'
  <2> SUFFICES ASSUME NEW u \in Tabs, tabs'[u].loading
               PROVE  \E d \in Calls : calls'[d].tab = u /\ calls'[d].kind = "list"
    BY Zenon DEF SpinnersWait
  <2>1. tabs[u].loading
    BY <1>1, CommitFlags, Zenon
  <2>2. PICK d \in Calls : calls[d].tab = u /\ calls[d].kind = "list"
    BY <2>1, Zenon DEF ClientInv, SpinnersWait
  <2> QED BY <2>2
<1> QED BY <1>4, <1>9, <1>12, <1>13 DEF ClientInv

\* A call changes a scenario.
LEMMA CommitChangeKeeps ==
  ASSUME ClientInv, NEW c \in Calls, CommitChange(c)
  PROVE  ClientInv'
<1> DEFINE call == calls[c]
           id == IF call.kind = "create" THEN Len(rows) + 1 ELSE call.id
           done == commits + 1
           made == [call EXCEPT !.stage = "committed", !.token = NoToken, !.id = id,
                                !.done = done]
<1>1. /\ call.stage = "sent" /\ call.kind \in {"create", "change"}
      /\ rows' = Changed(call.id) /\ calls' = [calls EXCEPT ![c] = made]
      /\ Commit(call.tab)
  BY DEF CommitChange
<1>2. /\ rows \in Seq(Nat) /\ commits \in Nat /\ calls \in [Calls -> CallType]
      /\ call \in CallType /\ Sensible(call, rows, commits)
  BY DEF ClientInv, TypeOK, RestIsTyped, CallInv
<1>3. /\ call.tab \in Tabs /\ call.done = 0 /\ call.id \in 0..Len(rows)
      /\ call.kind = "create" <=> call.id = 0
  BY <1>1, <1>2 DEF Sensible, CallType
<1>4. id = Target(call.id) /\ id \in Nat /\ NoToken \in Nat /\ done \in Nat /\ done > 0
  BY <1>2, <1>3 DEF Target, NoToken
<1>5. id \in DOMAIN rows'
  BY <1>1, <1>2, <1>3, <1>4, ChangedTable
<1> HIDE DEF call, id
<1>6. done = commits + 1
  OBVIOUS
<1> HIDE DEF done
<1>7. /\ made \in CallType /\ made.stage = "committed" /\ made.tab = call.tab
      /\ made.kind = call.kind /\ made.id = id /\ made.done = done
  BY <1>2, <1>4 DEF CallType
<1> HIDE DEF made
<1>8. calls' \in [Calls -> CallType] /\ calls'[c] = made
  BY <1>1, <1>2, <1>7
<1>9. done <= commits + 1
  BY <1>2, <1>6
<1>10. Sensible(made, rows', commits + 1)
  BY <1>1, <1>3, <1>4, <1>5, <1>7, <1>9 DEF Sensible
<1>11. \A d \in Calls : d # c => calls'[d] = calls[d]
  BY <1>1, <1>2
<1>12. \A d \in Calls :
            \/ calls'[d] = calls[d]
            \/ /\ Sensible(calls'[d], rows', commits + 1) /\ calls[d].done = 0
               /\ calls'[d].stage = "committed"
               /\ calls'[d].tab = calls[d].tab /\ calls'[d].kind = calls[d].kind
  BY <1>3, <1>7, <1>8, <1>10, <1>11 DEF call
<1>13. /\ calls'[c].tab = call.tab /\ calls'[c].id = Target(call.id)
       /\ calls'[c].done = commits + 1
       /\ call.id = 0 => calls'[c].kind = "create"
  BY <1>3, <1>4, <1>6, <1>7, <1>8
<1> QED BY <1>1, <1>3, <1>8, <1>12, <1>13, CommitKeeps

\* So does somebody else.
LEMMA OtherClientKeeps ==
  ASSUME ClientInv, OtherClient
  PROVE  ClientInv'
<1>1. PICK id \in 0..Len(rows) : rows' = Changed(id)
  BY DEF OtherClient
<1>2. Commit(NoTab) /\ calls' = calls /\ calls \in [Calls -> CallType]
  BY DEF OtherClient, ClientInv, TypeOK
<1>3. NoTab \notin Tabs
  BY ClientAssumption
<1> QED BY <1>1, <1>2, <1>3, CommitKeeps

-----------------------------------------------------------------------------
(* The invariant.                                                          *)

\* Before anything is done, nothing is shown and nothing is awaited.
LEMMA InitClient ==
  ASSUME Init
  PROVE  ClientInv
<1>1. /\ rows = <<1>> /\ commits = 0 /\ sessions = << >> /\ expired = {}
      /\ storage = NoSession /\ tabs = [t \in Tabs |-> Loaded(NoSession)]
      /\ calls = [c \in Calls |-> NoCall]
  BY DEF Init
<1>2. commits \in Nat
  BY <1>1
<1>3. Loaded(NoSession) \in Tab
  BY <1>2, EmptyTypes
<1>4. rows \in Seq(Nat) /\ sessions \in Seq(Users)
  BY <1>1
<1>5. TypeOK
  BY <1>1, <1>2, <1>3, <1>4, EmptyTypes DEF TypeOK, RestIsTyped
<1> DEFINE tab == Loaded(NoSession)
<1>6. /\ tab.items = << >> /\ tab.total = 0 /\ tab.active = NoScenario
      /\ tab.latest = 0 /\ tab.listAt = Unknown /\ tab.activeAt = Unknown
      /\ tab.missed = commits
  BY DEF Loaded
<1>7. ~tab.loading
  BY DEF Loaded
<1> HIDE DEF tab
<1>8. \A t \in Tabs : TabInv(calls, rows, commits, t, tab)
  <2>1. Bounded(tab, commits)
    BY <1>1, <1>6 DEF Bounded, Unknown
  <2>2. DOMAIN tab.items = {}
    BY <1>6
  <2>3. Known(tab, rows)
    BY <1>6, <2>2 DEF Known
  <2>4. ~(tab.missed <= Unknown)
    BY <1>1, <1>6 DEF Unknown
  <2> QED BY <1>6, <2>1, <2>3, <2>4 DEF TabInv, ShowsTruth
<1>9. \A t \in Tabs : tabs[t] = tab
  BY <1>1 DEF tab
<1>10. \A t \in Tabs : TabInv(calls, rows, commits, t, tabs[t])
  BY <1>8, <1>9
<1>11. SpinnersWait
  BY <1>7, <1>9, Zenon DEF SpinnersWait
<1>12. \A c \in Calls : CallInv(calls, rows, commits, tabs, calls[c])
  BY <1>1, NoCallFacts
<1> QED BY <1>5, <1>10, <1>11, <1>12 DEF ClientInv

\* Every step keeps it.
LEMMA NextKeepsClient ==
  ASSUME ClientInv, [Next]_vars
  PROVE  ClientInv'
<1>1. ASSUME NEW t \in Tabs,
             \/ Login(t) \/ FetchScenarios(t) \/ CreateScenario(t) \/ ChangeScenario(t)
      PROVE  ClientInv'
  BY <1>1, CallsKeep
<1>2. ASSUME NEW t \in Tabs, Logout(t) \/ Reload(t) \/ Select(t)
      PROVE  ClientInv'
  BY <1>2, LogoutKeeps, ReloadKeeps, SelectKeeps
<1>3. ASSUME NEW c \in Calls, AnswerList(c) \/ CommitChange(c) \/ AnswerChange(c)
      PROVE  ClientInv'
  BY <1>3, AnswerListKeeps, CommitChangeKeeps, AnswerChangeKeeps
<1>4. ASSUME NEW c \in Calls, Take(c)
      PROVE  ClientInv'
  BY <1>4, TakeListKeeps, TakeChangeKeeps
<1>5. ASSUME NEW c \in Calls, TakeLogin(c) \/ TakeUnauthorized(c)
      PROVE  ClientInv'
  BY <1>5, TakeLoginKeeps, TakeUnauthorizedKeeps
<1>6. ASSUME NEW c \in Calls, TakeRefusal(c) \/ TakeErrorAfterCommit(c) \/ Lose(c)
      PROVE  ClientInv'
  <2>1. calls[c].stage # "none" /\ TakeError(c)
    BY <1>6 DEF TakeRefusal, TakeErrorAfterCommit, Lose
  <2> QED BY <2>1, TakeErrorKeeps
<1>7. CASE OtherClient
  BY <1>7, OtherClientKeeps
<1>8. CASE Expire \/ UNCHANGED vars
  BY <1>8, ElseKeeps
<1>9. CASE Next
  BY <1>1, <1>2, <1>3, <1>4, <1>5, <1>6, <1>7, <1>8, <1>9, Zenon DEF Next
<1> QED BY <1>8, <1>9

\* What a tab shows and what it is to be answered is always true as of when it was
\* read, up to its own calls that are still to be answered.
THEOREM ClientSafety == Spec => []ClientInv
<1>1. Init => ClientInv
  BY InitClient
<1>2. ClientInv /\ [Next]_vars => ClientInv'
  BY NextKeepsClient
<1> QED BY <1>1, <1>2, PTL DEF Spec

\* A tab that waits for nothing shows no spinner and counts what it lists, and its
\* list and the scenario in detail are the server's, unless it was not told of a
\* change or was told in another order.
THEOREM ShownIsCurrentHolds == Spec => []ShownIsCurrent
<1>1. ASSUME ClientInv PROVE ShownIsCurrent
  <2> SUFFICES ASSUME NEW t \in Tabs, Waiting(t) = {}
               PROVE  LET tab == tabs[t]
                      IN  /\ ~tab.loading /\ tab.total = Len(tab.items)
                          /\ tab.missed <= tab.listAt => Lists(tab.items)
                          /\ tab.missed <= tab.activeAt /\ tab.active # NoScenario =>
                                tab.active.version = rows[tab.active.id]
    BY Zenon DEF ShownIsCurrent
  <2> DEFINE tab == tabs[t]
  <2>1. \A c \in Calls : calls[c].tab # t
    BY DEF Waiting
  <2>2. ~tab.loading
    BY <1>1, <2>1, Zenon DEF ClientInv, SpinnersWait
  <2>3. TabInv(calls, rows, commits, t, tab) /\ tab \in Tab
    BY <1>1 DEF ClientInv, TypeOK
  <2>4. \A id, n : ~Pending(calls, t, id, n) /\ ~Created(calls, t, id, n)
    BY <2>1 DEF Pending, Created
  <2>5. \A row, n : RowTrue(calls, rows, t, row, n) => row.version = rows[row.id]
    BY <2>4 DEF RowTrue
  <2>6. tab.total = Len(tab.items)
    BY <2>3 DEF TabInv, Bounded
  <2>7. tab.missed <= tab.activeAt /\ tab.active # NoScenario =>
           tab.active.version = rows[tab.active.id]
    BY <2>3, <2>5 DEF TabInv, ShowsTruth
  <2>8. ASSUME tab.missed <= tab.listAt PROVE Lists(tab.items)
    <3>1. ListTrue(calls, rows, t, tab.items, tab.listAt) /\ tab.items \in Seq(Scenario)
      BY <2>3, <2>8 DEF TabInv, ShowsTruth, Tab
    <3> DEFINE items == tab.items
    <3> HIDE DEF items
    <3>2. ListTrue(calls, rows, t, items, tab.listAt) /\ items \in Seq(Scenario)
      BY <3>1 DEF items
    <3>3. ASSUME NEW id \in DOMAIN rows
          PROVE  \E i \in DOMAIN items : items[i] = [id |-> id, version |-> rows[id]]
      <4>1. PICK i \in DOMAIN items :
               items[i].id = id /\ RowTrue(calls, rows, t, items[i], tab.listAt)
        BY <2>4, <3>2 DEF ListTrue
      <4>2. items[i].version = rows[id] /\ items[i] \in Scenario
        BY <2>5, <3>2, <4>1
      <4>3. items[i] = [id |-> id, version |-> rows[id]]
        BY <4>1, <4>2 DEF Scenario
      <4> QED BY <4>3
    <3> QED BY <3>2, <3>3 DEF Lists, ListTrue, items
  <2> QED BY <2>2, <2>6, <2>7, <2>8, Zenon
<1> QED BY <1>1, ClientSafety, PTL

-----------------------------------------------------------------------------
(* A tab knows its session.                                                *)

\* A tab with the session, and the history, that it had.
SameSession(tab, after) ==
    after.session = tab.session /\ (after.overtaken <=> tab.overtaken)

\* Where no session is written, those there are stay issued.
LEMMA SessionsStay ==
  ASSUME SessionsAreIssued, UNCHANGED <<sessions, storage>>,
         \A t \in Tabs : SameSession(tabs[t], tabs'[t])
  PROVE  SessionsAreIssued'
<1>1. \A session : Issued(session)' <=> Issued(session)
  BY DEF Issued
<1>2. Issued(storage)'
  BY DEF SessionsAreIssued, Issued
<1>3. \A t \in Tabs : Issued(tabs[t].session)'
  <2> TAKE t \in Tabs
  <2>1. Issued(tabs[t].session) /\ tabs'[t].session = tabs[t].session
    BY DEF SessionsAreIssued, SameSession
  <2> QED BY <2>1 DEF Issued
<1>4. \A t \in Tabs : ~tabs'[t].overtaken => storage' = tabs'[t].session
  BY DEF SessionsAreIssued, SameSession
<1> QED BY <1>2, <1>3, <1>4 DEF SessionsAreIssued

\* One tab changes, and keeps its session.
LEMMA OneTabStays ==
  ASSUME SessionsAreIssued, UNCHANGED <<sessions, storage>>,
         tabs \in [Tabs -> Tab], NEW t \in Tabs, NEW after,
         tabs' = [tabs EXCEPT ![t] = after], SameSession(tabs[t], after)
  PROVE  SessionsAreIssued'
<1>1. tabs'[t] = after /\ \A other \in Tabs \ {t} : tabs'[other] = tabs[other]
  OBVIOUS
<1>2. \A other \in Tabs \ {t} : SameSession(tabs[other], tabs'[other])
  BY <1>1 DEF SameSession
<1> QED BY <1>1, <1>2, SessionsStay

\* A session that has been issued is written to localStorage.
LEMMA SessionIsWritten ==
  ASSUME SessionsAreIssued, tabs \in [Tabs -> Tab], sessions \in Seq(Users),
         NEW t \in Tabs, NEW tab \in Tab, NEW session \in SessionType,
         TakesSession(t, tab, session), Issued(storage)',
         \/ UNCHANGED sessions
         \/ \E user \in Users : sessions' = Append(sessions, user)
  PROVE  SessionsAreIssued'
<1>1. /\ tabs' \in [Tabs -> Tab] /\ storage' = session /\ tabs'[t].session = session
      /\ \A other \in Tabs \ {t} :
            tabs'[other].session = tabs[other].session /\ tabs'[other].overtaken
  BY TakesSessionTabs
<1>2. \A token \in 1..Len(sessions) :
         token \in 1..Len(sessions') /\ sessions'[token] = sessions[token]
  OBVIOUS
<1>4. ASSUME NEW other \in Tabs PROVE Issued(tabs[other].session)'
  <2>1. CASE other = t
    BY <1>1, <2>1 DEF Issued
  <2>2. CASE other # t
    <3>1. tabs'[other].session = tabs[other].session /\ Issued(tabs[other].session)
      BY <1>1, <2>2 DEF SessionsAreIssued
    <3> QED BY <1>2, <3>1 DEF Issued
  <2> QED BY <2>1, <2>2
<1>5. ASSUME NEW other \in Tabs PROVE ~tabs'[other].overtaken => storage' = tabs'[other].session
  BY <1>1
<1> QED BY <1>4, <1>5 DEF SessionsAreIssued

\* A change of the scenarios leaves the sessions alone.
LEMMA CommitKeepsSessions ==
  ASSUME SessionsAreIssued, tabs \in [Tabs -> Tab], commits \in Nat, NEW t, Commit(t)
  PROVE  SessionsAreIssued'
<1>1. UNCHANGED <<sessions, storage>>
  BY DEF Commit
<1>2. \A u \in Tabs : tabs'[u].session = tabs[u].session
  BY CommitTabs
<1>3. \A u \in Tabs : tabs'[u].overtaken <=> tabs[u].overtaken
  BY CommitFlags
<1>4. \A u \in Tabs : SameSession(tabs[u], tabs'[u])
  BY <1>2, <1>3, Zenon DEF SameSession
<1> QED BY <1>1, <1>4, SessionsStay

\* Every step of a tab keeps the sessions issued.
LEMMA TabsKeepSessions ==
  ASSUME ClientInv, SessionsAreIssued, NEW t \in Tabs,
         \/ Login(t) \/ Logout(t) \/ Reload(t) \/ Select(t)
         \/ FetchScenarios(t) \/ CreateScenario(t) \/ ChangeScenario(t)
  PROVE  SessionsAreIssued'
<1>1. tabs \in [Tabs -> Tab] /\ tabs[t] \in Tab /\ sessions \in Seq(Users)
  BY DEF ClientInv, TypeOK, RestIsTyped
<1>2. CASE UNCHANGED <<sessions, storage, tabs>>
  <2>1. \A other \in Tabs : SameSession(tabs[other], tabs'[other])
    BY <1>2 DEF SameSession
  <2> QED BY <1>2, <2>1, SessionsStay
<1>3. CASE Login(t) \/ CreateScenario(t) \/ ChangeScenario(t)
  <2>1. UNCHANGED <<sessions, storage, tabs>>
    BY <1>3 DEF Login, CreateScenario, ChangeScenario, Call, server
  <2> QED BY <1>2, <2>1
<1>4. CASE FetchScenarios(t)
  <2> DEFINE after == [tabs[t] EXCEPT !.loading = TRUE]
  <2>1. UNCHANGED <<sessions, storage>>
    BY <1>4 DEF FetchScenarios, Call, server
  <2>2. tabs' = [tabs EXCEPT ![t] = after]
    BY <1>4, <1>1 DEF FetchScenarios
  <2>3. after.session = tabs[t].session
    BY <1>1 DEF Tab
  <2>4. after.overtaken <=> tabs[t].overtaken
    BY <1>1 DEF Tab
  <2>5. SameSession(tabs[t], after)
    BY <2>3, <2>4, Zenon DEF SameSession
  <2> HIDE DEF after
  <2> QED BY <1>1, <2>1, <2>2, <2>5, OneTabStays
<1>5. CASE Select(t)
  <2>1. PICK i \in DOMAIN tabs[t].items :
            tabs' = [tabs EXCEPT ![t].active = tabs[t].items[i],
                                 ![t].activeAt = tabs[t].listAt]
    BY <1>5 DEF Select
  <2> DEFINE after == [tabs[t] EXCEPT !.active = tabs[t].items[i],
                                      !.activeAt = tabs[t].listAt]
  <2>2. UNCHANGED <<sessions, storage>>
    BY <1>5 DEF Select, server
  <2>3. tabs' = [tabs EXCEPT ![t] = after]
    BY <1>1, <2>1
  <2>4. after.session = tabs[t].session
    BY <1>1 DEF Tab
  <2>5. after.overtaken <=> tabs[t].overtaken
    BY <1>1 DEF Tab
  <2>6. SameSession(tabs[t], after)
    BY <2>4, <2>5, Zenon DEF SameSession
  <2> HIDE DEF after
  <2> QED BY <1>1, <2>2, <2>3, <2>6, OneTabStays
<1>6. CASE Logout(t)
  <2>1. TakesSession(t, tabs[t], NoSession) /\ UNCHANGED sessions
    BY <1>6 DEF Logout, SignOut, server
  <2>2. Issued(storage)'
    BY <2>1 DEF TakesSession, Issued
  <2> QED BY <1>1, <2>1, <2>2, EmptyTypes, SessionIsWritten
<1>7. CASE Reload(t)
  <2>1. tabs' = [tabs EXCEPT ![t] = Loaded(storage)] /\ UNCHANGED <<sessions, storage>>
    BY <1>7 DEF Reload, server
  <2>2. Loaded(storage).session = storage
    BY DEF Loaded
  <2> DEFINE fresh == Loaded(storage)
  <2> HIDE DEF fresh
  <2>3. tabs'[t] = fresh /\ \A other \in Tabs \ {t} : tabs'[other] = tabs[other]
    BY <1>1, <2>1 DEF fresh
  <2>4. fresh.session = storage
    BY <2>2 DEF fresh
  <2>5. Issued(storage)' /\ \A session : Issued(session)' <=> Issued(session)
    BY <2>1 DEF SessionsAreIssued, Issued
  <2>6. ASSUME NEW other \in Tabs PROVE Issued(tabs[other].session)'
    <3>1. CASE other = t
      BY <2>1, <2>3, <2>4, <2>5, <3>1 DEF Issued
    <3>2. CASE other # t
      BY <2>1, <2>3, <3>2 DEF SessionsAreIssued, Issued
    <3> QED BY <3>1, <3>2
  <2>7. ASSUME NEW other \in Tabs
        PROVE  ~tabs'[other].overtaken => storage' = tabs'[other].session
    BY <2>1, <2>3, <2>4 DEF SessionsAreIssued
  <2> QED BY <2>5, <2>6, <2>7 DEF SessionsAreIssued
<1> QED BY <1>3, <1>4, <1>5, <1>6, <1>7

\* So does every step of a call.
LEMMA CallsKeepSessions ==
  ASSUME ClientInv, SessionsAreIssued, NEW c \in Calls,
         \/ AnswerList(c) \/ CommitChange(c) \/ AnswerChange(c) \/ Take(c)
         \/ TakeLogin(c) \/ TakeUnauthorized(c) \/ TakeRefusal(c)
         \/ TakeErrorAfterCommit(c) \/ Lose(c)
  PROVE  SessionsAreIssued'
<1> DEFINE call == calls[c]
           t == call.tab
<1>1. /\ tabs \in [Tabs -> Tab] /\ sessions \in Seq(Users) /\ call \in CallType
      /\ commits \in Nat /\ Sensible(call, rows, commits)
  BY DEF ClientInv, TypeOK, RestIsTyped, CallInv
<1>2. call.stage # "none"
  BY DEF AnswerList, CommitChange, AnswerChange, Take, TakeLogin, TakeUnauthorized,
         TakeRefusal, TakeErrorAfterCommit, Lose
<1>3. t \in Tabs /\ tabs[t] \in Tab
  BY <1>1, <1>2 DEF Sensible
<1>4. CASE AnswerList(c) \/ AnswerChange(c)
  <2>1. UNCHANGED <<sessions, storage, tabs>>
    BY <1>4 DEF AnswerList, AnswerChange, server
  <2>2. \A other \in Tabs : SameSession(tabs[other], tabs'[other])
    BY <2>1 DEF SameSession
  <2> QED BY <2>1, <2>2, SessionsStay
<1>5. CASE CommitChange(c)
  <2>1. Commit(t)
    BY <1>5 DEF CommitChange
  <2> QED BY <1>1, <2>1, CommitKeepsSessions
<1>6. CASE Take(c)
  <2> DEFINE after == IF call.kind = "list" THEN Listed(tabs[t], call)
                                            ELSE Shows(tabs[t], call)
  <2>1. /\ tabs' = [tabs EXCEPT ![t] = after] /\ UNCHANGED <<sessions, storage>>
        /\ call.stage = "answered"
    BY <1>1, <1>3, <1>6 DEF Take, server
  <2>2. CASE call.kind = "list"
    <3>1. Listed(tabs[t], call).session = tabs[t].session
      BY <1>1, <1>3, ListedTab
    <3>2. Listed(tabs[t], call).overtaken <=> tabs[t].overtaken
      BY <1>1, <1>3, ListedFlags
    <3>3. after = Listed(tabs[t], call)
      BY <2>2
    <3>4. SameSession(tabs[t], after)
      BY <3>1, <3>2, <3>3, Zenon DEF SameSession
    <3> HIDE DEF after
    <3> QED BY <1>1, <1>3, <2>1, <3>4, OneTabStays
  <2>3. CASE call.kind # "list"
    <3>1. call.rows[1] \in Scenario
      <4>1. Len(call.rows) = 1 /\ call.rows \in Seq(Scenario)
        BY <1>1, <2>1, <2>3 DEF Sensible, CallType
      <4> QED BY <4>1
    <3>2. Shows(tabs[t], call).session = tabs[t].session
      BY <1>1, <1>3, <3>1, ShowsTab
    <3>3. Shows(tabs[t], call).overtaken <=> tabs[t].overtaken
      BY <1>1, <1>3, <3>1, ShowsFlags
    <3>4. after = Shows(tabs[t], call)
      BY <2>3
    <3>5. SameSession(tabs[t], after)
      BY <3>2, <3>3, <3>4, Zenon DEF SameSession
    <3> HIDE DEF after
    <3> QED BY <1>1, <1>3, <2>1, <3>5, OneTabStays
  <2> QED BY <2>2, <2>3
<1>7. CASE TakeLogin(c)
  <2> DEFINE session == [token |-> Len(sessions) + 1, user |-> call.user]
  <2>1. /\ call.stage = "sent" /\ call.kind = "login"
        /\ sessions' = Append(sessions, call.user)
        /\ TakesSession(t, tabs[t], session)
    BY <1>7 DEF TakeLogin
  <2>2. call.user \in Users
    BY <1>1, <2>1 DEF Sensible
  <2>3. session \in SessionType
    BY <1>1, <2>2 DEF SessionType
  <2>4. /\ Len(sessions) + 1 \in 1..Len(sessions')
        /\ sessions'[Len(sessions) + 1] = call.user
    BY <1>1, <2>1, <2>2
  <2>5. Issued(storage)'
    <3>1. storage' = session
      BY <2>1 DEF TakesSession
    <3>2. storage'.token = Len(sessions) + 1 /\ storage'.user = call.user
      BY <3>1
    <3> QED BY <2>4, <3>2 DEF Issued
  <2> HIDE DEF session
  <2> QED BY <1>1, <1>3, <2>1, <2>2, <2>3, <2>5, SessionIsWritten
<1>8. CASE TakeUnauthorized(c)
  <2> DEFINE after == Failed(tabs[t], call)
  <2>1. TakesSession(t, after, NoSession) /\ UNCHANGED sessions
    BY <1>8 DEF TakeUnauthorized, SignOut, server
  <2>2. Issued(storage)'
    BY <2>1 DEF TakesSession, Issued
  <2>3. after \in Tab
    BY <1>1, <1>3, FailedTab
  <2> HIDE DEF after
  <2> QED BY <1>1, <1>3, <2>1, <2>2, <2>3, EmptyTypes, SessionIsWritten
<1>9. CASE TakeRefusal(c) \/ TakeErrorAfterCommit(c) \/ Lose(c)
  <2> DEFINE after == Failed(tabs[t], call)
  <2>1. tabs' = [tabs EXCEPT ![t] = after] /\ UNCHANGED <<sessions, storage>>
    BY <1>1, <1>3, <1>9 DEF TakeRefusal, TakeErrorAfterCommit, Lose, TakeError, server
  <2>2. after.session = tabs[t].session
    BY <1>1, <1>3, FailedTab
  <2>3. after.overtaken <=> tabs[t].overtaken
    BY <1>3, FailedFlags
  <2>4. SameSession(tabs[t], after)
    BY <2>2, <2>3, Zenon DEF SameSession
  <2> HIDE DEF after
  <2> QED BY <1>1, <1>3, <2>1, <2>4, OneTabStays
<1> QED BY <1>4, <1>5, <1>6, <1>7, <1>8, <1>9

\* Together with what is known of tabs and calls, the sessions are inductive.
LEMMA NextKeepsSessions ==
  ASSUME ClientInv, SessionsAreIssued, [Next]_vars
  PROVE  SessionsAreIssued'
<1>1. CASE OtherClient
  <2>1. Commit(NoTab) /\ tabs \in [Tabs -> Tab] /\ commits \in Nat
    BY <1>1 DEF OtherClient, ClientInv, TypeOK, RestIsTyped
  <2> QED BY <2>1, CommitKeepsSessions
<1>2. CASE Expire \/ UNCHANGED vars
  <2>1. UNCHANGED <<sessions, storage, tabs>>
    BY <1>2 DEF Expire, vars, server
  <2>2. \A t \in Tabs : SameSession(tabs[t], tabs'[t])
    BY <2>1 DEF SameSession
  <2> QED BY <2>1, <2>2, SessionsStay
<1> QED BY <1>1, <1>2, TabsKeepSessions, CallsKeepSessions DEF Next

\* The user a tab shows is the one its token belongs to, and the one its calls
\* act as, unless another tab has signed in or out since.
THEOREM TabsKnowTheirSessionHolds == Spec => []TabsKnowTheirSession
<1>1. Init => SessionsAreIssued
  <2> SUFFICES ASSUME Init PROVE SessionsAreIssued
    OBVIOUS
  <2>1. storage = NoSession /\ \A t \in Tabs : tabs[t].session = NoSession
    BY DEF Init, Loaded
  <2> QED BY <2>1 DEF SessionsAreIssued, Issued
<1>2. ClientInv /\ SessionsAreIssued /\ [Next]_vars => SessionsAreIssued'
  BY NextKeepsSessions
<1>3. SessionsAreIssued => TabsKnowTheirSession
  BY DEF SessionsAreIssued, Issued, TabsKnowTheirSession, SignedIn
<1> QED BY <1>1, <1>2, <1>3, ClientSafety, PTL DEF Spec

=============================================================================
