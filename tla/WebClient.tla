------------------------------ MODULE WebClient ------------------------------
(***************************************************************************)
(* The tabs of one browser and what they show of the server: the store of  *)
(* scenarios, the session they share in localStorage, and requests that    *)
(* are answered in any order or not at all                                 *)
(* (frontend/src/stores/rollover-scenario.ts, stores/auth.ts,              *)
(* api/client.ts, hooks/useAuth.ts, router/ProtectedRoute.tsx,             *)
(* pages/LoginPage.tsx, pages/RolloversPage.tsx and, on the server,        *)
(* internal/middleware/auth.go).                                           *)
(*                                                                         *)
(* A scenario is its number and how often it has changed; transitions,     *)
(* simulations and replays are one kind of call, which changes one         *)
(* scenario.  The stores of the other pages have the same shape.           *)
(***************************************************************************)
EXTENDS Integers, Sequences

CONSTANTS
    Tabs, Users, NoTab, NoUser,
    RolloverTabs, \* tabs that show the page of scenarios
    Calls,        \* requests that can be under way at once
    MaxChanges    \* bound on sign-ins and changes of scenarios, together

ASSUME ClientAssumption ==
    /\ RolloverTabs \subseteq Tabs /\ NoTab \notin Tabs /\ NoUser \notin Users
    /\ MaxChanges \in Nat

VARIABLES
    rows,      \* per scenario, how often it has changed
    commits,   \* changes so far
    sessions,  \* whose each access token is, in order of issue
    expired,   \* access tokens past their expiry
    storage,   \* localStorage: token and user
    tabs,      \* the stores of each tab
    calls      \* requests under way

server == <<rows, commits, sessions, expired>>
vars == <<server, storage, tabs, calls>>

-----------------------------------------------------------------------------
NoToken == 0
NoSession == [token |-> NoToken, user |-> NoUser]
NoScenario == [id |-> 0, version |-> 0]

Unknown == -1

MoreMayChange == Len(sessions) + commits < MaxChanges

Later(m, n) == IF m < n THEN n ELSE m

\* ORDER BY created_at DESC, id DESC; all fit the first page of 100.
Listing ==
    LET n == Len(rows)
    IN  [i \in 1..n |-> [id |-> n + 1 - i, version |-> rows[n + 1 - i]]]

\* A page that has just been loaded.  "loading" is one status of the list, idle,
\* ready and error the other.
Loaded(session) ==
    [session |-> session, loading |-> FALSE, items |-> << >>, total |-> 0,
     active |-> NoScenario,
     \* history:
     overtaken |-> FALSE,    \* another tab has signed in or out since
     latest |-> 0,           \* as of which change the newest answer was read,
     listAt |-> Unknown,     \* as of which the list, if answers came in order,
     activeAt |-> Unknown,   \* and as of which the scenario shown in detail
     missed |-> commits]     \* the last change this tab is not told of

NoCall ==
    [stage |-> "none", tab |-> NoTab, kind |-> "list", token |-> NoToken,
     user |-> NoUser, id |-> 0, rows |-> << >>,
     \* history:
     done |-> 0,   \* which change it made
     at |-> 0]     \* as of which change its answer was read

SignedIn(t) == tabs[t].session # NoSession

Waiting(t) == {c \in Calls : calls[c].tab = t}

-----------------------------------------------------------------------------
(* A tab makes a call: apiRequest takes the token from localStorage, not   *)
(* from the store of the tab.  A login is answered without looking at it.  *)

Call(t, kind, token, id, user) ==
    \E c \in Calls :
        LET call == [NoCall EXCEPT
               !.stage = "sent", !.tab = t, !.kind = kind, !.id = id,
               !.token = token, !.user = user]
        IN  /\ calls[c].stage = "none"
            /\ calls' = [calls EXCEPT ![c] = call]
            /\ UNCHANGED <<server, storage>>

\* login: the form is shown to those who are not signed in, its button is
\* disabled while a login is under way.
Login(t) ==
    /\ ~SignedIn(t)
    /\ \A c \in Waiting(t) : calls[c].kind # "login"
    /\ \E user \in Users : Call(t, "login", NoToken, 0, user)
    /\ UNCHANGED tabs

FetchScenarios(t) ==
    /\ t \in RolloverTabs /\ SignedIn(t)
    /\ Call(t, "list", storage.token, 0, NoUser)
    /\ tabs' = [tabs EXCEPT ![t].loading = TRUE]

CreateScenario(t) ==
    /\ t \in RolloverTabs /\ SignedIn(t)
    /\ Call(t, "create", storage.token, 0, NoUser)
    /\ UNCHANGED tabs

\* transition, simulate and replay, of the scenario shown in detail.
ChangeScenario(t) ==
    /\ SignedIn(t) /\ tabs[t].active # NoScenario
    /\ Call(t, "change", storage.token, tabs[t].active.id, NoUser)
    /\ UNCHANGED tabs

Select(t) ==
    /\ SignedIn(t)
    /\ \E i \in DOMAIN tabs[t].items :
          tabs' = [tabs EXCEPT ![t].active = tabs[t].items[i],
                               ![t].activeAt = tabs[t].listAt]
    /\ UNCHANGED <<server, storage, calls>>

-----------------------------------------------------------------------------
(* The server.  What a call reads is in its answer, which the tab takes    *)
(* later.  A call that changes a scenario commits first and then reads the *)
(* scenario again for its answer.                                          *)

\* RequireAuth
Authorized(token) == token \in 1..Len(sessions) /\ token \notin expired

Reply(call, answer) ==
    [call EXCEPT !.stage = "answered", !.token = NoToken, !.rows = answer,
                 !.at = commits]

AnswerList(c) ==
    /\ calls[c].stage = "sent" /\ calls[c].kind = "list"
    /\ Authorized(calls[c].token)
    /\ calls' = [calls EXCEPT ![c] = Reply(@, Listing)]
    /\ UNCHANGED <<server, storage, tabs>>

\* Of a commit for tab t, no other tab is told.
Commit(t) ==
    /\ MoreMayChange /\ commits' = commits + 1
    /\ tabs' = [other \in Tabs |->
          IF other = t THEN tabs[other]
          ELSE [tabs[other] EXCEPT !.missed = commits + 1]]
    /\ UNCHANGED <<sessions, expired, storage>>

Changed(id) ==
    IF id = 0 THEN Append(rows, 1) ELSE [rows EXCEPT ![id] = @ + 1]

CommitChange(c) ==
    LET call == calls[c]
        id == IF call.kind = "create" THEN Len(rows) + 1 ELSE call.id
    IN  /\ call.stage = "sent" /\ call.kind \in {"create", "change"}
        /\ Authorized(call.token)
        /\ rows' = Changed(call.id)
        /\ calls' = [calls EXCEPT ![c] =
              [@ EXCEPT !.stage = "committed", !.token = NoToken, !.id = id,
                        !.done = commits + 1]]
        /\ Commit(call.tab)

\* Get
AnswerChange(c) ==
    LET id == calls[c].id
    IN  /\ calls[c].stage = "committed"
        /\ calls' = [calls EXCEPT ![c] = Reply(@, <<[id |-> id, version |-> rows[id]]>>)]
        /\ UNCHANGED <<server, storage, tabs>>

\* Clients of other browsers, and calls that no tab waits for any more.
OtherClient ==
    /\ \E id \in 0..Len(rows) : rows' = Changed(id)
    /\ Commit(NoTab)
    /\ UNCHANGED calls

\* Of a token that is still in use.
Expire ==
    /\ \E token \in {storage.token} \cup {calls[c].token : c \in Calls} :
          /\ Authorized(token)
          /\ expired' = expired \cup {token}
    /\ UNCHANGED <<rows, commits, sessions, storage, tabs, calls>>

-----------------------------------------------------------------------------
(* A tab takes an answer.  Where nothing but the answer comes of it, it is *)
(* given and taken in one step.                                            *)

\* What is written to localStorage is read by the tabs when they are loaded.
TakesSession(t, tab, session) ==
    /\ storage' = session
    /\ tabs' = [other \in Tabs |->
          IF other = t
          THEN [tab EXCEPT !.session = session, !.overtaken = FALSE]
          ELSE [tabs[other] EXCEPT !.overtaken = TRUE]]

SignOut_TokenKept(t, tab) ==  \* fault: the session stays in localStorage
    /\ tabs' = [tabs EXCEPT ![t] = [tab EXCEPT !.session = NoSession]]
    /\ UNCHANGED storage
SignOut(t, tab) == TakesSession(t, tab, NoSession)

\* A call that fails leaves the items as they are, and the tab does not know
\* whether it changed anything.
Failed(tab, call) ==
    [tab EXCEPT !.loading = @ /\ call.kind # "list",
                !.missed = Later(@, call.done)]

\* As of which change the tab knows what it is answered.
AsOf(tab, call) == IF call.at < tab.latest THEN Unknown ELSE call.at

\* The page shows the first of the list if it shows none.
Listed(tab, call) ==
    LET first == tab.active = NoScenario /\ call.rows # << >>
    IN  [tab EXCEPT
           !.loading = FALSE, !.items = call.rows, !.total = Len(call.rows),
           !.active = IF first THEN call.rows[1] ELSE @,
           !.latest = Later(@, call.at),
           !.listAt = AsOf(tab, call),
           !.activeAt = IF first THEN AsOf(tab, call) ELSE @]

Prepended_NotCounted(tab, created) ==  \* fault: total is left as it was
    [tab EXCEPT !.items = <<created>> \o @]
Prepended(tab, created) ==
    [tab EXCEPT !.items = <<created>> \o @, !.total = @ + 1]

Merged_ActiveOnly(tab, updated) == tab  \* fault: the list is left as it was
Merged(tab, updated) ==
    [tab EXCEPT !.items = [i \in DOMAIN @ |-> IF @[i].id = updated.id THEN updated ELSE @[i]]]

Holds(tab, id) == \E i \in DOMAIN tab.items : tab.items[i].id = id

\* The answer of a change; it becomes the scenario shown in detail.
Shows(tab, call) ==
    LET row == call.rows[1]
        created == call.kind = "create"
        disordered == AsOf(tab, call) = Unknown \/ (created /\ Holds(tab, row.id))
    IN  [(IF created THEN Prepended(tab, row) ELSE Merged(tab, row)) EXCEPT
           !.active = row,
           !.latest = Later(@, call.at),
           !.listAt = IF disordered THEN Unknown ELSE @,
           !.activeAt = AsOf(tab, call)]

Take(c) ==
    LET call == calls[c]
    IN  /\ call.stage = "answered"
        /\ tabs' = [tabs EXCEPT ![call.tab] =
                       IF call.kind = "list" THEN Listed(@, call) ELSE Shows(@, call)]
        /\ calls' = [calls EXCEPT ![c] = NoCall]
        /\ UNCHANGED <<server, storage>>

\* Authenticator.Login issues a token.
TakeLogin(c) ==
    LET call == calls[c]
    IN  /\ call.stage = "sent" /\ call.kind = "login"
        /\ MoreMayChange
        /\ sessions' = Append(sessions, call.user)
        /\ TakesSession(call.tab, tabs[call.tab],
                        [token |-> Len(sessions) + 1, user |-> call.user])
        /\ calls' = [calls EXCEPT ![c] = NoCall]
        /\ UNCHANGED <<rows, commits, expired>>

\* 401, also for a wrong password: useAuth listens to the event and signs out,
\* whatever the token of the call was.
TakeUnauthorized(c) ==
    LET call == calls[c]
    IN  /\ call.stage = "sent"
        /\ call.kind = "login" \/ ~Authorized(call.token)
        /\ SignOut(call.tab, Failed(tabs[call.tab], call))
        /\ calls' = [calls EXCEPT ![c] = NoCall]
        /\ UNCHANGED server

TakeError(c) ==
    LET call == calls[c]
    IN  /\ tabs' = [tabs EXCEPT ![call.tab] = Failed(@, call)]
        /\ calls' = [calls EXCEPT ![c] = NoCall]
        /\ UNCHANGED <<server, storage>>

\* Any other refusal: nothing has been changed.
TakeRefusal(c) ==
    /\ calls[c].stage = "sent" /\ Authorized(calls[c].token)
    /\ TakeError(c)

\* An error after the commit: a replay that differs, or a scenario that could not
\* be read again.
TakeErrorAfterCommit(c) ==
    /\ calls[c].stage = "committed"
    /\ TakeError(c)

\* The network fails before or after the server has answered.  A call that may
\* still reach it is from then on one of OtherClient.
Lose(c) ==
    /\ calls[c].stage # "none"
    /\ TakeError(c)

Logout(t) ==
    /\ SignedIn(t)
    /\ SignOut(t, tabs[t])
    /\ UNCHANGED <<server, calls>>

Reload(t) ==
    /\ tabs' = [tabs EXCEPT ![t] = Loaded(storage)]
    /\ calls' = [c \in Calls |->
          IF c \in Waiting(t) THEN NoCall ELSE calls[c]]
    /\ UNCHANGED <<server, storage>>

-----------------------------------------------------------------------------
\* One scenario is seeded.
Init ==
    /\ rows = <<1>> /\ commits = 0
    /\ sessions = << >> /\ expired = {}
    /\ storage = NoSession
    /\ tabs = [t \in Tabs |-> Loaded(NoSession)]
    /\ calls = [c \in Calls |-> NoCall]

Next ==
    \/ \E t \in Tabs :
          \/ Login(t) \/ Logout(t) \/ Reload(t) \/ Select(t)
          \/ FetchScenarios(t) \/ CreateScenario(t) \/ ChangeScenario(t)
    \/ \E c \in Calls :
          \/ AnswerList(c) \/ CommitChange(c) \/ AnswerChange(c) \/ Take(c)
          \/ TakeLogin(c) \/ TakeUnauthorized(c) \/ TakeRefusal(c)
          \/ TakeErrorAfterCommit(c) \/ Lose(c)
    \/ OtherClient \/ Expire

Spec == Init /\ [][Next]_vars

-----------------------------------------------------------------------------
(* Properties.                                                             *)

\* The scenarios as they are, each once.
Lists(items) ==
    /\ \A i, j \in DOMAIN items : items[i].id = items[j].id => i = j
    /\ \A id \in DOMAIN rows : \E i \in DOMAIN items :
          items[i] = [id |-> id, version |-> rows[id]]

\* A tab that waits for no answer shows no spinner, and counts what it lists.  Its
\* list is the server's, however its calls overlapped, unless it was not told of
\* a change (another client's, or its own that was lost or answered with an
\* error) since the list was read, or took an answer that had been read before
\* one it had already taken, or that created a scenario already in the list.
\* The same holds of the scenario shown in detail.
ShownIsCurrent ==
    \A t \in Tabs : Waiting(t) = {} =>
        LET tab == tabs[t]
        IN  /\ ~tab.loading /\ tab.total = Len(tab.items)
            /\ tab.missed <= tab.listAt => Lists(tab.items)
            /\ tab.missed <= tab.activeAt /\ tab.active # NoScenario =>
                  tab.active.version = rows[tab.active.id]

\* The user a tab shows is the one its calls act as, and the token is that
\* user's, unless another tab of the browser has signed in or out since: the
\* tabs share localStorage and do not watch it.
TabsKnowTheirSession ==
    \A t \in Tabs :
        LET session == tabs[t].session
        IN  /\ SignedIn(t) => /\ session.token \in 1..Len(sessions)
                              /\ sessions[session.token] = session.user
            /\ ~tabs[t].overtaken => storage = session

=============================================================================
