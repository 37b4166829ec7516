---------------------------- MODULE RateLimiter ----------------------------
(***************************************************************************)
(* The rate limiter of the login, import and simulation endpoints          *)
(* (backend/internal/middleware/auth.go): a table of fixed windows, one    *)
(* for each scope and client, swept once a minute by whichever request     *)
(* finds the sweep due.                                                    *)
(*                                                                         *)
(* A request reads the clock before it takes the mutex, so the request     *)
(* that is counted next may carry an older time than the one counted last. *)
(* What happens under the mutex is one step.                               *)
(***************************************************************************)
EXTENDS Integers, Sequences

CONSTANTS
    Workers,       \* goroutines that serve requests
    Scopes,        \* endpoints that share one limiter
    Clients,       \* network identities
    ConfiguredLimit, \* requests per minute, as configured
    Minute,        \* length of a window
    MaxDelay,      \* longest time between reading the clock and being counted
    MaxTime,       \* bound on the clock
    MaxRequests    \* bound on requests

ASSUME LimiterAssumption ==
    /\ Scopes # {} /\ Clients # {}
    /\ ConfiguredLimit \in Int
    /\ Minute \in Nat \ {0}

\* A goroutine is counted within half a minute of reading the clock: the
\* mutex is only ever held for a pass over the table.
ASSUME DelayAssumption == MaxDelay \in Nat /\ 2 * MaxDelay <= Minute

ASSUME BoundsAssumption == MaxTime \in Nat /\ MaxRequests \in Nat

VARIABLES
    buckets,     \* a window for every key; NoBucket where the map has none
    sweepAt,     \* when the table was last swept
    clock,
    requests,    \* what each goroutine is doing
    admitted,    \* history: per endpoint and client, when it was admitted
    arrivals     \* requests so far

vars == <<buckets, sweepAt, clock, requests, admitted, arrivals>>

-----------------------------------------------------------------------------
\* NewRateLimiter admits at least one request.
limit == IF ConfiguredLimit < 1 THEN 1 ELSE ConfiguredLimit

Keys == Scopes \X Clients

\* fault: all clients of an endpoint share its quota
Key_ScopeOnly(from) == <<from[1], CHOOSE client \in Clients : TRUE>>
Key(from) == <<from[1], from[2]>>

\* Time 0 is the zero time, which no clock shows.
Bucket == {bucket \in [Start : Nat, Count : Nat] :
              bucket.Start = 0 <=> bucket.Count = 0}
NoBucket == [Start |-> 0, Count |-> 0]

Fresh_NoStart(now) == [Start |-> 0, Count |-> 0]  \* fault: a window never starts
Fresh(now) == [Start |-> now, Count |-> 0]

Request ==
    [pc   : {"idle", "arrived", "admitted", "refused"},
     from : Keys,      \* the endpoint and the client
     now  : Nat]       \* the time it has read

Idle == [pc |-> "idle", from |-> CHOOSE key \in Keys : TRUE, now |-> 0]

\* A request reads the clock.
Arrive(w) ==
    /\ requests[w].pc = "idle" /\ arrivals < MaxRequests
    /\ \E from \in Keys :
          requests' = [requests EXCEPT ![w] =
              [pc |-> "arrived", from |-> from, now |-> clock]]
    /\ arrivals' = arrivals + 1
    /\ UNCHANGED <<buckets, sweepAt, clock, admitted>>

Expired(bucket, now) == now - bucket.Start >= Minute

SweepDue(now) == now - sweepAt >= Minute

\* The table after a request at this time has swept it, if a sweep is due.
Swept_Nothing(now) == buckets  \* fault: the table only ever grows
Swept(now) ==
    IF SweepDue(now)
    THEN [key \in Keys |-> IF Expired(buckets[key], now) THEN NoBucket
                                                         ELSE buckets[key]]
    ELSE buckets

\* The window a request at this time is counted in.
Counted(bucket, now) ==
    LET window == IF bucket.Start = 0 \/ Expired(bucket, now) THEN Fresh(now)
                                                              ELSE bucket
    IN  [window EXCEPT !.Count = @ + 1]

Store_Forgotten(table, key, bucket) == table  \* fault: only a copy is counted
Store(table, key, bucket) == [table EXCEPT ![key] = bucket]

\* The request sweeps the table if that is due, and is counted.
Count(w) ==
    LET request == requests[w]
        key == Key(request.from)
        bucket == Counted(Swept(request.now)[key], request.now)
        exceeded == bucket.Count > limit
    IN  /\ request.pc = "arrived"
        /\ buckets' = Store(Swept(request.now), key, bucket)
        /\ sweepAt' = IF SweepDue(request.now) THEN request.now ELSE sweepAt
        /\ \/ /\ exceeded
              /\ requests' = [requests EXCEPT ![w].pc = "refused"]
              /\ UNCHANGED admitted
           \/ /\ ~exceeded
              /\ requests' = [requests EXCEPT ![w].pc = "admitted"]
              /\ admitted' = [admitted EXCEPT ![request.from] = Append(@, clock)]
        /\ UNCHANGED <<clock, arrivals>>

\* The handler or the refusal has been answered.
Finish(w) ==
    /\ requests[w].pc \in {"admitted", "refused"}
    /\ requests' = [requests EXCEPT ![w] = Idle]
    /\ UNCHANGED <<buckets, sweepAt, clock, admitted, arrivals>>

Tick ==
    /\ clock < MaxTime
    /\ \A w \in Workers :
          requests[w].pc = "arrived" => clock + 1 - requests[w].now <= MaxDelay
    /\ clock' = clock + 1
    /\ UNCHANGED <<buckets, sweepAt, requests, admitted, arrivals>>

\* The table is in memory only: a server that starts again has forgotten it.
Restart ==
    /\ buckets' = [key \in Keys |-> NoBucket]
    /\ sweepAt' = 0
    /\ requests' = [w \in Workers |-> Idle]
    /\ admitted' = [from \in Keys |-> << >>]
    /\ UNCHANGED <<clock, arrivals>>

\* The zero time is more than a minute ago.
Init ==
    /\ buckets = [key \in Keys |-> NoBucket]
    /\ sweepAt = 0
    /\ clock = Minute
    /\ requests = [w \in Workers |-> Idle]
    /\ admitted = [from \in Keys |-> << >>]
    /\ arrivals = 0

Next == Tick \/ Restart \/ \E w \in Workers : Arrive(w) \/ Count(w) \/ Finish(w)

Spec == Init /\ [][Next]_vars

-----------------------------------------------------------------------------
(* Properties.                                                             *)

\* Every variable keeps its type, and a window has counted a request if and
\* only if it has started.
TypeOK ==
    /\ buckets \in [Keys -> Bucket]
    /\ sweepAt \in Nat
    /\ clock \in Nat
    /\ requests \in [Workers -> Request]
    /\ admitted \in [Keys -> Seq(Nat)]
    /\ arrivals \in Nat

\* A client is refused at an endpoint only when its own last `limit` requests
\* there were admitted less than a minute before the time it asks at.  No other
\* client can exhaust its quota, no order of the mutex or of sweeps lets a
\* window outlive its minute, and a client that waits as Retry-After says is
\* not refused for anything it did before.
RefusalIsEarned ==
    [][\A w \in Workers :
          requests[w].pc = "arrived" /\ requests'[w].pc = "refused" =>
              LET log == admitted[requests[w].from]
              IN  /\ Len(log) >= limit
                  /\ \A i \in (Len(log) - limit + 1) .. Len(log) :
                        log[i] + Minute > requests[w].now]_vars

\* In no minute are more requests of a client admitted than three windows
\* hold, two if nobody ever waits between reading the clock and being counted:
\* a sweep or a late request may end a window early, but not often.
windows == IF MaxDelay = 0 THEN 2 ELSE 3
AdmissionsAreBounded ==
    \A from \in Keys :
        LET log == admitted[from]
        IN  \A i \in DOMAIN log :
                i + windows * limit \in DOMAIN log =>
                    log[i + windows * limit] - log[i] >= Minute

\* The table holds no window that had ended when it was last swept, so it does
\* not grow with every client that ever asked.
TableIsSwept ==
    \A key \in Keys : buckets[key] # NoBucket => sweepAt < buckets[key].Start + Minute

=============================================================================
