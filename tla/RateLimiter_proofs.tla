------------------------- MODULE RateLimiter_proofs -------------------------
(***************************************************************************)
(* Proofs about the rate limiter: for every number of clients, endpoints   *)
(* and goroutines and every limit, a client is refused only for requests   *)
(* of its own, the table holds no window older than the last sweep, and no *)
(* client is admitted more often in a minute than its windows allow.       *)
(***************************************************************************)
EXTENDS RateLimiter, TLAPS

-----------------------------------------------------------------------------
(* The inductive invariant.                                                *)

\* No time that is stored lies ahead of the clock, and a request that waits
\* to be counted has not waited too long.
TimesArePast ==
    /\ 0 < clock /\ sweepAt <= clock
    /\ \A key \in Keys : buckets[key].Start <= clock
    /\ \A w \in Workers :
          requests[w].pc = "arrived" =>
              /\ 0 < requests[w].now /\ requests[w].now <= clock
              /\ clock - requests[w].now <= MaxDelay

\* How many of the requests a window has counted were admitted.
Admissions(bucket) == IF bucket.Count < limit THEN bucket.Count ELSE limit

\* The requests a window has admitted are the last ones that were admitted
\* for its key, and none of them came before the window started.
WindowsAreEarned ==
    \A key \in Keys :
        LET log == admitted[key]
            n == Admissions(buckets[key])
        IN  /\ n <= Len(log)
            /\ \A i \in (Len(log) - n + 1) .. Len(log) : buckets[key].Start <= log[i]

LimiterInv == TypeOK /\ TimesArePast /\ WindowsAreEarned /\ TableIsSwept

-----------------------------------------------------------------------------
(* Facts about the operators of the limiter.                               *)

\* At least one request is admitted in a window.
LEMMA LimitPositive == limit \in Nat /\ limit >= 1
BY LimiterAssumption DEF limit

\* An absent window and an idle goroutine have their types.
LEMMA InitialValues ==
    NoBucket \in Bucket /\ Idle \in Request /\ Idle.pc = "idle"
<1>1. NoBucket \in Bucket
  BY DEF NoBucket, Bucket
<1>2. PICK scope \in Scopes, client \in Clients : TRUE
  BY LimiterAssumption
<1>3. <<scope, client>> \in Keys
  BY <1>2 DEF Keys
<1>4. (CHOOSE key \in Keys : TRUE) \in Keys
  BY <1>3
<1> QED BY <1>1, <1>4 DEF Idle, Request

\* A window is kept for each endpoint and client.
LEMMA KeyIdentity == ASSUME NEW from \in Keys PROVE Key(from) = from
BY DEF Key, Keys

\* A sweep keeps a window or drops it, and drops only one that has expired.
LEMMA SweptWindow ==
    ASSUME buckets \in [Keys -> Bucket], sweepAt \in Nat, NEW now \in Nat
    PROVE  /\ Swept(now) \in [Keys -> Bucket]
           /\ \A key \in Keys :
                 \/ Swept(now)[key] = buckets[key] /\ ~(SweepDue(now) /\ Expired(buckets[key], now))
                 \/ Swept(now)[key] = NoBucket /\ Expired(buckets[key], now)
<1>1. NoBucket \in Bucket
  BY DEF NoBucket, Bucket
<1>2. CASE SweepDue(now)
  BY <1>1, <1>2 DEF Swept
<1>3. CASE ~SweepDue(now)
  BY <1>3 DEF Swept
<1> QED BY <1>2, <1>3

\* A request is counted in the window it finds, if that has started and not
\* expired, and in a new one otherwise.
LEMMA CountedWindow ==
    ASSUME NEW bucket \in Bucket, NEW now \in Nat, now > 0
    PROVE  LET counted == Counted(bucket, now)
           IN  /\ counted \in Bucket /\ counted # NoBucket
               /\ \/ /\ counted = [Start |-> now, Count |-> 1]
                     /\ bucket = NoBucket \/ Expired(bucket, now)
                  \/ /\ bucket.Start > 0 /\ bucket.Count > 0
                     /\ now - bucket.Start < Minute
                     /\ counted = [Start |-> bucket.Start, Count |-> bucket.Count + 1]
<1>0. bucket.Start \in Nat /\ bucket.Count \in Nat /\ (bucket.Start = 0 <=> bucket.Count = 0)
      /\ bucket = [Start |-> bucket.Start, Count |-> bucket.Count]
  BY DEF Bucket
<1>1. CASE bucket.Start = 0 \/ Expired(bucket, now)
  <2>1. Counted(bucket, now) = [Start |-> now, Count |-> 1]
    BY <1>1 DEF Counted, Fresh
  <2>2. bucket = NoBucket \/ Expired(bucket, now)
    BY <1>0, <1>1 DEF NoBucket
  <2> QED BY <2>1, <2>2 DEF Bucket, NoBucket
<1>2. CASE ~(bucket.Start = 0 \/ Expired(bucket, now))
  <2>1. Counted(bucket, now) = [Start |-> bucket.Start, Count |-> bucket.Count + 1]
    BY <1>0, <1>2 DEF Counted
  <2>2. now - bucket.Start < Minute
    BY <1>0, <1>2, LimiterAssumption DEF Expired
  <2> QED BY <1>0, <1>2, <2>1, <2>2 DEF Bucket, NoBucket
<1> QED BY <1>1, <1>2

-----------------------------------------------------------------------------
(* The invariant holds at first and in every step.                         *)

\* An empty table has nothing to earn.
LEMMA LimiterInit == Init => LimiterInv
<1> SUFFICES ASSUME Init PROVE LimiterInv
  OBVIOUS
<1> USE LimiterAssumption, BoundsAssumption
<1>1. NoBucket \in Bucket /\ Idle \in Request
  BY InitialValues
<1>2. TypeOK
  BY <1>1 DEF Init, TypeOK
<1>3. TimesArePast
  BY DelayAssumption DEF Init, TimesArePast, NoBucket, Idle
<1>4. WindowsAreEarned
  BY LimitPositive DEF Init, WindowsAreEarned, Admissions, NoBucket
<1>5. TableIsSwept
  BY DEF Init, TableIsSwept
<1> QED BY <1>2, <1>3, <1>4, <1>5 DEF LimiterInv

\* The step that counts a request, in terms of the window it is counted in.
LEMMA CountFacts ==
    ASSUME LimiterInv, NEW w \in Workers, Count(w)
    PROVE  LET key == requests[w].from
           IN  /\ key \in Keys
               /\ \E window \in Bucket :
                    /\ window # NoBucket
                    /\ buckets' = [Swept(requests[w].now) EXCEPT ![key] = window]
                    /\ \/ /\ window = [Start |-> requests[w].now, Count |-> 1]
                          /\ \/ buckets[key] = NoBucket
                             \/ Expired(buckets[key], requests[w].now)
                       \/ /\ buckets[key].Start > 0 /\ buckets[key].Count > 0
                          /\ requests[w].now - buckets[key].Start < Minute
                          /\ window = [Start |-> buckets[key].Start,
                                       Count |-> buckets[key].Count + 1]
                    /\ \/ /\ window.Count > limit
                          /\ requests' = [requests EXCEPT ![w].pc = "refused"]
                          /\ admitted' = admitted
                       \/ /\ ~(window.Count > limit)
                          /\ requests' = [requests EXCEPT ![w].pc = "admitted"]
                          /\ admitted' = [admitted EXCEPT ![key] = Append(@, clock)]
<1> DEFINE now == requests[w].now
           key == requests[w].from
           window == Counted(Swept(now)[key], now)
<1>1. requests[w] \in Request /\ now \in Nat /\ now > 0 /\ key \in Keys
  BY DEF Count, LimiterInv, TypeOK, TimesArePast, Request
<1>2. Key(requests[w].from) = key
  BY <1>1, KeyIdentity
<1>3. /\ Swept(now)[key] \in Bucket
      /\ \/ Swept(now)[key] = buckets[key]
         \/ Swept(now)[key] = NoBucket /\ Expired(buckets[key], now)
  BY <1>1, SweptWindow DEF LimiterInv, TypeOK
<1>4. /\ window \in Bucket /\ window # NoBucket
      /\ \/ /\ window = [Start |-> now, Count |-> 1]
            /\ Swept(now)[key] = NoBucket \/ Expired(Swept(now)[key], now)
         \/ /\ Swept(now)[key].Start > 0 /\ Swept(now)[key].Count > 0
            /\ now - Swept(now)[key].Start < Minute
            /\ window = [Start |-> Swept(now)[key].Start, Count |-> Swept(now)[key].Count + 1]
  BY <1>1, <1>3, CountedWindow
<1>5. \/ /\ window = [Start |-> now, Count |-> 1]
         /\ buckets[key] = NoBucket \/ Expired(buckets[key], now)
      \/ /\ buckets[key].Start > 0 /\ buckets[key].Count > 0
         /\ now - buckets[key].Start < Minute
         /\ window = [Start |-> buckets[key].Start, Count |-> buckets[key].Count + 1]
  BY <1>3, <1>4 DEF NoBucket
<1>6. /\ buckets' = [Swept(now) EXCEPT ![key] = window]
      /\ \/ /\ window.Count > limit
            /\ requests' = [requests EXCEPT ![w].pc = "refused"]
            /\ admitted' = admitted
         \/ /\ ~(window.Count > limit)
            /\ requests' = [requests EXCEPT ![w].pc = "admitted"]
            /\ admitted' = [admitted EXCEPT ![key] = Append(@, clock)]
  BY <1>2 DEF Count, Store
<1> HIDE DEF window
<1> QED BY <1>1, <1>4, <1>5, <1>6

\* Every step keeps the invariant.
LEMMA LimiterStep == LimiterInv /\ [Next]_vars => LimiterInv'
<1> SUFFICES ASSUME LimiterInv, [Next]_vars PROVE LimiterInv'
  OBVIOUS
<1> USE LimiterAssumption, DelayAssumption DEF LimiterInv
<1>1. ASSUME NEW w \in Workers, Arrive(w) PROVE LimiterInv'
  <2>1. PICK from \in Keys : requests' = [requests EXCEPT ![w] =
                [pc |-> "arrived", from |-> from, now |-> clock]]
    BY <1>1 DEF Arrive
  <2>2. TypeOK'
    BY <1>1, <2>1 DEF Arrive, TypeOK, Request
  <2>3. TimesArePast'
    BY <1>1, <2>1 DEF Arrive, TypeOK, TimesArePast
  <2>4. WindowsAreEarned' /\ TableIsSwept'
    BY <1>1 DEF Arrive, WindowsAreEarned, Admissions, TableIsSwept
  <2> QED BY <2>2, <2>3, <2>4
<1>2. ASSUME NEW w \in Workers, Count(w) PROVE LimiterInv'
  <2> DEFINE key == requests[w].from
             now == requests[w].now
  <2>1. PICK window \in Bucket :
          /\ window # NoBucket
          /\ buckets' = [Swept(now) EXCEPT ![key] = window]
          /\ \/ window = [Start |-> now, Count |-> 1]
             \/ /\ buckets[key].Start > 0 /\ buckets[key].Count > 0
                /\ now - buckets[key].Start < Minute
                /\ window = [Start |-> buckets[key].Start,
                             Count |-> buckets[key].Count + 1]
          /\ \/ /\ window.Count > limit
                /\ requests' = [requests EXCEPT ![w].pc = "refused"]
                /\ admitted' = admitted
             \/ /\ ~(window.Count > limit)
                /\ requests' = [requests EXCEPT ![w].pc = "admitted"]
                /\ admitted' = [admitted EXCEPT ![key] = Append(@, clock)]
    BY <1>2, CountFacts
  <2>2. /\ key \in Keys /\ now \in Nat /\ 0 < now /\ now <= clock
        /\ clock - now <= MaxDelay
        /\ requests[w] \in Request
        /\ UNCHANGED <<clock, arrivals>>
        /\ sweepAt' = IF SweepDue(now) THEN now ELSE sweepAt
    BY <1>2 DEF Count, TypeOK, TimesArePast, Request
  <2>3. /\ Swept(now) \in [Keys -> Bucket]
        /\ \A k \in Keys :
              \/ Swept(now)[k] = buckets[k] /\ ~(SweepDue(now) /\ Expired(buckets[k], now))
              \/ Swept(now)[k] = NoBucket /\ Expired(buckets[k], now)
    BY <2>2, SweptWindow DEF TypeOK
  <2>4. /\ buckets' \in [Keys -> Bucket]
        /\ buckets'[key] = window
        /\ \A k \in Keys \ {key} : buckets'[k] = Swept(now)[k]
    BY <2>1, <2>2, <2>3
  <2>5. window.Start \in Nat /\ window.Count \in Nat /\ window.Start <= clock
    BY <2>1, <2>2 DEF Bucket, TimesArePast
  <2>6. TypeOK'
    <3>1. requests' \in [Workers -> Request]
      <4>1. ASSUME NEW pc \in {"admitted", "refused"}
            PROVE  [requests[w] EXCEPT !.pc = pc] \in Request
        BY <2>2 DEF Request
      <4>2. PICK pc \in {"admitted", "refused"} :
                requests' = [requests EXCEPT ![w] = [requests[w] EXCEPT !.pc = pc]]
        BY <2>1
      <4> QED BY <4>1, <4>2 DEF TypeOK
    <3>2. admitted' \in [Keys -> Seq(Nat)]
      <4>1. admitted[key] \in Seq(Nat) /\ clock \in Nat
        BY <2>2 DEF TypeOK
      <4>2. Append(admitted[key], clock) \in Seq(Nat)
        BY <4>1
      <4> HIDE DEF key
      <4> QED BY <2>1, <2>2, <4>2 DEF TypeOK
    <3> QED BY <2>2, <2>4, <3>1, <3>2 DEF TypeOK
  <2>7. TimesArePast'
    <3>1. \A k \in Keys : buckets'[k].Start <= clock'
      <4> SUFFICES ASSUME NEW k \in Keys PROVE buckets'[k].Start <= clock
        BY <2>2
      <4>1. CASE k = key
        BY <2>4, <2>5, <4>1
      <4>2. CASE k # key
        <5>1. buckets'[k] = buckets[k] \/ buckets'[k] = NoBucket
          BY <2>3, <2>4, <4>2
        <5>2. NoBucket.Start = 0 /\ 0 <= clock
          BY DEF NoBucket, TimesArePast, TypeOK
        <5>3. buckets[k].Start <= clock
          BY DEF TimesArePast
        <5> QED BY <5>1, <5>2, <5>3
      <4> QED BY <4>1, <4>2
    <3>2. \A v \in Workers : requests'[v].pc = "arrived" =>
             v # w /\ requests'[v] = requests[v]
      BY <2>1 DEF TypeOK, Request
    <3>3. sweepAt' <= clock
      BY <2>2 DEF TimesArePast
    <3> QED BY <2>2, <3>1, <3>2, <3>3 DEF TimesArePast
  <2>8. WindowsAreEarned'
    <3> SUFFICES ASSUME NEW k \in Keys
                 PROVE  LET log == admitted'[k]
                            n == Admissions(buckets'[k])
                        IN  /\ n <= Len(log)
                            /\ \A i \in (Len(log) - n + 1) .. Len(log) :
                                  buckets'[k].Start <= log[i]
      BY DEF WindowsAreEarned, Admissions
    <3>1. CASE k # key
      <4>1. admitted'[k] = admitted[k]
        BY <2>1, <2>2, <3>1 DEF TypeOK
      <4>2. buckets'[k] = buckets[k] \/ buckets'[k] = NoBucket
        BY <2>3, <2>4, <3>1
      <4> QED BY <4>1, <4>2, LimitPositive DEF WindowsAreEarned, Admissions, NoBucket, TypeOK
    <3>2. CASE k = key
      <4> DEFINE log == admitted[key]
      <4>1. log \in Seq(Nat) /\ Len(log) \in Nat /\ clock \in Nat
        BY <2>2 DEF TypeOK
      <4>2. CASE window = [Start |-> now, Count |-> 1]
        <5>1. admitted' = [admitted EXCEPT ![key] = Append(@, clock)]
          BY <2>1, <4>2, LimitPositive
        <5>2. admitted'[k] = Append(log, clock)
          BY <2>2, <3>2, <5>1 DEF TypeOK
        <5>3. Admissions(buckets'[k]) = 1 /\ buckets'[k].Start = now
          BY <2>4, <3>2, <4>2, LimitPositive DEF Admissions
        <5> QED BY <2>2, <4>1, <5>2, <5>3
      <4>3. CASE /\ buckets[key].Start > 0 /\ buckets[key].Count > 0
                 /\ window = [Start |-> buckets[key].Start,
                              Count |-> buckets[key].Count + 1]
        <5> DEFINE count == buckets[key].Count
                   start == buckets[key].Start
                   n == Admissions(buckets[key])
        <5>1. /\ count \in Nat /\ start \in Nat /\ start <= clock
              /\ n <= Len(log) /\ n \in Nat
              /\ \A i \in (Len(log) - n + 1) .. Len(log) : start <= log[i]
          BY <2>2, LimitPositive DEF WindowsAreEarned, Admissions, TypeOK, Bucket, TimesArePast
        <5>2. buckets'[k] = [Start |-> start, Count |-> count + 1]
          BY <2>4, <3>2, <4>3
        <5>3. CASE window.Count > limit
          <6>1. admitted'[k] = log
            BY <2>1, <3>2, <5>3
          <6>2. Admissions(buckets'[k]) = n
            BY <4>3, <5>1, <5>2, <5>3, LimitPositive DEF Admissions
          <6> QED BY <5>1, <5>2, <6>1, <6>2
        <5>4. CASE ~(window.Count > limit)
          <6> DEFINE new == admitted'[k]
                     m == Admissions(buckets'[k])
          <6>1. new = Append(log, clock)
            BY <2>1, <2>2, <3>2, <5>4 DEF TypeOK
          <6>2. m = n + 1
            BY <4>3, <5>1, <5>2, <5>4, LimitPositive DEF Admissions
          <6>3. /\ Len(new) = Len(log) + 1
                /\ \A i \in 1..Len(log) : new[i] = log[i]
                /\ new[Len(log) + 1] = clock
            BY <4>1, <6>1
          <6>4. buckets'[k].Start = start
            BY <5>2
          <6> HIDE DEF n, m, log, new
          <6>5. m <= Len(new)
            BY <4>1, <5>1, <6>2, <6>3
          <6>6. ASSUME NEW i \in (Len(new) - m + 1) .. Len(new)
                PROVE  start <= new[i]
            <7>1. CASE i = Len(log) + 1
              BY <5>1, <6>3, <7>1
            <7>2. CASE i # Len(log) + 1
              <8>1. i \in 1..Len(log) /\ i \in (Len(log) - n + 1) .. Len(log)
                BY <4>1, <5>1, <6>2, <6>3, <7>2
              <8> QED BY <5>1, <6>3, <8>1
            <7> QED BY <7>1, <7>2
          <6> QED BY <6>4, <6>5, <6>6 DEF m, new
        <5> QED BY <5>3, <5>4
      <4> QED BY <2>1, <4>2, <4>3
    <3> QED BY <3>1, <3>2
  <2>9. TableIsSwept'
    <3> SUFFICES ASSUME NEW k \in Keys, buckets'[k] # NoBucket
                 PROVE  sweepAt' < buckets'[k].Start + Minute
      BY DEF TableIsSwept
    <3>0. sweepAt' \in Nat /\ sweepAt' <= clock /\ clock \in Nat
      BY <2>2 DEF TypeOK, TimesArePast
    <3>1. CASE k = key /\ window = [Start |-> now, Count |-> 1]
      BY <2>2, <2>4, <3>0, <3>1
    <3>2. CASE /\ k = key /\ buckets[key].Start > 0
               /\ now - buckets[key].Start < Minute
               /\ window.Start = buckets[key].Start
      <4>1. buckets[key] # NoBucket /\ buckets[key].Start \in Nat
        BY <2>2, <3>2 DEF NoBucket, TypeOK, Bucket
      <4> QED BY <2>2, <2>4, <3>2, <4>1 DEF TableIsSwept, TypeOK
    <3>3. CASE k # key
      <4>1. /\ buckets'[k] = buckets[k]
            /\ ~(SweepDue(now) /\ Expired(buckets[k], now))
            /\ buckets[k].Start \in Nat
        BY <2>3, <2>4, <3>3 DEF TypeOK, Bucket
      <4> QED BY <2>2, <4>1 DEF TableIsSwept, Expired, TypeOK
    <3> QED BY <2>1, <3>1, <3>2, <3>3
  <2> QED BY <2>6, <2>7, <2>8, <2>9
<1>3. ASSUME NEW w \in Workers, Finish(w) PROVE LimiterInv'
  <2>1. Idle \in Request /\ Idle.pc = "idle"
    BY InitialValues
  <2>2. TypeOK' /\ TimesArePast'
    BY <1>3, <2>1 DEF Finish, TypeOK, TimesArePast
  <2>3. WindowsAreEarned' /\ TableIsSwept'
    BY <1>3 DEF Finish, WindowsAreEarned, Admissions, TableIsSwept
  <2> QED BY <2>2, <2>3
<1>4. ASSUME Tick PROVE LimiterInv'
  <2>1. TypeOK'
    BY <1>4 DEF Tick, TypeOK
  <2>2. TimesArePast'
    <3>1. \A key \in Keys : buckets[key].Start \in Nat
      BY DEF TypeOK, Bucket
    <3>2. \A w \in Workers : requests[w].now \in Nat
      BY DEF TypeOK, Request
    <3> QED BY <1>4, <3>1, <3>2 DEF Tick, TypeOK, TimesArePast
  <2>3. WindowsAreEarned' /\ TableIsSwept'
    BY <1>4 DEF Tick, WindowsAreEarned, Admissions, TableIsSwept
  <2> QED BY <2>1, <2>2, <2>3
<1>5. ASSUME Restart PROVE LimiterInv'
  <2>1. NoBucket \in Bucket /\ Idle \in Request /\ Idle.pc = "idle"
    BY InitialValues
  <2>2. TypeOK' /\ TimesArePast'
    BY <1>5, <2>1 DEF Restart, TypeOK, TimesArePast, NoBucket
  <2>3. WindowsAreEarned' /\ TableIsSwept'
    BY <1>5, LimitPositive DEF Restart, WindowsAreEarned, Admissions, TableIsSwept, NoBucket
  <2> QED BY <2>2, <2>3
<1>6. CASE UNCHANGED vars
  BY <1>6 DEF vars, TypeOK, TimesArePast, WindowsAreEarned, Admissions, TableIsSwept
<1> QED BY <1>1, <1>2, <1>3, <1>4, <1>5, <1>6 DEF Next

-----------------------------------------------------------------------------
(* The theorems.                                                           *)

\* The invariant holds in every reachable state.
LEMMA LimiterInvHolds == Spec => []LimiterInv
  BY LimiterInit, LimiterStep, PTL DEF Spec

\* Every variable keeps its type.
THEOREM LimiterTypeCorrect == Spec => []TypeOK
<1>1. LimiterInv => TypeOK
  BY DEF LimiterInv
<1> QED BY <1>1, LimiterInvHolds, PTL

\* The table holds no window that had ended when it was last swept.
THEOREM TableIsSweptHolds == Spec => []TableIsSwept
<1>1. LimiterInv => TableIsSwept
  BY DEF LimiterInv
<1> QED BY <1>1, LimiterInvHolds, PTL

\* What a refusal says of the requests admitted before it.
EarnedStep ==
    \A w \in Workers :
        requests[w].pc = "arrived" /\ requests'[w].pc = "refused" =>
            LET log == admitted[requests[w].from]
            IN  /\ Len(log) >= limit
                /\ \A i \in (Len(log) - limit + 1) .. Len(log) :
                      log[i] + Minute > requests[w].now

\* A client is refused only when its own last `limit` requests were admitted
\* less than a minute before.
THEOREM RefusalIsEarnedHolds == Spec => RefusalIsEarned
<1>1. LimiterInv /\ [Next]_vars => [EarnedStep]_vars
  <2> SUFFICES ASSUME LimiterInv, Next, NEW w \in Workers,
                      requests[w].pc = "arrived", requests'[w].pc = "refused"
               PROVE  LET log == admitted[requests[w].from]
                      IN  /\ Len(log) >= limit
                          /\ \A i \in (Len(log) - limit + 1) .. Len(log) :
                                log[i] + Minute > requests[w].now
    BY DEF EarnedStep
  <2> USE DEF LimiterInv
  <2>1. Count(w)
    <3>1. requests \in [Workers -> Request] /\ Idle.pc = "idle"
      BY DEF TypeOK, Idle
    <3>2. PICK v \in Workers : Count(v)
      BY <3>1 DEF Next, Arrive, Finish, Tick, Restart
    <3>3. v = w
      BY <3>1, <3>2 DEF Count
    <3> QED BY <3>2, <3>3
  <2> DEFINE key == requests[w].from
             log == admitted[key]
  <2>2. PICK window \in Bucket :
          /\ \/ window = [Start |-> requests[w].now, Count |-> 1]
             \/ /\ buckets[key].Start > 0 /\ buckets[key].Count > 0
                /\ requests[w].now - buckets[key].Start < Minute
                /\ window = [Start |-> buckets[key].Start,
                             Count |-> buckets[key].Count + 1]
          /\ \/ window.Count > limit
             \/ requests' = [requests EXCEPT ![w].pc = "admitted"]
    BY <2>1, CountFacts
  <2>3. /\ key \in Keys /\ requests[w].now \in Nat
        /\ buckets[key].Start \in Nat /\ buckets[key].Count \in Nat
        /\ log \in Seq(Nat)
    BY DEF TypeOK, Request, Bucket
  <2>4. window.Count > limit
    BY <2>2 DEF TypeOK, Request
  <2>5. /\ buckets[key].Count >= limit
        /\ requests[w].now - buckets[key].Start < Minute
    BY <2>2, <2>3, <2>4, LimitPositive
  <2>6. Admissions(buckets[key]) = limit
    BY <2>3, <2>5, LimitPositive DEF Admissions
  <2>7. /\ limit <= Len(log)
        /\ \A i \in (Len(log) - limit + 1) .. Len(log) : buckets[key].Start <= log[i]
    BY <2>3, <2>6 DEF WindowsAreEarned
  <2>8. \A i \in (Len(log) - limit + 1) .. Len(log) : i \in 1..Len(log) /\ log[i] \in Nat
    BY <2>3, <2>7, LimitPositive
  <2> HIDE DEF log
  <2>9. \A i \in (Len(log) - limit + 1) .. Len(log) :
            log[i] + Minute > requests[w].now
    BY <2>3, <2>5, <2>7, <2>8, LimiterAssumption
  <2> QED BY <2>7, <2>9, <2>3, LimitPositive DEF log
<1>2. [][EarnedStep]_vars => RefusalIsEarned
  BY DEF EarnedStep, RefusalIsEarned
<1> QED BY <1>1, <1>2, LimiterInvHolds, PTL DEF Spec

-----------------------------------------------------------------------------
(* How far the windows of a client lie apart.  The first request of each    *)
(* window is admitted, so the windows show in the log of admissions: by     *)
(* their first ones.                                                        *)

\* The window after one may begin this long after it: a late request may be
\* what ends it.
Gap == Minute - MaxDelay

\* The log was written in order.
Ordered(log, time) ==
    /\ \A i \in DOMAIN log : log[i] <= time
    /\ \A i, j \in DOMAIN log : i <= j => log[i] <= log[j]

\* These admissions begin the windows of a log: there is one of them among any
\* `limit` in a row, they are a gap apart, the last of them began the window
\* there is, and if there is none the next request is a gap away as well.
Begin(firsts, log, bucket, time) ==
    /\ \A i \in 0..(Len(log) - limit) : \E f \in firsts : i < f /\ f <= i + limit
    /\ \A f, g \in firsts : f < g => log[f] + Gap <= log[g]
    /\ bucket = NoBucket => \A f \in firsts : log[f] + Gap <= time
    /\ bucket # NoBucket =>
          LET first == Len(log) - Admissions(bucket) + 1
          IN  /\ first \in firsts /\ \A f \in firsts : f <= first
              /\ log[first] <= bucket.Start + MaxDelay

Spaced(log, bucket, time) ==
    \E firsts \in SUBSET (DOMAIN log) : Begin(firsts, log, bucket, time)

AdmissionsAreSpaced ==
    \A key \in Keys :
        /\ Ordered(admitted[key], clock)
        /\ Spaced(admitted[key], buckets[key], clock)

\* A gap is at least as long as a request may be late.
LEMMA GapIsNat == Gap \in Nat /\ MaxDelay \in Nat /\ Minute \in Nat /\ MaxDelay <= Gap
  BY LimiterAssumption, DelayAssumption DEF Gap

\* An empty log has no windows.
LEMMA NothingIsSpaced ==
  ASSUME NEW time \in Nat
  PROVE  Ordered(<< >>, time) /\ Spaced(<< >>, NoBucket, time)
<1>1. Len(<< >>) = 0 /\ DOMAIN << >> = {}
  OBVIOUS
<1>2. Ordered(<< >>, time)
  BY <1>1 DEF Ordered
<1>3. 0..(0 - limit) = {}
  BY LimitPositive
<1>4. Begin({}, << >>, NoBucket, time)
  BY <1>1, <1>3 DEF Begin
<1> QED BY <1>2, <1>4 DEF Spaced

\* Time passes.
LEMMA SpacedLater ==
  ASSUME NEW log \in Seq(Nat), NEW bucket, NEW time \in Nat, NEW later \in Nat,
         time <= later, Ordered(log, time), Spaced(log, bucket, time)
  PROVE  Ordered(log, later) /\ Spaced(log, bucket, later)
<1>1. \A i \in DOMAIN log : log[i] \in Nat
  OBVIOUS
<1>2. Ordered(log, later)
  BY <1>1 DEF Ordered
<1>3. PICK firsts \in SUBSET (DOMAIN log) : Begin(firsts, log, bucket, time)
  BY DEF Spaced
<1>4. \A f \in firsts : log[f] + Gap <= time => log[f] + Gap <= later
  BY <1>1, GapIsNat
<1>5. Begin(firsts, log, bucket, later)
  BY <1>3, <1>4 DEF Begin
<1> QED BY <1>2, <1>5 DEF Spaced

\* A window that has expired may be dropped: it began a gap ago.
LEMMA SpacedDropped ==
  ASSUME NEW log \in Seq(Nat), NEW bucket \in Bucket, NEW time \in Nat,
         NEW now \in Nat, now <= time, bucket = NoBucket \/ Expired(bucket, now),
         Spaced(log, bucket, time)
  PROVE  Spaced(log, NoBucket, time)
<1>1. \A i \in DOMAIN log : log[i] \in Nat
  OBVIOUS
<1>2. PICK firsts \in SUBSET (DOMAIN log) : Begin(firsts, log, bucket, time)
  BY DEF Spaced
<1>3. CASE bucket = NoBucket
  BY <1>3
<1>4. CASE bucket # NoBucket
  <2> DEFINE first == Len(log) - Admissions(bucket) + 1
  <2>1. /\ first \in firsts /\ \A f \in firsts : f <= first
        /\ log[first] <= bucket.Start + MaxDelay
    BY <1>2, <1>4 DEF Begin
  <2>2. bucket.Start \in Nat /\ bucket.Start + Minute <= time
    <3>1. bucket.Start \in Nat /\ now - bucket.Start >= Minute
      BY <1>4 DEF Bucket, Expired
    <3> QED BY <3>1, GapIsNat
  <2> HIDE DEF first
  <2>3. first \in DOMAIN log /\ log[first] \in Nat
    BY <1>1, <2>1
  <2>4. log[first] + Gap <= time
    BY <2>1, <2>2, <2>3, GapIsNat DEF Gap
  <2>5. ASSUME NEW f \in firsts PROVE log[f] + Gap <= time
    <3>1. CASE f = first
      BY <2>4, <3>1
    <3>2. CASE f # first
      <4>1. f \in DOMAIN log /\ log[f] \in Nat /\ f \in Nat /\ first \in Nat
        BY <1>1, <2>3
      <4>2. f < first
        BY <2>1, <3>2, <4>1
      <4>3. log[f] + Gap <= log[first]
        BY <1>2, <2>1, <4>2 DEF Begin
      <4> QED BY <2>3, <2>4, <4>1, <4>3, GapIsNat
    <3> QED BY <3>1, <3>2
  <2>6. Begin(firsts, log, NoBucket, time)
    BY <1>2, <2>5 DEF Begin
  <2> QED BY <2>6 DEF Spaced
<1> QED BY <1>3, <1>4

\* A refusal leaves a window as long as it is.
LEMMA SpacedRefused ==
  ASSUME NEW log, NEW bucket \in Bucket, NEW time, NEW window \in Bucket,
         bucket # NoBucket, window # NoBucket, window.Start = bucket.Start,
         window.Count = bucket.Count + 1, window.Count > limit,
         Spaced(log, bucket, time)
  PROVE  Spaced(log, window, time)
<1>1. Admissions(window) = Admissions(bucket)
  BY LimitPositive DEF Admissions, Bucket
<1>2. PICK firsts \in SUBSET (DOMAIN log) : Begin(firsts, log, bucket, time)
  BY DEF Spaced
<1>3. Begin(firsts, log, window, time)
  BY <1>1, <1>2 DEF Begin
<1> QED BY <1>3 DEF Spaced

\* One more is admitted, and the log is in order still.
LEMMA OrderedAfter ==
  ASSUME NEW log \in Seq(Nat), NEW time \in Nat, Ordered(log, time)
  PROVE  Ordered(Append(log, time), time)
<1> DEFINE new == Append(log, time)
<1>1. /\ DOMAIN new = 1..(Len(log) + 1) /\ Len(log) \in Nat
      /\ \A i \in 1..Len(log) : new[i] = log[i] /\ log[i] \in Nat
      /\ new[Len(log) + 1] = time
  OBVIOUS
<1> HIDE DEF new
<1>2. \A i \in DOMAIN new : i \in 1..Len(log) \/ i = Len(log) + 1
  BY <1>1
<1>3. \A i \in DOMAIN new : new[i] <= time
  BY <1>1, <1>2 DEF Ordered
<1>4. \A i, j \in DOMAIN new : i <= j => new[i] <= new[j]
  BY <1>1, <1>2, <1>3 DEF Ordered
<1> QED BY <1>3, <1>4 DEF Ordered, new

\* One more is admitted in a window.
LEMMA SpacedAdmitted ==
  ASSUME NEW log \in Seq(Nat), NEW bucket \in Bucket, NEW time \in Nat,
         NEW window \in Bucket, bucket # NoBucket, window # NoBucket,
         window.Start = bucket.Start, window.Count = bucket.Count + 1,
         ~(window.Count > limit), Spaced(log, bucket, time)
  PROVE  Spaced(Append(log, time), window, time)
<1> DEFINE new == Append(log, time)
           n == Admissions(bucket)
           first == Len(log) - n + 1
<1>1. /\ Len(new) = Len(log) + 1 /\ Len(log) \in Nat
      /\ \A i \in DOMAIN log : new[i] = log[i] /\ i \in DOMAIN new
  OBVIOUS
<1>2. n \in Nat /\ n + 1 <= limit /\ Admissions(window) = n + 1 /\ limit \in Nat
  BY LimitPositive DEF Admissions, Bucket
<1>3. PICK firsts \in SUBSET (DOMAIN log) : Begin(firsts, log, bucket, time)
  BY DEF Spaced
<1>4. /\ first \in firsts /\ \A f \in firsts : f <= first
      /\ log[first] <= bucket.Start + MaxDelay
  BY <1>3 DEF Begin
<1>5. Len(new) - Admissions(window) + 1 = first
  BY <1>1, <1>2
<1> HIDE DEF new, n
<1>6. ASSUME NEW i \in 0..(Len(new) - limit)
      PROVE  \E f \in firsts : i < f /\ f <= i + limit
  <2>1. CASE i = Len(new) - limit
    <3>1. i < first /\ first <= i + limit
      <4>1. first \in DOMAIN log
        BY <1>4
      <4>2. first <= Len(log)
        BY <4>1
      <4> QED BY <1>1, <1>2, <2>1, <4>2
    <3> QED BY <1>4, <3>1
  <2>2. CASE i # Len(new) - limit
    <3>1. i \in 0..(Len(log) - limit)
      BY <1>1, <1>2, <2>2
    <3> QED BY <1>3, <3>1 DEF Begin
  <2> QED BY <2>1, <2>2
<1>7. \A f, g \in firsts : f < g => new[f] + Gap <= new[g]
  BY <1>1, <1>3 DEF Begin
<1> HIDE DEF first
<1>8. Begin(firsts, new, window, time)
  <2>1. new[first] <= window.Start + MaxDelay
    BY <1>1, <1>4
  <2> QED BY <1>4, <1>5, <1>6, <1>7, <2>1 DEF Begin
<1>9. firsts \in SUBSET (DOMAIN new)
  BY <1>1
<1> QED BY <1>8, <1>9 DEF Spaced, new

\* One is admitted in a new window, which it begins.
LEMMA SpacedNew ==
  ASSUME NEW log \in Seq(Nat), NEW time \in Nat, NEW now \in Nat,
         NEW window \in Bucket, window # NoBucket,
         window = [Start |-> now, Count |-> 1], time - now <= MaxDelay,
         Spaced(log, NoBucket, time)
  PROVE  Spaced(Append(log, time), window, time)
<1> DEFINE new == Append(log, time)
           last == Len(log) + 1
<1>1. /\ Len(new) = last /\ Len(log) \in Nat /\ new[last] = time /\ last \in DOMAIN new
      /\ \A i \in DOMAIN log : new[i] = log[i] /\ i \in DOMAIN new /\ i < last
  OBVIOUS
<1>2. Admissions(window) = 1 /\ limit \in Nat /\ limit >= 1 /\ last \in Nat
  BY LimitPositive DEF Admissions
<1>3. PICK old \in SUBSET (DOMAIN log) : Begin(old, log, NoBucket, time)
  BY DEF Spaced
<1> DEFINE firsts == old \cup {last}
<1> HIDE DEF new
<1>4. ASSUME NEW i \in 0..(Len(new) - limit)
      PROVE  \E f \in firsts : i < f /\ f <= i + limit
  <2>1. CASE i = Len(new) - limit
    BY <1>1, <1>2, <2>1
  <2>2. CASE i # Len(new) - limit
    <3>1. i \in 0..(Len(log) - limit)
      BY <1>1, <1>2, <2>2
    <3> QED BY <1>3, <3>1 DEF Begin
  <2> QED BY <2>1, <2>2
<1>5. ASSUME NEW f \in firsts, NEW g \in firsts, f < g
      PROVE  new[f] + Gap <= new[g]
  <2>1. f \in old
    <3>1. \A i \in DOMAIN log : i \in Nat /\ i < last
      BY <1>1
    <3> QED BY <1>2, <1>5, <3>1
  <2>2. CASE g \in old
    BY <1>1, <1>3, <1>5, <2>1, <2>2 DEF Begin
  <2>3. CASE g = last
    BY <1>1, <1>3, <2>1, <2>3 DEF Begin
  <2> QED BY <2>2, <2>3
<1>6. Len(new) - Admissions(window) + 1 = last
  BY <1>1, <1>2
<1>7. \A f \in firsts : f <= last
  BY <1>1, <1>2
<1>8. new[last] <= window.Start + MaxDelay
  BY <1>1, GapIsNat
<1>9. firsts \in SUBSET (DOMAIN new)
  BY <1>1
<1>10. last \in firsts
  OBVIOUS
<1> HIDE DEF firsts, last
<1>11. Begin(firsts, new, window, time)
  BY <1>4, <1>5, <1>6, <1>7, <1>8, <1>10 DEF Begin
<1> QED BY <1>9, <1>11 DEF Spaced, new

\* Counting a request keeps its client's windows apart, and the others'.
LEMMA CountKeepsSpaced ==
  ASSUME LimiterInv, AdmissionsAreSpaced, NEW w \in Workers, Count(w)
  PROVE  AdmissionsAreSpaced'
<1> DEFINE key == requests[w].from
           now == requests[w].now
<1>1. PICK window \in Bucket :
        /\ window # NoBucket
        /\ buckets' = [Swept(now) EXCEPT ![key] = window]
        /\ \/ /\ window = [Start |-> now, Count |-> 1]
              /\ buckets[key] = NoBucket \/ Expired(buckets[key], now)
           \/ /\ buckets[key].Start > 0 /\ buckets[key].Count > 0
              /\ now - buckets[key].Start < Minute
              /\ window = [Start |-> buckets[key].Start,
                           Count |-> buckets[key].Count + 1]
        /\ \/ /\ window.Count > limit
              /\ requests' = [requests EXCEPT ![w].pc = "refused"]
              /\ admitted' = admitted
           \/ /\ ~(window.Count > limit)
              /\ requests' = [requests EXCEPT ![w].pc = "admitted"]
              /\ admitted' = [admitted EXCEPT ![key] = Append(@, clock)]
  BY CountFacts
<1>2. /\ key \in Keys /\ now \in Nat /\ now <= clock /\ clock - now <= MaxDelay
      /\ clock' = clock /\ clock \in Nat
  BY DEF Count, LimiterInv, TypeOK, TimesArePast, Request
<1>3. /\ Swept(now) \in [Keys -> Bucket]
      /\ \A k \in Keys :
            \/ Swept(now)[k] = buckets[k]
            \/ Swept(now)[k] = NoBucket /\ Expired(buckets[k], now)
  BY <1>2, SweptWindow DEF LimiterInv, TypeOK
<1>4. /\ buckets'[key] = window
      /\ \A k \in Keys \ {key} : buckets'[k] = Swept(now)[k]
  BY <1>1, <1>2, <1>3
<1>5. \A k \in Keys : admitted[k] \in Seq(Nat) /\ buckets[k] \in Bucket
  BY DEF LimiterInv, TypeOK
<1>6. \A k \in Keys \ {key} : admitted'[k] = admitted[k]
  BY <1>1, <1>2 DEF LimiterInv, TypeOK
<1> DEFINE log == admitted[key]
           bucket == buckets[key]
<1>7. /\ log \in Seq(Nat) /\ bucket \in Bucket
      /\ Ordered(log, clock) /\ Spaced(log, bucket, clock)
  BY <1>2, <1>5 DEF AdmissionsAreSpaced
<1>8. window.Count > limit => admitted'[key] = log
  BY <1>1
<1>9. ~(window.Count > limit) => admitted'[key] = Append(log, clock)
  BY <1>1, <1>2 DEF LimiterInv, TypeOK
<1> HIDE DEF key, log
<1>10. Ordered(admitted'[key], clock)
  BY <1>2, <1>7, <1>8, <1>9, OrderedAfter
<1>11. Spaced(admitted'[key], window, clock)
  <2>1. CASE /\ window = [Start |-> now, Count |-> 1]
             /\ bucket = NoBucket \/ Expired(bucket, now)
    <3>1. Spaced(log, NoBucket, clock)
      BY <1>2, <1>7, <2>1, SpacedDropped
    <3>2. ~(window.Count > limit)
      BY <2>1, LimitPositive
    <3> QED BY <1>1, <1>2, <1>7, <1>9, <2>1, <3>1, <3>2, SpacedNew
  <2>2. CASE /\ bucket.Start > 0
             /\ window = [Start |-> bucket.Start, Count |-> bucket.Count + 1]
    <3>1. /\ bucket # NoBucket /\ window.Start = bucket.Start
          /\ window.Count = bucket.Count + 1
      BY <2>2 DEF NoBucket
    <3>2. CASE window.Count > limit
      BY <1>1, <1>7, <1>8, <3>1, <3>2, SpacedRefused
    <3>3. CASE ~(window.Count > limit)
      BY <1>1, <1>2, <1>7, <1>9, <3>1, <3>3, SpacedAdmitted
    <3> QED BY <3>2, <3>3
  <2> QED BY <1>1, <2>1, <2>2 DEF key
<1>12. ASSUME NEW k \in Keys, k # key
       PROVE  Ordered(admitted'[k], clock) /\ Spaced(admitted'[k], buckets'[k], clock)
  <2>1. /\ admitted'[k] = admitted[k] /\ buckets'[k] = Swept(now)[k]
        /\ Ordered(admitted[k], clock) /\ Spaced(admitted[k], buckets[k], clock)
    BY <1>4, <1>6, <1>12 DEF AdmissionsAreSpaced
  <2>2. CASE Swept(now)[k] = buckets[k]
    BY <2>1, <2>2
  <2>3. CASE Swept(now)[k] = NoBucket /\ Expired(buckets[k], now)
    BY <1>2, <1>5, <2>1, <2>3, SpacedDropped
  <2> QED BY <1>3, <2>2, <2>3
<1> QED BY <1>2, <1>4, <1>10, <1>11, <1>12 DEF AdmissionsAreSpaced

\* So does every step.
LEMMA StepKeepsSpaced ==
  ASSUME LimiterInv, AdmissionsAreSpaced, [Next]_vars
  PROVE  AdmissionsAreSpaced'
<1>1. clock \in Nat /\ clock' \in Nat /\ clock <= clock'
  BY BoundsAssumption
  DEF LimiterInv, TypeOK, Next, Tick, Restart, Arrive, Count, Finish, vars
<1>2. CASE UNCHANGED <<admitted, buckets>>
  <2>1. \A key \in Keys : admitted[key] \in Seq(Nat)
    BY DEF LimiterInv, TypeOK
  <2> QED BY <1>1, <1>2, <2>1, SpacedLater DEF AdmissionsAreSpaced
<1>3. CASE Restart
  <2>1. \A key \in Keys : admitted'[key] = << >> /\ buckets'[key] = NoBucket
    BY <1>3 DEF Restart
  <2> QED BY <1>1, <2>1, NothingIsSpaced DEF AdmissionsAreSpaced
<1>4. ASSUME NEW w \in Workers, Count(w) PROVE AdmissionsAreSpaced'
  BY <1>4, CountKeepsSpaced
<1>5. Tick \/ UNCHANGED vars \/ (\E w \in Workers : Arrive(w) \/ Finish(w))
        => UNCHANGED <<admitted, buckets>>
  BY DEF Tick, Arrive, Finish, vars
<1> QED BY <1>2, <1>3, <1>4, <1>5 DEF Next

\* No client is admitted more often in a minute than two windows allow, three
\* if requests may be counted late.
THEOREM AdmissionsAreBoundedHolds == Spec => []AdmissionsAreBounded
<1>1. Init => AdmissionsAreSpaced
  <2> SUFFICES ASSUME Init PROVE AdmissionsAreSpaced
    OBVIOUS
  <2>1. \A key \in Keys : admitted[key] = << >> /\ buckets[key] = NoBucket
    BY DEF Init
  <2>2. clock \in Nat
    BY LimiterAssumption DEF Init
  <2> QED BY <2>1, <2>2, NothingIsSpaced DEF AdmissionsAreSpaced
<1>2. LimiterInv /\ AdmissionsAreSpaced /\ [Next]_vars => AdmissionsAreSpaced'
  BY StepKeepsSpaced
<1>3. LimiterInv /\ AdmissionsAreSpaced => AdmissionsAreBounded
  <2> SUFFICES ASSUME LimiterInv, AdmissionsAreSpaced, NEW from \in Keys,
                      NEW i \in DOMAIN admitted[from],
                      i + windows * limit \in DOMAIN admitted[from]
               PROVE  admitted[from][i + windows * limit] - admitted[from][i] >= Minute
    BY DEF AdmissionsAreBounded
  <2> DEFINE log == admitted[from]
             j == i + windows * limit
  <2>1. log \in Seq(Nat) /\ Ordered(log, clock) /\ Spaced(log, buckets[from], clock)
    BY DEF LimiterInv, TypeOK, AdmissionsAreSpaced
  <2>2. PICK firsts \in SUBSET (DOMAIN log) : Begin(firsts, log, buckets[from], clock)
    BY <2>1 DEF Spaced
  <2> HIDE DEF log
  <2>3. /\ \A k \in DOMAIN log : k \in Nat /\ k >= 1 /\ k <= Len(log) /\ log[k] \in Nat
        /\ Len(log) \in Nat /\ limit \in Nat /\ limit >= 1
    BY <2>1, LimitPositive
  <2>4. i \in DOMAIN log /\ j \in DOMAIN log
    BY DEF log
  <2>5. (MaxDelay = 0 => j = i + 2 * limit) /\ (MaxDelay # 0 => j = i + 3 * limit)
    BY DEF windows
  <2> HIDE DEF j
  <2>6. ASSUME NEW k \in Nat, k + limit <= Len(log)
        PROVE  \E f \in firsts : k < f /\ f <= k + limit
    <3>1. k \in 0..(Len(log) - limit)
      BY <2>3, <2>6
    <3> QED BY <2>2, <3>1 DEF Begin
  <2>7. \A f, g \in firsts : f < g => log[f] + Gap <= log[g]
    BY <2>2 DEF Begin
  <2>8. \A k, l \in DOMAIN log : k <= l => log[k] <= log[l]
    BY <2>1 DEF Ordered
  <2>9. i + 2 * limit <= j /\ j <= Len(log)
    BY <2>3, <2>4, <2>5
  <2>10. PICK f \in firsts : i < f /\ f <= i + limit
    BY <2>3, <2>4, <2>6, <2>9
  <2>11. f \in DOMAIN log /\ log[f] \in Nat /\ log[i] <= log[f]
    BY <2>3, <2>4, <2>8, <2>10
  <2>12. f + limit <= i + 2 * limit
    BY <2>3, <2>4, <2>10, <2>11
  <2>13. PICK g \in firsts : f < g /\ g <= f + limit
    <3>1. f \in Nat /\ f + limit <= Len(log)
      BY <2>3, <2>4, <2>9, <2>11, <2>12
    <3> QED BY <2>6, <3>1
  <2>14. g \in DOMAIN log /\ log[g] \in Nat /\ log[f] + Gap <= log[g]
    BY <2>3, <2>7, <2>10, <2>13
  <2>15. log[j] - log[i] >= Minute
    <3>1. CASE MaxDelay = 0
      <4>1. Gap = Minute
        BY <3>1, GapIsNat DEF Gap
      <4>2. g <= j
        BY <2>3, <2>4, <2>5, <2>11, <2>12, <2>13, <2>14, <3>1
      <4>3. log[g] <= log[j] /\ log[j] \in Nat /\ log[i] \in Nat
        BY <2>3, <2>4, <2>8, <2>14, <4>2
      <4> QED BY <2>11, <2>14, <4>1, <4>3, GapIsNat
    <3>2. CASE MaxDelay # 0
      <4>1. j = i + 3 * limit
        BY <2>5, <3>2
      <4>2. g + limit <= j
        <5>1. i \in Nat /\ f \in Nat /\ g \in Nat /\ limit \in Nat
          BY <2>3, <2>4, <2>11, <2>14
        <5>2. f <= i + limit /\ g <= f + limit
          BY <2>10, <2>13
        <5> QED BY <4>1, <5>1, <5>2
      <4>3. PICK h \in firsts : g < h /\ h <= g + limit
        <5>1. g \in Nat /\ g + limit <= Len(log)
          BY <2>3, <2>4, <2>9, <2>14, <4>2
        <5> QED BY <2>6, <5>1
      <4>4. h \in DOMAIN log /\ log[h] \in Nat /\ log[g] + Gap <= log[h]
        BY <2>3, <2>7, <2>13, <4>3
      <4>5. h <= j
        BY <2>3, <2>4, <2>14, <4>2, <4>3, <4>4
      <4>6. log[h] <= log[j] /\ log[j] \in Nat /\ log[i] \in Nat
        BY <2>3, <2>4, <2>8, <4>4, <4>5
      <4>7. Gap + Gap >= Minute
        BY LimiterAssumption, DelayAssumption DEF Gap
      <4> QED BY <2>11, <2>14, <4>4, <4>6, <4>7, GapIsNat
    <3> QED BY <3>1, <3>2
  <2> QED BY <2>15 DEF log, j
<1> QED BY <1>1, <1>2, <1>3, LimiterInvHolds, PTL DEF Spec

=============================================================================
