-------------------------- MODULE RateLimitProofs --------------------------
(***************************************************************************)
(* Proofs about RateLimit for every limit, window, set of calls and delay  *)
(* that satisfies the assumptions.  The argument: a key outlives every     *)
(* call that can still touch it (KeysOutlive), so the count of a bucket    *)
(* never restarts, so no two calls get the same ticket (UniqueTickets),    *)
(* so the allowed calls of a bucket inject into 1 .. Requests.             *)
(* For the same reason INCR charges what AtomicLimiter charges, which is   *)
(* why RateLimit implements it.                                            *)
(***************************************************************************)
EXTENDS RateLimit, FiniteSetTheorems, TLAPS

\* The bound that makes the argument go: what is known of a call's bucket,
\* and of its delay while it is in flight.
CallsInTime ==
  \A c \in Calls :
    /\ call[c].status \in InFlight \cup Ticketed =>
         /\ ~Unlimited
         /\ call[c].bucket = BucketAt(call[c].at)
         /\ call[c].at <= now
    /\ call[c].status \in InFlight => now <= call[c].at + MaxDelay

\* A key's deadline lies beyond the last instant a call can touch it.
KeysOutlive ==
  \A b \in Buckets :
    deadline[b] # NoTTL => deadline[b] >= (b + 1) * BucketTicks + MaxDelay

TicketsCounted ==
  \A c \in Calls :
    /\ call[c].status \in Ticketed =>
         call[c].ticket >= 1 /\ call[c].ticket <= count[call[c].bucket]
    /\ call[c].status \in {"idle", "clocked"} => call[c].ticket = 0
    /\ call[c].status = "allowed" => call[c].ticket <= Requests

\* No two calls ever receive the same count for the same bucket, in spite
\* of expiry, retries and interleaved pipelines.
UniqueTickets ==
  \A c, d \in Calls :
    /\ call[c].status \in Ticketed
    /\ call[d].status \in Ticketed
    /\ c # d
    /\ call[c].bucket = call[d].bucket
    => call[c].ticket # call[d].ticket

IInv == TypeOK /\ CallsInTime /\ KeysOutlive /\ TicketsCounted /\ UniqueTickets

-----------------------------------------------------------------------------
LEMMA BucketTicksPositive == BucketTicks \in Nat \ {0} /\ TTLTicks \in Nat
<1>1. WindowSeconds \in Nat \ {0}
  BY LimitAssumption, ClockAssumption DEF WindowSeconds
<1>2. BucketTicks \in Nat \ {0}
  BY <1>1, ClockAssumption DEF BucketTicks
<1>3. TTLTicks \in Nat
  BY LimitAssumption, ClockAssumption DEF TTLTicks
<1>4. QED  BY <1>2, <1>3

\* A bucket index is the quotient: its bucket starts at or before t and ends
\* after it.
LEMMA BucketBounds ==
  ASSUME NEW t \in Nat
  PROVE  /\ BucketAt(t) \in Nat
         /\ BucketAt(t) <= t
         /\ BucketAt(t) * BucketTicks <= t
         /\ t < (BucketAt(t) + 1) * BucketTicks
<1> DEFINE L == BucketTicks
           q == t \div L
<1>1. L \in Nat /\ L > 0
  BY BucketTicksPositive
<1> HIDE DEF L
<1>2. q \in Nat /\ t = L * q + (t % L) /\ t % L \in 0 .. L - 1
  BY <1>1
<1> HIDE DEF q
<1>3. q * L <= t /\ t < (q + 1) * L /\ q <= t
  BY <1>1, <1>2
<1>4. QED  BY <1>2, <1>3 DEF BucketAt, q, L

-----------------------------------------------------------------------------
(* The invariant is inductive. *)

LEMMA InitInv == Init => IInv
BY BoundsAssumption
DEF Init, IInv, TypeOK, CallsInTime, KeysOutlive, TicketsCounted, UniqueTickets,
    Buckets, Status, InFlight, Ticketed, NoTTL

\* While a call is in flight the key of its bucket, once written, is live.
LEMMA InFlightKeyLive ==
  ASSUME IInv, NEW c \in Calls, call[c].status \in InFlight,
         count[call[c].bucket] > 0
  PROVE  Live(call[c].bucket)
<1> DEFINE b == call[c].bucket
           L == BucketTicks
<1>1. b \in Buckets /\ call[c].at \in Nat /\ now \in Nat /\ deadline[b] \in Int
  BY BoundsAssumption DEF IInv, TypeOK, Buckets
<1>2. b = BucketAt(call[c].at) /\ now <= call[c].at + MaxDelay
  BY DEF IInv, CallsInTime
<1>3. call[c].at < (b + 1) * L
  BY <1>1, <1>2, BucketBounds
<1>4. deadline[b] # NoTTL => deadline[b] >= (b + 1) * L + MaxDelay
  BY <1>1 DEF IInv, KeysOutlive
<1>5. (b + 1) * L \in Nat
  BY <1>1, BucketTicksPositive DEF Buckets
<1> HIDE DEF L, b
<1>6. deadline[b] # NoTTL => now < deadline[b]
  BY <1>1, <1>2, <1>3, <1>4, <1>5, BoundsAssumption
<1>7. QED  BY <1>6 DEF Live, b

LEMMA ArriveInv == ASSUME NEW c \in Calls, IInv, Arrive(c) PROVE IInv'
<1>0. now \in Nat /\ now <= MaxTime
  BY BoundsAssumption DEF IInv, TypeOK
<1>1. now \in Nat /\ BucketAt(now) \in Buckets
  <2>1. BucketAt(now) \in Nat /\ BucketAt(now) <= now
    BY <1>0, BucketBounds
  <2>2. QED  BY <1>0, <2>1, BoundsAssumption DEF Buckets
<1>2. TypeOK'
  BY <1>1 DEF IInv, TypeOK, Arrive, Status, InFlight
<1>3. CallsInTime'
  BY <1>1, BoundsAssumption DEF IInv, TypeOK, CallsInTime, Arrive, InFlight, Ticketed
<1>4. KeysOutlive'
  BY DEF IInv, KeysOutlive, Arrive
<1>5. TicketsCounted' /\ UniqueTickets'
  BY DEF IInv, TypeOK, TicketsCounted, UniqueTickets, Arrive, Ticketed, InFlight
<1>6. QED  BY <1>2, <1>3, <1>4, <1>5 DEF IInv

LEMMA IncrInv == ASSUME NEW c \in Calls, IInv, Incr(c) PROVE IInv'
<1> DEFINE b == call[c].bucket
           n == count[b] + 1
<1>1. call[c].status \in InFlight /\ b \in Buckets /\ count[b] \in Nat
  BY DEF IInv, TypeOK, Incr, InFlight
<1>2. ~Live(b) => n = 1
  <2>1. count[b] > 0 => Live(b)
    BY <1>1, InFlightKeyLive
  <2>2. QED  BY <1>1, <2>1
<1>3. /\ count' = [count EXCEPT ![b] = n]
      /\ deadline' \in [Buckets -> Int]
      /\ \A x \in Buckets : deadline'[x] = deadline[x] \/ deadline'[x] = NoTTL
      /\ call' = [call EXCEPT ![c] = [@ EXCEPT !.status = "incremented", !.ticket = n]]
      /\ UNCHANGED <<now, faults>>
  <2>1. count' = [count EXCEPT ![b] = n]
    <3>1. CASE Live(b)
      BY <3>1 DEF Incr
    <3>2. CASE ~Live(b)
      <4>1. n = 1
        BY <3>2, <1>2
      <4> HIDE DEF n
      <4>2. QED  BY <3>2, <4>1 DEF Incr
    <3>3. QED  BY <3>1, <3>2
  <2>2. call' = [call EXCEPT ![c] = [@ EXCEPT !.status = "incremented", !.ticket = n]]
    <3>1. CASE Live(b)
      BY <3>1 DEF Incr
    <3>2. CASE ~Live(b)
      <4>1. n = 1
        BY <3>2, <1>2
      <4> HIDE DEF n
      <4>2. QED  BY <3>2, <4>1 DEF Incr
    <3>3. QED  BY <3>1, <3>2
  <2>3. /\ deadline' \in [Buckets -> Int]
        /\ \A x \in Buckets : deadline'[x] = deadline[x] \/ deadline'[x] = NoTTL
    <3>1. deadline \in [Buckets -> Int] /\ NoTTL \in Int
      BY DEF IInv, TypeOK, NoTTL
    <3>2. \/ deadline' = [deadline EXCEPT ![b] = deadline[b]]
          \/ deadline' = [deadline EXCEPT ![b] = NoTTL]
      BY DEF Incr
    <3> HIDE DEF b
    <3>3. QED  BY <1>1, <3>1, <3>2
  <2>4. UNCHANGED <<now, faults>>
    BY DEF Incr
  <2>5. QED  BY <2>1, <2>2, <2>3, <2>4
<1> HIDE DEF n
<1>4. n \in Nat /\ n = count[b] + 1
  BY <1>1 DEF n
<1>5. TypeOK'
  BY <1>1, <1>3, <1>4, ZenonT(30) DEF IInv, TypeOK, Status, Ticketed, InFlight
<1>6. CallsInTime'
  BY <1>3, <1>1 DEF IInv, TypeOK, CallsInTime, InFlight, Ticketed
<1>7. KeysOutlive'
  BY <1>3 DEF IInv, KeysOutlive
<1>8. TicketsCounted'
  BY <1>1, <1>3, <1>4 DEF IInv, TypeOK, TicketsCounted, Ticketed, InFlight
<1>9. UniqueTickets'
  BY <1>1, <1>3, <1>4 DEF IInv, TypeOK, TicketsCounted, UniqueTickets, Ticketed, InFlight
<1>10. QED  BY <1>5, <1>6, <1>7, <1>8, <1>9 DEF IInv

LEMMA ExpireInv == ASSUME NEW c \in Calls, IInv, Expire(c) PROVE IInv'
<1> DEFINE b == call[c].bucket
           L == BucketTicks
<1>1. call[c].status = "incremented" /\ call[c].status \in InFlight /\ b \in Buckets
  BY DEF IInv, TypeOK, Expire, InFlight
<1>2. call[c].at \in Nat /\ now \in Nat /\ b \in Nat /\ L \in Nat /\ TTLTicks \in Nat
  BY <1>1, BoundsAssumption, BucketTicksPositive DEF IInv, TypeOK, Buckets
<1>3. b * L <= call[c].at /\ call[c].at <= now /\ TTLTicks >= L + MaxDelay
  BY <1>1, <1>2, BucketBounds, TTLAssumption DEF IInv, CallsInTime
<1>4. (b + 1) * L = b * L + L /\ b * L \in Nat
  BY <1>2
<1> HIDE DEF L
<1>5. now + TTLTicks >= (b + 1) * L + MaxDelay
  BY <1>2, <1>3, <1>4, BoundsAssumption
<1>6. TypeOK'
  BY <1>1, <1>2 DEF IInv, TypeOK, Expire, Status, InFlight
<1>7. CallsInTime'
  BY <1>1 DEF IInv, TypeOK, CallsInTime, Expire, InFlight, Ticketed
<1>8. KeysOutlive'
  BY <1>1, <1>5 DEF IInv, TypeOK, KeysOutlive, Expire, L
<1>9. TicketsCounted' /\ UniqueTickets'
  BY <1>1 DEF IInv, TypeOK, TicketsCounted, UniqueTickets, Expire, Ticketed, InFlight
<1>10. QED  BY <1>6, <1>7, <1>8, <1>9 DEF IInv

LEMMA DecideInv == ASSUME NEW c \in Calls, IInv, Decide(c) PROVE IInv'
<1>1. /\ call[c].status = "replied"
      /\ UNCHANGED <<now, count, deadline, faults>>
      /\ call' = [call EXCEPT ![c].status = IF call[c].ticket <= Requests
                                            THEN "allowed" ELSE "denied"]
  BY DEF Decide
<1>2. TypeOK' /\ CallsInTime' /\ KeysOutlive'
  BY <1>1 DEF IInv, TypeOK, CallsInTime, KeysOutlive, Status, InFlight, Ticketed
<1>3. TicketsCounted' /\ UniqueTickets'
  BY <1>1 DEF IInv, TypeOK, TicketsCounted, UniqueTickets, InFlight, Ticketed
<1>4. QED  BY <1>2, <1>3 DEF IInv

LEMMA DisconnectInv == ASSUME NEW c \in Calls, IInv, Disconnect(c) PROVE IInv'
<1>1. PICK next \in {"clocked", "failedopen"} :
        call' = [call EXCEPT ![c] = [@ EXCEPT !.status = next, !.ticket = 0]]
  BY DEF Disconnect
<1>2. call[c].status \in InFlight /\ UNCHANGED <<now, count, deadline>>
  BY DEF Disconnect
<1>3. TypeOK'
  <2>1. faults' \in 0 .. MaxFaults
    BY BoundsAssumption DEF IInv, TypeOK, Disconnect
  <2>2. call' \in [Calls -> [status : Status, bucket : Buckets, at : 0 .. MaxTime, ticket : Nat]]
    BY <1>1 DEF IInv, TypeOK, Status, InFlight
  <2>3. QED  BY <1>2, <2>1, <2>2 DEF IInv, TypeOK
<1>4. CallsInTime' /\ KeysOutlive'
  BY <1>1, <1>2 DEF IInv, TypeOK, CallsInTime, KeysOutlive, InFlight, Ticketed
<1>5. TicketsCounted' /\ UniqueTickets'
  BY <1>1, <1>2 DEF IInv, TypeOK, TicketsCounted, UniqueTickets, InFlight, Ticketed
<1>6. QED  BY <1>3, <1>4, <1>5 DEF IInv

LEMMA TickInv == ASSUME IInv, Tick PROVE IInv'
<1>1. TypeOK' /\ KeysOutlive' /\ TicketsCounted' /\ UniqueTickets'
  BY BoundsAssumption
  DEF IInv, TypeOK, KeysOutlive, TicketsCounted, UniqueTickets, Tick
<1>2. CallsInTime'
  BY BoundsAssumption DEF IInv, TypeOK, CallsInTime, Tick
<1>3. QED  BY <1>1, <1>2 DEF IInv

LEMMA StutterInv == ASSUME IInv, UNCHANGED vars PROVE IInv'
BY DEF IInv, TypeOK, CallsInTime, KeysOutlive, TicketsCounted, UniqueTickets, vars

THEOREM Inductive == Spec => []IInv
<1>1. Init => IInv
  BY InitInv
<1>2. IInv /\ [Next]_vars => IInv'
  BY ArriveInv, IncrInv, ExpireInv, DecideInv, DisconnectInv, TickInv, StutterInv DEF Next
<1>3. QED  BY <1>1, <1>2, PTL DEF Spec

-----------------------------------------------------------------------------
(* What the invariant gives. *)

\* Every reachable state of the limiter is well typed.
THEOREM TypeCorrect == Spec => []TypeOK
<1>1. IInv => TypeOK
  BY DEF IInv
<1>2. QED  BY <1>1, Inductive, PTL

\* INCR never hands out the same count of a bucket twice, whatever expires
\* and however often the pipeline is sent again.
THEOREM TicketsAreUnique == Spec => []UniqueTickets
<1>1. IInv => UniqueTickets
  BY DEF IInv
<1>2. QED  BY <1>1, Inductive, PTL

\* A key with a TTL outlives every call that may still increment it.
THEOREM CounterIsKept == Spec => []CounterOutlivesBucket
<1>1. IInv => CounterOutlivesBucket
  <2> SUFFICES ASSUME IInv, NEW b \in Buckets,
                      count[b] > 0, now < (b + 1) * BucketTicks + MaxDelay
               PROVE  Live(b)
    BY DEF CounterOutlivesBucket
  <2>1. deadline[b] # NoTTL => deadline[b] >= (b + 1) * BucketTicks + MaxDelay
    BY DEF IInv, KeysOutlive
  <2>2. /\ now \in Int /\ deadline[b] \in Int
        /\ (b + 1) * BucketTicks + MaxDelay \in Int
    BY BucketTicksPositive, BoundsAssumption DEF IInv, TypeOK, Buckets
  <2>3. deadline[b] # NoTTL => now < deadline[b]
    BY <2>1, <2>2
  <2>4. QED  BY <2>3 DEF Live
<1>2. QED  BY <1>1, Inductive, PTL

\* The allowed calls of a bucket inject into 1 .. Requests by their tickets.
LEMMA AllowedBounded ==
  ASSUME IInv, ~Unlimited, NEW b \in Nat
  PROVE  /\ IsFiniteSet(AllowedIn(b))
         /\ Cardinality(AllowedIn(b)) <= Requests
         /\ Cardinality(AllowedIn(b)) \in Nat
<1> DEFINE A == AllowedIn(b)
           f == [c \in A |-> call[c].ticket]
<1>1. Requests \in Nat
  BY LimitAssumption DEF Unlimited
<1>2. \A c \in A : c \in Calls /\ call[c].status \in Ticketed /\ call[c].bucket = b
  BY DEF AllowedIn, Ticketed
<1>3. \A c \in A : call[c].ticket \in 1 .. Requests
  BY <1>1, <1>2 DEF IInv, TypeOK, TicketsCounted, AllowedIn
<1>4. \A c, d \in A : call[c].ticket = call[d].ticket => c = d
  BY <1>2 DEF IInv, UniqueTickets
<1> HIDE DEF A
<1>5. f \in Injection(A, 1 .. Requests)
  BY <1>3, <1>4 DEF Injection, IsInjective
<1>6. IsFiniteSet(1 .. Requests) /\ Cardinality(1 .. Requests) = Requests
  BY <1>1, FS_Interval
<1>7. IsFiniteSet(A) /\ Cardinality(A) <= Requests
  BY <1>5, <1>6, FS_Injection
<1>8. QED  BY <1>7, FS_CardinalityType DEF A

\* At most Requests metered calls of one bucket are let through.
THEOREM BucketIsLimited == Spec => []BucketLimit
<1>1. IInv => BucketLimit
  BY AllowedBounded DEF BucketLimit, Buckets
<1>2. QED  BY <1>1, Inductive, PTL

\* A stretch of one bucket length meets at most two buckets.
LEMMA TwoBuckets ==
  ASSUME NEW t \in Nat, NEW a \in Nat, t <= a, a < t + BucketTicks
  PROVE  BucketAt(a) = BucketAt(t) \/ BucketAt(a) = BucketAt(t) + 1
<1> DEFINE L == BucketTicks
           p == BucketAt(t)
           q == BucketAt(a)
<1>1. L \in Nat /\ L > 0
  BY BucketTicksPositive
<1>2. p \in Nat /\ p * L <= t /\ t < (p + 1) * L
  BY BucketBounds
<1>3. q \in Nat /\ q * L <= a /\ a < (q + 1) * L
  BY BucketBounds
<1> HIDE DEF L, p, q
<1>4. p * L < (q + 1) * L /\ q * L < (p + 1) * L + L
  BY <1>1, <1>2, <1>3, t <= a, a < t + L DEF L
<1>5. (p + 1) * L + L = (p + 2) * L
  BY <1>1, <1>2
<1>6. p < q + 1 /\ q < p + 2
  BY <1>1, <1>2, <1>3, <1>4, <1>5
<1>7. QED  BY <1>2, <1>3, <1>6 DEF p, q

\* In any stretch as long as the window at most twice the limit is let
\* through: the bound a fixed bucket has in place of a sliding window's.
THEOREM BurstIsBounded == Spec => []TwiceTheLimit
<1>1. IInv => TwiceTheLimit
  <2> SUFFICES ASSUME IInv, ~Unlimited, NEW t \in 0 .. MaxTime
               PROVE  Cardinality(AllowedDuring(t)) <= 2 * Requests
    BY DEF TwiceTheLimit
  <2> DEFINE A == AllowedIn(BucketAt(t))
             B == AllowedIn(BucketAt(t) + 1)
  <2>1. t \in Nat /\ BucketAt(t) \in Nat
    BY BucketBounds, BoundsAssumption
  <2>2. AllowedDuring(t) \subseteq A \cup B
    <3> SUFFICES ASSUME NEW c \in AllowedDuring(t)  PROVE c \in A \cup B
      OBVIOUS
    <3>1. /\ c \in Calls /\ call[c].status = "allowed"
          /\ t <= call[c].at /\ call[c].at < t + BucketTicks
      BY DEF AllowedDuring
    <3>2. call[c].at \in Nat /\ call[c].bucket = BucketAt(call[c].at)
      BY <3>1, BoundsAssumption DEF IInv, TypeOK, CallsInTime, Ticketed
    <3>3. call[c].bucket = BucketAt(t) \/ call[c].bucket = BucketAt(t) + 1
      BY <2>1, <3>1, <3>2, TwoBuckets
    <3>4. QED  BY <3>1, <3>3 DEF AllowedIn
  <2>3. /\ IsFiniteSet(A) /\ Cardinality(A) <= Requests /\ Cardinality(A) \in Nat
        /\ IsFiniteSet(B) /\ Cardinality(B) <= Requests /\ Cardinality(B) \in Nat
    BY <2>1, AllowedBounded
  <2> HIDE DEF A, B
  <2>4. /\ IsFiniteSet(A \cup B)
        /\ Cardinality(A \cup B) = Cardinality(A) + Cardinality(B) - Cardinality(A \cap B)
    BY <2>3, FS_Union
  <2>5. Cardinality(A \cap B) \in Nat
    BY <2>3, FS_Subset, FS_CardinalityType, A \cap B \subseteq A
  <2>6. /\ Cardinality(AllowedDuring(t)) <= Cardinality(A \cup B)
        /\ Cardinality(AllowedDuring(t)) \in Nat
    BY <2>2, <2>4, FS_Subset, FS_CardinalityType
  <2>7. Requests \in Int
    BY LimitAssumption
  <2>8. QED  BY <2>3, <2>4, <2>5, <2>6, <2>7
<1>2. QED  BY <1>1, Inductive, PTL

-----------------------------------------------------------------------------
(* Refusals.  A bucket is charged once for every call that has a ticket of *)
(* it, and at most once for every broken connection.                       *)

Holders(b) == {d \in Calls : call[d].status \in Ticketed /\ call[d].bucket = b}

Charged == \A b \in Buckets : count[b] <= Cardinality(Holders(b)) + faults

Refused == \A c \in Calls : call[c].status = "denied" => call[c].ticket > Requests

LEMMA HoldersFinite ==
  ASSUME NEW b
  PROVE  IsFiniteSet(Holders(b)) /\ Cardinality(Holders(b)) \in Nat
<1>1. Holders(b) \in SUBSET Calls
  BY DEF Holders
<1>2. QED  BY <1>1, CallsAssumption, FS_Subset, FS_CardinalityType

\* The steps after which the same calls have tickets of the same buckets.
LEMMA SameHolders ==
  ASSUME IInv, Charged, UNCHANGED <<count, faults>>,
         \A d \in Calls : /\ call'[d].status \in Ticketed <=> call[d].status \in Ticketed
                          /\ call[d].status \in Ticketed => call'[d].bucket = call[d].bucket
  PROVE  Charged'
<1>1. \A b \in Buckets : Holders(b)' = Holders(b)
  BY DEF Holders
<1>2. QED  BY <1>1 DEF Charged

LEMMA ArriveCharged == ASSUME NEW c \in Calls, IInv, Charged, Refused, Arrive(c) PROVE (Charged /\ Refused)'
<1>1. /\ call[c].status = "idle" /\ UNCHANGED <<count, faults>>
      /\ call'[c].status \in {"failedopen", "clocked"}
      /\ \A d \in Calls \ {c} : call'[d] = call[d]
  BY DEF IInv, TypeOK, Arrive
<1>2. Charged'
  BY <1>1, SameHolders DEF Ticketed
<1>3. Refused'
  BY <1>1 DEF Refused
<1>4. QED  BY <1>2, <1>3

LEMMA IncrCharged == ASSUME NEW c \in Calls, IInv, Charged, Refused, Incr(c) PROVE (Charged /\ Refused)'
<1> DEFINE b == call[c].bucket
           n == IF Live(b) THEN count[b] + 1 ELSE 1
<1>1. b \in Buckets /\ count[b] \in Nat /\ count \in [Buckets -> Nat] /\ faults \in Nat
  BY BoundsAssumption DEF IInv, TypeOK
<1>2. /\ n \in Nat /\ n <= count[b] + 1
      /\ count' = [count EXCEPT ![b] = n] /\ UNCHANGED faults
  BY <1>1 DEF Incr
<1>3. /\ call[c].status = "clocked"
      /\ call'[c].status = "incremented" /\ call'[c].bucket = b
      /\ \A d \in Calls \ {c} : call'[d] = call[d]
  BY DEF IInv, TypeOK, Incr
<1> HIDE DEF b, n
<1>4. ASSUME NEW x \in Buckets PROVE count'[x] <= Cardinality(Holders(x)') + faults
  <2>1. count[x] <= Cardinality(Holders(x)) + faults /\ IsFiniteSet(Holders(x))
        /\ Cardinality(Holders(x)) \in Nat /\ count[x] \in Nat
    BY <1>1, HoldersFinite DEF Charged
  <2>2. CASE x = b
    <3>1. Holders(x)' = Holders(x) \cup {c} /\ c \notin Holders(x)
      BY <1>3, <2>2 DEF Holders, Ticketed
    <3>2. Cardinality(Holders(x)') = Cardinality(Holders(x)) + 1
      BY <2>1, <3>1, FS_AddElement
    <3>3. count'[x] = n
      BY <1>1, <1>2, <2>2
    <3>4. QED  BY <1>1, <1>2, <2>1, <2>2, <3>2, <3>3
  <2>3. CASE x # b
    <3>1. Holders(x)' = Holders(x)
      BY <1>3, <2>3 DEF Holders, Ticketed
    <3>2. count'[x] = count[x]
      BY <1>1, <1>2, <2>3
    <3>3. QED  BY <2>1, <3>1, <3>2
  <2>4. QED  BY <2>2, <2>3
<1>5. Charged'
  BY <1>2, <1>4 DEF Charged
<1>6. Refused'
  BY <1>3 DEF Refused
<1>7. QED  BY <1>5, <1>6

LEMMA ExpireCharged == ASSUME NEW c \in Calls, IInv, Charged, Refused, Expire(c) PROVE (Charged /\ Refused)'
<1>1. /\ call[c].status = "incremented" /\ UNCHANGED <<count, faults>>
      /\ call'[c].status = "replied" /\ call'[c].bucket = call[c].bucket
      /\ \A d \in Calls \ {c} : call'[d] = call[d]
  BY DEF IInv, TypeOK, Expire
<1>2. Charged'
  BY <1>1, SameHolders DEF Ticketed
<1>3. Refused'
  BY <1>1 DEF Refused
<1>4. QED  BY <1>2, <1>3

LEMMA DecideCharged == ASSUME NEW c \in Calls, IInv, Charged, Refused, Decide(c) PROVE (Charged /\ Refused)'
<1> DEFINE verdict == IF call[c].ticket <= Requests THEN "allowed" ELSE "denied"
<1>1. /\ call[c].status = "replied" /\ UNCHANGED <<count, faults>>
      /\ call'[c].status = verdict /\ call'[c].bucket = call[c].bucket
      /\ call'[c].ticket = call[c].ticket
      /\ \A d \in Calls \ {c} : call'[d] = call[d]
  BY DEF IInv, TypeOK, Decide
<1>2. verdict \in {"allowed", "denied"} /\ (verdict = "denied" => ~(call[c].ticket <= Requests))
  OBVIOUS
<1> HIDE DEF verdict
<1>3. Charged'
  BY <1>1, <1>2, SameHolders DEF Ticketed
<1>4. call[c].ticket \in Nat /\ Requests \in Int
  BY LimitAssumption DEF IInv, TypeOK
<1>5. Refused'
  BY <1>1, <1>2, <1>4 DEF Refused
<1>6. QED  BY <1>3, <1>5

\* The call loses its ticket, or never had one: the fault makes up for it.
LEMMA DisconnectCharged ==
  ASSUME NEW c \in Calls, IInv, Charged, Refused, Disconnect(c) PROVE (Charged /\ Refused)'
<1>1. /\ call'[c].status \in {"clocked", "failedopen"}
      /\ \A d \in Calls \ {c} : call'[d] = call[d]
      /\ UNCHANGED count /\ faults' = faults + 1
      /\ faults \in Nat /\ count \in [Buckets -> Nat]
  BY BoundsAssumption DEF IInv, TypeOK, Disconnect
<1>2. ASSUME NEW x \in Buckets PROVE count[x] <= Cardinality(Holders(x)') + faults'
  <2>1. Holders(x)' = Holders(x) \ {c}
    BY <1>1 DEF Holders, Ticketed
  <2>2. /\ count[x] <= Cardinality(Holders(x)) + faults /\ IsFiniteSet(Holders(x))
        /\ Cardinality(Holders(x)) \in Nat /\ count[x] \in Nat
    BY <1>1, HoldersFinite DEF Charged
  <2>3. \/ Cardinality(Holders(x)') = Cardinality(Holders(x)) - 1
        \/ Cardinality(Holders(x)') = Cardinality(Holders(x))
    BY <2>1, <2>2, FS_RemoveElement
  <2>4. QED  BY <1>1, <2>2, <2>3
<1>3. Charged'
  BY <1>1, <1>2 DEF Charged
<1>4. Refused'
  BY <1>1 DEF Refused
<1>5. QED  BY <1>3, <1>4

LEMMA ChargesHold == Spec => [](Charged /\ Refused)
<1>1. Init => Charged /\ Refused
  <2> SUFFICES ASSUME Init PROVE Charged /\ Refused
    OBVIOUS
  <2>1. faults = 0 /\ (\A b \in Buckets : count[b] = 0) /\ \A c \in Calls : call[c].status = "idle"
    BY DEF Init
  <2>2. Charged
    BY <2>1, HoldersFinite DEF Charged
  <2>3. QED  BY <2>1, <2>2 DEF Refused
<1>2. IInv /\ Charged /\ Refused /\ [Next]_vars => (Charged /\ Refused)'
  <2> SUFFICES ASSUME IInv, Charged, Refused, [Next]_vars PROVE (Charged /\ Refused)'
    OBVIOUS
  <2>1. CASE Tick \/ UNCHANGED vars
    <3>1. UNCHANGED <<count, call, faults>>
      BY <2>1 DEF Tick, vars
    <3>2. QED  BY <3>1, SameHolders DEF Refused
  <2>2. ASSUME NEW c \in Calls, Arrive(c) \/ Incr(c) \/ Expire(c) \/ Decide(c) \/ Disconnect(c)
        PROVE  (Charged /\ Refused)'
    BY <2>2, ArriveCharged, IncrCharged, ExpireCharged, DecideCharged, DisconnectCharged
  <2>3. QED  BY <2>1, <2>2 DEF Next
<1>3. QED  BY <1>1, <1>2, Inductive, PTL DEF Spec

\* Check refuses a call only when its bucket was charged more than Requests
\* times: once by each of its calls, and by what broken connections left.
THEOREM RefusalIsEarned == Spec => []NoEarlyRefusal
<1>1. IInv /\ Charged /\ Refused => NoEarlyRefusal
  <2> SUFFICES ASSUME IInv, Charged, Refused, NEW c \in Calls, call[c].status = "denied"
               PROVE  Cardinality({d \in Calls : call[d].status # "idle"
                                                 /\ call[d].bucket = call[c].bucket})
                        + faults > Requests
    BY DEF NoEarlyRefusal
  <2> DEFINE b    == call[c].bucket
             came == {d \in Calls : call[d].status # "idle" /\ call[d].bucket = b}
  <2>1. /\ b \in Buckets /\ call[c].ticket \in Nat /\ count[b] \in Nat /\ faults \in Nat
        /\ Requests \in Int
    BY BoundsAssumption, LimitAssumption DEF IInv, TypeOK
  <2>2. call[c].ticket > Requests /\ call[c].ticket <= count[b]
    BY DEF Refused, IInv, TicketsCounted, Ticketed
  <2>3. count[b] <= Cardinality(Holders(b)) + faults /\ Cardinality(Holders(b)) \in Nat
    BY <2>1, HoldersFinite DEF Charged
  <2>4. Cardinality(Holders(b)) <= Cardinality(came) /\ Cardinality(came) \in Nat
    <3>1. came \in SUBSET Calls /\ Holders(b) \in SUBSET came
      BY DEF Holders, Ticketed
    <3>2. QED  BY <3>1, CallsAssumption, FS_Subset, FS_CardinalityType
  <2> HIDE DEF b, came
  <2>5. Cardinality(came) + faults > Requests
    BY <2>1, <2>2, <2>3, <2>4
  <2>6. QED  BY <2>5 DEF b, came
<1>2. QED  BY <1>1, Inductive, ChargesHold, PTL

-----------------------------------------------------------------------------
(* The refinement.  A charge is the step of INCR; EXPIRE, the clock and a  *)
(* break that comes before INCR are invisible.                             *)

Seen == <<count, Standings, BucketsOf, Tickets>>

LEMMA StandingOf ==
  /\ Standing("idle") = "idle" /\ Standing("clocked") = "waiting"
  /\ Standing("incremented") = "charged" /\ Standing("replied") = "charged"
  /\ Standing("allowed") = "allowed" /\ Standing("denied") = "denied"
  /\ Standing("failedopen") = "unmetered"
BY DEF Standing

\* What the promise sees of a call, and of a step that changes one call.
LEMMA SeenOf ==
  ASSUME NEW c \in Calls
  PROVE  /\ Standings[c] = Standing(call[c].status)
         /\ BucketsOf[c] = call[c].bucket /\ Tickets[c] = call[c].ticket
         /\ [BucketsOf EXCEPT ![c] = call[c].bucket] = BucketsOf
         /\ [Tickets EXCEPT ![c] = call[c].ticket] = Tickets
BY DEF Standings, BucketsOf, Tickets

Becomes(c, standing, bucket, ticket) ==
  /\ Standings' = [Standings EXCEPT ![c] = standing]
  /\ BucketsOf' = [BucketsOf EXCEPT ![c] = bucket]
  /\ Tickets' = [Tickets EXCEPT ![c] = ticket]

LEMMA SeenChanges ==
  ASSUME TypeOK, NEW c \in Calls, NEW new, call' = [call EXCEPT ![c] = new]
  PROVE  Becomes(c, Standing(new.status), new.bucket, new.ticket)
<1>1. call'[c] = new /\ \A d \in Calls : d # c => call'[d] = call[d]
  BY DEF TypeOK
<1> DEFINE standing == Standing(new.status)
           bucket   == new.bucket
           ticket   == new.ticket
<1>2. \A d \in Calls :
        /\ Standings'[d] = IF d = c THEN standing ELSE Standings[d]
        /\ BucketsOf'[d] = IF d = c THEN bucket ELSE BucketsOf[d]
        /\ Tickets'[d] = IF d = c THEN ticket ELSE Tickets[d]
  BY <1>1 DEF Standings, BucketsOf, Tickets
<1>3. /\ Standings = [d \in Calls |-> Standings[d]] /\ Standings' = [d \in Calls |-> Standings'[d]]
      /\ BucketsOf = [d \in Calls |-> BucketsOf[d]] /\ BucketsOf' = [d \in Calls |-> BucketsOf'[d]]
      /\ Tickets = [d \in Calls |-> Tickets[d]] /\ Tickets' = [d \in Calls |-> Tickets'[d]]
  BY DEF Standings, BucketsOf, Tickets
<1> HIDE DEF standing, bucket, ticket
<1>4. Becomes(c, standing, bucket, ticket)
  BY <1>2, <1>3 DEF Becomes
<1>5. QED  BY <1>4 DEF standing, bucket, ticket

LEMMA ArriveRefines == ASSUME IInv, NEW c \in Calls, Arrive(c) PROVE Limiter!Next
<1>1. TypeOK /\ call[c] \in [status : Status, bucket : Buckets, at : 0 .. MaxTime, ticket : Nat]
  BY DEF IInv, TypeOK
<1>2. call[c].status = "idle" /\ UNCHANGED count /\ call[c].ticket = 0
  BY DEF Arrive, IInv, TicketsCounted
<1>3. Standings[c] = "idle"
  BY <1>2, StandingOf, SeenOf
<1>4. CASE Unlimited
  <2> DEFINE new == [call[c] EXCEPT !.status = "failedopen", !.at = now]
  <2>1. call' = [call EXCEPT ![c] = new]
    BY <1>4 DEF Arrive
  <2>2. new.status = "failedopen" /\ new.bucket = call[c].bucket /\ new.ticket = 0
    BY <1>1, <1>2
  <2> HIDE DEF new
  <2>3. /\ Standings' = [Standings EXCEPT ![c] = "unmetered"]
        /\ Tickets' = [Tickets EXCEPT ![c] = 0] /\ BucketsOf' = BucketsOf
    <3>1. Becomes(c, Standing(new.status), new.bucket, new.ticket)
      BY <1>1, <2>1, SeenChanges
    <3>2. QED  BY <1>2, <2>2, <3>1, StandingOf, SeenOf DEF Becomes
  <2>4. Limiter!FailOpen(c)
    BY <1>2, <1>3, <2>3 DEF Limiter!FailOpen
  <2>5. QED  BY <2>4 DEF Limiter!Next
<1>5. CASE ~Unlimited
  <2> DEFINE b == BucketAt(now)
             new == [call[c] EXCEPT !.status = "clocked", !.bucket = b, !.at = now]
  <2>1. call' = [call EXCEPT ![c] = new]
    BY <1>5 DEF Arrive
  <2>2. new.status = "clocked" /\ new.bucket = b /\ new.ticket = call[c].ticket
    BY <1>1
  <2> HIDE DEF new
  <2>3. b \in Buckets
    <3>1. now \in Nat /\ now <= MaxTime /\ MaxTime \in Nat
      BY <1>1, BoundsAssumption DEF TypeOK
    <3>2. BucketAt(now) \in Nat /\ BucketAt(now) <= now
      BY <3>1, BucketBounds
    <3>3. QED  BY <3>1, <3>2 DEF Buckets
  <2> HIDE DEF b
  <2>4. /\ Standings' = [Standings EXCEPT ![c] = "waiting"]
        /\ BucketsOf' = [BucketsOf EXCEPT ![c] = b] /\ Tickets' = Tickets
    <3>1. Becomes(c, Standing(new.status), new.bucket, new.ticket)
      BY <1>1, <2>1, SeenChanges
    <3>2. QED  BY <1>2, <2>2, <3>1, StandingOf, SeenOf DEF Becomes
  <2>5. Limiter!Enter(c, b)
    BY <1>2, <1>3, <2>4 DEF Limiter!Enter
  <2>6. QED  BY <2>3, <2>5 DEF Limiter!Next
<1>6. QED  BY <1>4, <1>5

\* The one step that needs the invariant: the key of a call in flight is
\* there, or nobody has charged the bucket yet.
LEMMA IncrRefines == ASSUME IInv, NEW c \in Calls, Incr(c) PROVE Limiter!Next
<1> DEFINE b == call[c].bucket
           n == IF Live(b) THEN count[b] + 1 ELSE 1
           new == [call[c] EXCEPT !.status = "incremented", !.ticket = n]
<1>1. /\ TypeOK /\ b \in Buckets /\ count[b] \in Nat
      /\ call[c] \in [status : Status, bucket : Buckets, at : 0 .. MaxTime, ticket : Nat]
  BY DEF IInv, TypeOK
<1>2. /\ call[c].status = "clocked" /\ count' = [count EXCEPT ![b] = n]
      /\ call' = [call EXCEPT ![c] = new]
  BY DEF Incr
<1>3. n = count[b] + 1
  BY <1>1, <1>2, InFlightKeyLive DEF InFlight
<1> HIDE DEF n
<1>4. new.status = "incremented" /\ new.bucket = b /\ new.ticket = n
  BY <1>1
<1> HIDE DEF new
<1>5. /\ Standings' = [Standings EXCEPT ![c] = "charged"]
      /\ Tickets' = [Tickets EXCEPT ![c] = n] /\ BucketsOf' = BucketsOf
  <2>1. Becomes(c, Standing(new.status), new.bucket, new.ticket)
    BY <1>1, <1>2, SeenChanges
  <2>2. QED  BY <1>4, <2>1, StandingOf, SeenOf DEF Becomes
<1>6. Standings[c] = "waiting" /\ BucketsOf[c] = b
  BY <1>2, StandingOf, SeenOf
<1> HIDE DEF b
<1>7. Limiter!Charge(c)
  BY <1>2, <1>3, <1>5, <1>6 DEF Limiter!Charge
<1>8. QED  BY <1>7 DEF Limiter!Next

LEMMA ExpireRefines == ASSUME IInv, NEW c \in Calls, Expire(c) PROVE UNCHANGED Seen
<1> DEFINE new == [call[c] EXCEPT !.status = "replied"]
<1>1. TypeOK /\ call[c] \in [status : Status, bucket : Buckets, at : 0 .. MaxTime, ticket : Nat]
  BY DEF IInv, TypeOK
<1>2. call[c].status = "incremented" /\ UNCHANGED count /\ call' = [call EXCEPT ![c] = new]
  BY DEF Expire
<1>3. new.status = "replied" /\ new.bucket = call[c].bucket /\ new.ticket = call[c].ticket
  BY <1>1
<1> HIDE DEF new
<1>4. /\ Standings' = [Standings EXCEPT ![c] = "charged"]
      /\ Tickets' = Tickets /\ BucketsOf' = BucketsOf
  <2>1. Becomes(c, Standing(new.status), new.bucket, new.ticket)
    BY <1>1, <1>2, SeenChanges
  <2>2. QED  BY <1>3, <2>1, StandingOf, SeenOf DEF Becomes
<1>5. Standings[c] = "charged"
  BY <1>2, StandingOf, SeenOf
<1>6. QED  BY <1>2, <1>4, <1>5 DEF Seen, Standings

LEMMA DecideRefines == ASSUME IInv, NEW c \in Calls, Decide(c) PROVE Limiter!Next
<1> DEFINE verdict == IF call[c].ticket <= Requests THEN "allowed" ELSE "denied"
           new == [call[c] EXCEPT !.status = verdict]
<1>1. TypeOK /\ call[c] \in [status : Status, bucket : Buckets, at : 0 .. MaxTime, ticket : Nat]
  BY DEF IInv, TypeOK
<1>2. call[c].status = "replied" /\ UNCHANGED count /\ call' = [call EXCEPT ![c] = new]
  BY DEF Decide
<1>3. Standing(verdict) = verdict
  BY StandingOf
<1>4. new.status = verdict /\ new.bucket = call[c].bucket /\ new.ticket = call[c].ticket
  BY <1>1
<1> HIDE DEF new
<1>5. Standings[c] = "charged" /\ Tickets[c] = call[c].ticket
  BY <1>2, StandingOf, SeenOf
<1>6. verdict = IF Tickets[c] <= Requests THEN "allowed" ELSE "denied"
  BY <1>5
<1> HIDE DEF verdict
<1>7. /\ Standings' = [Standings EXCEPT ![c] = verdict]
      /\ Tickets' = Tickets /\ BucketsOf' = BucketsOf
  <2>1. Becomes(c, Standing(new.status), new.bucket, new.ticket)
    BY <1>1, <1>2, SeenChanges
  <2>2. QED  BY <1>3, <1>4, <2>1, SeenOf DEF Becomes
<1>8. Limiter!Decide(c)
  BY <1>2, <1>5, <1>6, <1>7 DEF Limiter!Decide
<1>9. QED  BY <1>8 DEF Limiter!Next

LEMMA DisconnectRefines ==
  ASSUME IInv, NEW c \in Calls, Disconnect(c)
  PROVE  Limiter!Next \/ UNCHANGED Seen
<1>1. TypeOK /\ call[c] \in [status : Status, bucket : Buckets, at : 0 .. MaxTime, ticket : Nat]
  BY DEF IInv, TypeOK
<1>2. PICK next \in {"clocked", "failedopen"} :
        call' = [call EXCEPT ![c] = [call[c] EXCEPT !.status = next, !.ticket = 0]]
  BY DEF Disconnect
<1> DEFINE new == [call[c] EXCEPT !.status = next, !.ticket = 0]
<1>3. call[c].status \in {"clocked", "incremented", "replied"} /\ UNCHANGED count
  BY DEF Disconnect, InFlight
<1>4. new.status = next /\ new.bucket = call[c].bucket /\ new.ticket = 0
  BY <1>1
<1>5. call' = [call EXCEPT ![c] = new]
  BY <1>2
<1> HIDE DEF new
<1>6. /\ Standings' = [Standings EXCEPT ![c] = Standing(next)]
      /\ Tickets' = [Tickets EXCEPT ![c] = 0] /\ BucketsOf' = BucketsOf
  <2>1. Becomes(c, Standing(new.status), new.bucket, new.ticket)
    BY <1>1, <1>5, SeenChanges
  <2>2. QED  BY <1>4, <2>1, SeenOf DEF Becomes
<1>7. CASE next = "failedopen"
  <2>1. Standings[c] \in {"waiting", "charged"}
    BY <1>3, StandingOf, SeenOf
  <2>2. Limiter!FailOpen(c)
    BY <1>3, <1>6, <1>7, <2>1, StandingOf DEF Limiter!FailOpen
  <2>3. QED  BY <2>2 DEF Limiter!Next
<1>8. CASE next = "clocked" /\ call[c].status # "clocked"
  <2>1. Standings[c] = "charged"
    BY <1>3, <1>8, StandingOf, SeenOf
  <2>2. Limiter!Retry(c)
    BY <1>3, <1>6, <1>8, <2>1, StandingOf DEF Limiter!Retry
  <2>3. QED  BY <2>2 DEF Limiter!Next
<1>9. CASE next = "clocked" /\ call[c].status = "clocked"
  <2>1. call[c].ticket = 0
    BY <1>9 DEF IInv, TicketsCounted
  <2>2. Standings[c] = Standing(next) /\ Tickets[c] = 0
    BY <1>9, <2>1, SeenOf
  <2>3. Standings' = Standings /\ Tickets' = Tickets
    BY <1>6, <2>2 DEF Standings, Tickets
  <2>4. QED  BY <1>3, <1>6, <2>3 DEF Seen
<1>10. QED  BY <1>7, <1>8, <1>9

\* Check over Redis implements the limiter that charges a counter per bucket
\* in one step: pipelines that interleave, keys that expire, and pipelines
\* that are sent again cannot be told from it.
THEOREM LimiterIsAtomic == Spec => ImplementsLimiter
<1>1. Init => Limiter!Init
  <2> SUFFICES ASSUME Init PROVE Limiter!Init
    OBVIOUS
  <2>1. \A c \in Calls : call[c].status = "idle" /\ call[c].bucket = 0 /\ call[c].ticket = 0
    BY DEF Init
  <2>2. /\ Standings = [c \in Calls |-> "idle"]
        /\ BucketsOf = [c \in Calls |-> 0] /\ Tickets = [c \in Calls |-> 0]
    BY <2>1, StandingOf DEF Standings, BucketsOf, Tickets
  <2>3. count = [b \in Buckets |-> 0]
    BY DEF Init
  <2>4. QED  BY <2>2, <2>3 DEF Limiter!Init
<1>2. IInv /\ [Next]_vars => [Limiter!Next]_Seen
  <2> SUFFICES ASSUME IInv, [Next]_vars PROVE Limiter!Next \/ UNCHANGED Seen
    BY DEF Seen
  <2>1. CASE Tick \/ UNCHANGED vars
    BY <2>1 DEF Tick, vars, Seen, Standings, BucketsOf, Tickets
  <2>2. ASSUME NEW c \in Calls, Arrive(c) \/ Incr(c) \/ Expire(c) \/ Decide(c) \/ Disconnect(c)
        PROVE  Limiter!Next \/ UNCHANGED Seen
    BY <2>2, ArriveRefines, IncrRefines, ExpireRefines, DecideRefines, DisconnectRefines
  <2>3. QED  BY <2>1, <2>2 DEF Next
<1>3. QED  BY <1>1, <1>2, Inductive, PTL DEF Spec, ImplementsLimiter, Limiter!Spec, Limiter!vars, Seen
=============================================================================
