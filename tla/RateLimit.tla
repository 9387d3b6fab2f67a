----------------------------- MODULE RateLimit -----------------------------
(***************************************************************************)
(* The per-project rate limiter of the gateway: internal/ratelimit         *)
(* (Limiter.Check) over internal/storage/redis (Client.                    *)
(* IncrementWithExpiry), for one scope and id.  Each id has keys of its    *)
(* own, so the limiter of one id never touches the state of another.       *)
(*                                                                         *)
(* A call of Check reads the clock, derives the bucket, and sends INCR and *)
(* EXPIRE in one pipeline.  A pipeline is not a transaction: commands of   *)
(* other connections run between the two, and the connection can break     *)
(* before, between or after them.  go-redis may then run the pipeline      *)
(* again; when it gives up, Check fails open.                              *)
(*                                                                         *)
(* Time is counted in ticks, TicksPerSecond of them in a second.  The      *)
(* clock of the gateway and the clock Redis expires keys by are the same.  *)
(***************************************************************************)
EXTENDS Integers, FiniteSets

CONSTANTS
  Calls,            \* the calls of Check, by however many gateway goroutines
  Requests,         \* Limit.Requests
  Window,           \* Limit.Window, in ticks
  TicksPerSecond,
  FallbackSeconds,  \* the 60 of limiter.go, used for a window under a second
  MaxDelay,         \* ticks between a call's clock read and its last command
  CacheConfigured,  \* Limiter.cache # nil
  MaxTime,          \* bound of the model on the clock
  MaxFaults         \* bound of the model on broken connections

ASSUME CallsAssumption   == IsFiniteSet(Calls)
ASSUME LimitAssumption   == Requests \in Int /\ Window \in Nat
ASSUME ClockAssumption   == TicksPerSecond \in Nat \ {0} /\ FallbackSeconds \in Nat \ {0}
ASSUME BoundsAssumption  == MaxDelay \in Nat /\ MaxTime \in Nat /\ MaxFaults \in Nat
ASSUME CacheAssumption   == CacheConfigured \in BOOLEAN

-----------------------------------------------------------------------------
(* The arithmetic of Check. *)

WindowSeconds == IF Window \div TicksPerSecond > 0
                 THEN Window \div TicksPerSecond
                 ELSE FallbackSeconds

BucketTicks == WindowSeconds * TicksPerSecond

\* Mutant: the key carries a product instead of the quotient.
BucketAt_Product(t) == t * BucketTicks

BucketAt(t) == t \div BucketTicks

\* EXPIRE takes whole seconds; go-redis sends 1 for less than one second.
TTLTicks == LET seconds == (2 * Window) \div TicksPerSecond
            IN  (IF seconds > 0 THEN seconds ELSE 1) * TicksPerSecond

\* limit.Requests <= 0 || limit.Window <= 0, or no Redis client.
Unlimited == Requests <= 0 \/ Window <= 0 \/ ~CacheConfigured

Buckets == 0 .. MaxTime

\* A key lives for the bucket and as long as a late call may still touch it.
ASSUME TTLAssumption == ~Unlimited => TTLTicks >= BucketTicks + MaxDelay

-----------------------------------------------------------------------------
VARIABLES
  now,
  count,      \* count[b]: the integer stored under the key of bucket b
  deadline,   \* deadline[b]: when Redis drops that key, NoTTL if never
  call,       \* call[c]: where call c of Check stands
  faults      \* connections broken so far

vars == <<now, count, deadline, call, faults>>

NoTTL == -1

Live(b) == count[b] > 0 /\ (deadline[b] = NoTTL \/ now < deadline[b])

InFlight == {"clocked", "incremented", "replied"}
Ticketed == {"incremented", "replied", "allowed", "denied"}
Status   == {"idle", "failedopen"} \cup InFlight \cup Ticketed

TypeOK ==
  /\ now \in 0 .. MaxTime
  /\ count \in [Buckets -> Nat]
  /\ deadline \in [Buckets -> Int]
  /\ call \in [Calls -> [status : Status, bucket : Buckets, at : 0 .. MaxTime, ticket : Nat]]
  /\ faults \in 0 .. MaxFaults

Init ==
  /\ now = 0
  /\ count = [b \in Buckets |-> 0]
  /\ deadline = [b \in Buckets |-> NoTTL]
  /\ call = [c \in Calls |-> [status |-> "idle", bucket |-> 0, at |-> 0, ticket |-> 0]]
  /\ faults = 0

-----------------------------------------------------------------------------
(* Check up to the pipeline: the early returns, or the clock and the key.  *)
Arrive(c) ==
  /\ call[c].status = "idle"
  /\ call' = [call EXCEPT ![c] =
                IF Unlimited
                THEN [@ EXCEPT !.status = "failedopen", !.at = now]
                ELSE [@ EXCEPT !.status = "clocked", !.bucket = BucketAt(now), !.at = now]]
  /\ UNCHANGED <<now, count, deadline, faults>>

\* Mutant: a key that has no TTL yet is taken for a leftover and restarted.
Incr_RestartsUnexpiring(c) ==
  LET b == call[c].bucket
      n == IF Live(b) /\ deadline[b] # NoTTL THEN count[b] + 1 ELSE 1
  IN  /\ call[c].status = "clocked"
      /\ count' = [count EXCEPT ![b] = n]
      /\ call' = [call EXCEPT ![c] = [@ EXCEPT !.status = "incremented", !.ticket = n]]
      /\ UNCHANGED <<now, deadline, faults>>

(* INCR: a key that is absent or expired starts again from zero, no TTL.   *)
Incr(c) ==
  LET b == call[c].bucket
      n == IF Live(b) THEN count[b] + 1 ELSE 1
  IN  /\ call[c].status = "clocked"
      /\ count' = [count EXCEPT ![b] = n]
      /\ deadline' = [deadline EXCEPT ![b] = IF Live(b) THEN @ ELSE NoTTL]
      /\ call' = [call EXCEPT ![c] = [@ EXCEPT !.status = "incremented", !.ticket = n]]
      /\ UNCHANGED <<now, faults>>

\* Mutant: the TTL is one window, so the key can go before its last call.
Expire_OneWindow(c) ==
  LET b == call[c].bucket
  IN  /\ call[c].status = "incremented"
      /\ deadline' = [deadline EXCEPT ![b] = IF Live(b) THEN now + Window ELSE @]
      /\ call' = [call EXCEPT ![c].status = "replied"]
      /\ UNCHANGED <<now, count, faults>>

(* EXPIRE: runs on every call, whether or not the key is new; on an absent *)
(* key it does nothing.                                                    *)
Expire(c) ==
  LET b == call[c].bucket
  IN  /\ call[c].status = "incremented"
      /\ deadline' = [deadline EXCEPT ![b] = IF Live(b) THEN now + TTLTicks ELSE @]
      /\ call' = [call EXCEPT ![c].status = "replied"]
      /\ UNCHANGED <<now, count, faults>>

\* Mutants: the comparison is off by one, either way.
Decide_OneMore(c) ==
  /\ call[c].status = "replied"
  /\ call' = [call EXCEPT ![c].status = IF call[c].ticket - 1 <= Requests
                                        THEN "allowed" ELSE "denied"]
  /\ UNCHANGED <<now, count, deadline, faults>>

Decide_OneFewer(c) ==
  /\ call[c].status = "replied"
  /\ call' = [call EXCEPT ![c].status = IF call[c].ticket < Requests
                                        THEN "allowed" ELSE "denied"]
  /\ UNCHANGED <<now, count, deadline, faults>>

(* The replies arrive and Check compares the count with the limit.         *)
Decide(c) ==
  /\ call[c].status = "replied"
  /\ call' = [call EXCEPT ![c].status = IF call[c].ticket <= Requests
                                        THEN "allowed" ELSE "denied"]
  /\ UNCHANGED <<now, count, deadline, faults>>

(* The connection breaks; what Redis has executed stays executed.  go-redis*)
(* sends the whole pipeline again, or Check gets the error and fails open. *)
Disconnect(c) ==
  /\ call[c].status \in InFlight
  /\ faults < MaxFaults
  /\ faults' = faults + 1
  /\ \E next \in {"clocked", "failedopen"} :
       call' = [call EXCEPT ![c] = [@ EXCEPT !.status = next, !.ticket = 0]]
  /\ UNCHANGED <<now, count, deadline>>

(* Time passes, but a call in flight completes or fails within MaxDelay:   *)
(* the timeouts of the Redis client and of the HTTP request see to it.     *)
Tick ==
  /\ now < MaxTime
  /\ \A c \in Calls : call[c].status \in InFlight => now < call[c].at + MaxDelay
  /\ now' = now + 1
  /\ UNCHANGED <<count, deadline, call, faults>>

Next ==
  \/ \E c \in Calls : Arrive(c) \/ Incr(c) \/ Expire(c) \/ Decide(c) \/ Disconnect(c)
  \/ Tick

Spec == Init /\ [][Next]_vars

-----------------------------------------------------------------------------
(* Properties.  Calls that failed open are not counted by any of them: the *)
(* code lets them through unmetered on purpose.                            *)

AllowedIn(b) == {c \in Calls : call[c].status = "allowed" /\ call[c].bucket = b}

AllowedDuring(t) ==
  {c \in Calls : call[c].status = "allowed" /\ t <= call[c].at /\ call[c].at < t + BucketTicks}

\* At most Requests metered calls of one bucket are let through.
BucketLimit == ~Unlimited => \A b \in Buckets : Cardinality(AllowedIn(b)) <= Requests

\* The fixed bucket admits bursts on both sides of its boundary: in any
\* stretch as long as the window at most twice the limit is let through.
TwiceTheLimit ==
  ~Unlimited => \A t \in 0 .. MaxTime : Cardinality(AllowedDuring(t)) <= 2 * Requests

\* A call is refused only when its bucket really received more than
\* Requests increments: those of its calls, and those a broken connection
\* left behind.
NoEarlyRefusal ==
  \A c \in Calls :
    call[c].status = "denied" =>
      Cardinality({d \in Calls : call[d].status # "idle" /\ call[d].bucket = call[c].bucket})
        + faults > Requests

\* Redis never drops the counter of a bucket that a call may still
\* increment: the key outlives the bucket by the longest delay of a call.
CounterOutlivesBucket ==
  \A b \in Buckets :
    count[b] > 0 /\ now < (b + 1) * BucketTicks + MaxDelay => Live(b)

\* What the package comment promises: a sliding window.  Violated, see the
\* README.
SlidingWindow == \A t \in 0 .. MaxTime : Cardinality(AllowedDuring(t)) <= Requests

-----------------------------------------------------------------------------
(* The promise. *)

\* Where a call stands, for a client that does not see Redis.
Standing(status) ==
  CASE status = "clocked" -> "waiting"
    [] status \in {"incremented", "replied"} -> "charged"
    [] status = "failedopen" -> "unmetered"
    [] OTHER -> status

Standings  == [c \in Calls |-> Standing(call[c].status)]
BucketsOf  == [c \in Calls |-> call[c].bucket]
Tickets    == [c \in Calls |-> call[c].ticket]

Limiter == INSTANCE AtomicLimiter WITH
  charged <- count, standing <- Standings, bucket <- BucketsOf, ticket <- Tickets

\* INCR and EXPIRE are two commands that others interleave with, and Redis
\* drops keys: calls of Check see none of it.  The limiter is one that
\* charges a counter per bucket in a single step and never drops it, so that
\* no two charges of a bucket get the same count.
ImplementsLimiter == Limiter!Spec
=============================================================================
