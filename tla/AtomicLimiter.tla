--------------------------- MODULE AtomicLimiter ---------------------------
(***************************************************************************)
(* What Limiter.Check (internal/ratelimit/limiter.go) promises, with no    *)
(* mention of Redis, its clock or its pipelines: one counter per bucket,   *)
(* charged in a single step and never dropped.  A call is let through when *)
(* its own charge is among the first Requests of its bucket.  A broken     *)
(* connection may cost a second charge, or let the call through unmetered. *)
(***************************************************************************)
EXTENDS Naturals

CONSTANTS Calls, Requests, Buckets

VARIABLES
  charged,   \* charged[b]: how often bucket b was charged, ever
  standing,  \* standing[c]: where call c stands
  bucket,    \* bucket[c]: the bucket it came in
  ticket     \* ticket[c]: which charge of that bucket was its own

vars == <<charged, standing, bucket, ticket>>

Init ==
  /\ charged = [b \in Buckets |-> 0]
  /\ standing = [c \in Calls |-> "idle"]
  /\ bucket = [c \in Calls |-> 0]
  /\ ticket = [c \in Calls |-> 0]

Enter(c, b) ==
  /\ standing[c] = "idle"
  /\ standing' = [standing EXCEPT ![c] = "waiting"]
  /\ bucket' = [bucket EXCEPT ![c] = b]
  /\ UNCHANGED <<charged, ticket>>

Charge(c) ==
  LET n == charged[bucket[c]] + 1
  IN  /\ standing[c] = "waiting"
      /\ standing' = [standing EXCEPT ![c] = "charged"]
      /\ charged' = [charged EXCEPT ![bucket[c]] = n]
      /\ ticket' = [ticket EXCEPT ![c] = n]
      /\ UNCHANGED bucket

Decide(c) ==
  /\ standing[c] = "charged"
  /\ standing' = [standing EXCEPT ![c] = IF ticket[c] <= Requests THEN "allowed" ELSE "denied"]
  /\ UNCHANGED <<charged, bucket, ticket>>

\* The charge stays, the call forgets it.
Retry(c) ==
  /\ standing[c] = "charged"
  /\ standing' = [standing EXCEPT ![c] = "waiting"]
  /\ ticket' = [ticket EXCEPT ![c] = 0]
  /\ UNCHANGED <<charged, bucket>>

FailOpen(c) ==
  /\ standing[c] \in {"idle", "waiting", "charged"}
  /\ standing' = [standing EXCEPT ![c] = "unmetered"]
  /\ ticket' = [ticket EXCEPT ![c] = 0]
  /\ UNCHANGED <<charged, bucket>>

Next ==
  \E c \in Calls :
    \/ \E b \in Buckets : Enter(c, b)
    \/ Charge(c) \/ Decide(c) \/ Retry(c) \/ FailOpen(c)

Spec == Init /\ [][Next]_vars
=============================================================================
