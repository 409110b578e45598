----------------------------- MODULE RateLimiter -----------------------------
(***************************************************************************)
(* The token buckets of the HTTP API, one per client address, in the       *)
(* memory of one server process.  Time goes in ticks, Ticks to the second; *)
(* a token is TokenUnits units, so that a tick refills a whole number of   *)
(* them (the code counts in floats, whose rounding is left out).           *)
(***************************************************************************)
EXTENDS Integers, SequencesExt

CONSTANTS
  IPs,          \* client addresses, "unknown" like any other
  MaxRequests,  \* max_requests: the capacity
  Window,       \* window_seconds
  Ticks,        \* ticks to the second
  MaxTime       \* bound: the clock

ASSUME RateLimiterAssumption == {MaxRequests, Window, Ticks, MaxTime} \subseteq Nat \ {0}

VARIABLES
  now,       \* the monotonic clock
  buckets,   \* _buckets: tokens and last_refill of each address seen so far
  admitted,  \* ghost: when the latest 2 * MaxRequests requests of an address were admitted
  refused    \* ghost: the first and last 429 of an address since its last admission

vars == <<now, buckets, admitted, refused>>

TokenUnits == Window * Ticks

Capacity == MaxRequests * TokenUnits

\* refill_rate: units per tick.
RefillRate == MaxRequests

\* A bug: the seconds one token takes, rounded down.
RetryAfterWhole == Window \div MaxRequests

\* The Retry-After header, in seconds: int(1 / rate) + 1.
RetryAfter == Window \div MaxRequests + 1

Never == [first |-> -1, last |-> -1]

Init ==
  /\ now = 0
  /\ buckets = <<>>
  /\ admitted = [ip \in IPs |-> <<>>]
  /\ refused = [ip \in IPs |-> Never]

Tick ==
  /\ now < MaxTime
  /\ now' = now + 1
  /\ UNCHANGED <<buckets, admitted, refused>>

\* An address seen for the first time gets a full bucket.
BucketOf(ip) == IF ip \in DOMAIN buckets THEN buckets[ip]
                ELSE [tokens |-> Capacity, lastRefill |-> now]

\* A bug: what was saved up during a pause has no cap.
RefilledUncapped(bucket) == bucket.tokens + (now - bucket.lastRefill) * RefillRate

Refilled(bucket) == Min({Capacity, bucket.tokens + (now - bucket.lastRefill) * RefillRate})

\* consume(): the bucket is refilled whether or not the request is admitted.
Consume(ip, taken) ==
  buckets' = [other \in DOMAIN buckets \cup {ip} |->
                IF other = ip THEN [tokens |-> Refilled(BucketOf(ip)) - taken, lastRefill |-> now]
                ELSE buckets[other]]

Latest(times) == IF Len(times) > 2 * MaxRequests THEN Tail(times) ELSE times

Admit(ip) ==
  /\ Refilled(BucketOf(ip)) >= TokenUnits
  /\ Consume(ip, TokenUnits)
  /\ admitted' = [admitted EXCEPT ![ip] = Latest(Append(@, now))]
  /\ refused' = [refused EXCEPT ![ip] = Never]
  /\ UNCHANGED now

\* 429, with Retry-After.
Refuse(ip) ==
  /\ Refilled(BucketOf(ip)) < TokenUnits
  /\ Consume(ip, 0)
  /\ refused' = [refused EXCEPT ![ip] = [first |-> IF @ = Never THEN now ELSE @.first,
                                         last |-> now]]
  /\ UNCHANGED <<now, admitted>>

\* A new process has no buckets; the ghosts tell of this process only.
Restart ==
  /\ buckets' = <<>>
  /\ admitted' = [ip \in IPs |-> <<>>]
  /\ refused' = [ip \in IPs |-> Never]
  /\ UNCHANGED now

\* A request of an exempt path touches no bucket.
Next == Tick \/ Restart \/ \E ip \in IPs : Admit(ip) \/ Refuse(ip)

Spec == Init /\ [][Next]_vars

-----------------------------------------------------------------------------
(* Properties *)

\* Whatever a client saved up, 2 * max_requests successive admissions take at least
\* window_seconds: a window admits fewer than twice max_requests of its requests
\* (and may admit more than max_requests: the burst and the refill add up).
WindowBounded ==
  \A ip \in IPs :
    Len(admitted[ip]) = 2 * MaxRequests =>
      admitted[ip][2 * MaxRequests] - admitted[ip][1] >= TokenUnits

\* Retry-After is enough: once it has passed since the first 429, no request of
\* the client is refused, however often it asked in vain in between.
RetryAfterSuffices ==
  \A ip \in IPs : refused[ip].last - refused[ip].first < Ticks * RetryAfter
=============================================================================
