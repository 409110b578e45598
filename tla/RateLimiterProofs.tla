-------------------------- MODULE RateLimiterProofs --------------------------
(***************************************************************************)
(* The Retry-After header is enough and a window admits fewer than twice   *)
(* the capacity, for every capacity, window and clock.                     *)
(***************************************************************************)
EXTENDS RateLimiter, DataFacts

Bucket == [tokens : 0..Capacity, lastRefill : 0..now]

\* The buckets are numbers in their bounds.
BucketsType ==
  /\ now \in Nat
  /\ DOMAIN buckets \subseteq IPs
  /\ \A ip \in DOMAIN buckets : buckets[ip] \in Bucket
  /\ refused \in [IPs -> [first : Int, last : Int]]

\* An address refused since its last admission has been refilling ever since the
\* first refusal, has never reached the capacity, and is still short of a token.
Starved(ip) ==
  /\ ip \in DOMAIN buckets
  /\ 0 <= refused[ip].first
  /\ refused[ip].first <= refused[ip].last
  /\ refused[ip].last = buckets[ip].lastRefill
  /\ (refused[ip].last - refused[ip].first) * MaxRequests <= buckets[ip].tokens
  /\ buckets[ip].tokens < TokenUnits

RefusedInv == BucketsType /\ \A ip \in IPs : refused[ip] = Never \/ Starved(ip)

\* A token and a full bucket are positive numbers of units.
LEMMA UnitsType ==
  /\ MaxRequests \in Nat \ {0} /\ Window \in Nat \ {0} /\ Ticks \in Nat \ {0}
  /\ TokenUnits \in Nat \ {0} /\ Capacity \in Nat \ {0} /\ TokenUnits <= Capacity
<1>1. MaxRequests \in Nat \ {0} /\ Window \in Nat \ {0} /\ Ticks \in Nat \ {0}
  BY RateLimiterAssumption
<1>2. ASSUME NEW a \in Nat \ {0}, NEW b \in Nat \ {0}
      PROVE  a * b \in Nat \ {0} /\ b <= a * b
  OBVIOUS
<1>3. TokenUnits \in Nat \ {0}
  BY <1>1, <1>2 DEF TokenUnits
<1>4. QED
  BY <1>1, <1>2, <1>3 DEF Capacity

\* A refill adds at least nothing and stops at the capacity.
LEMMA RefillType ==
  ASSUME BucketsType, NEW ip \in IPs
  PROVE  LET before == BucketOf(ip)
         IN /\ before \in Bucket
            /\ Refilled(before) \in before.tokens..Capacity
            /\ Refilled(before) < TokenUnits =>
                 Refilled(before) = before.tokens + (now - before.lastRefill) * MaxRequests
<1> DEFINE before == BucketOf(ip)
<1>1. before \in Bucket
  BY UnitsType DEF BucketsType, BucketOf, Bucket
<1> DEFINE gained == (now - before.lastRefill) * MaxRequests
<1>2. before.tokens \in 0..Capacity /\ now - before.lastRefill \in Nat
  BY <1>1 DEF Bucket, BucketsType
<1>3. gained \in Nat
  BY <1>2, UnitsType
<1>4. Refilled(before) = Min({Capacity, before.tokens + gained})
  BY DEF Refilled, RefillRate
<1> HIDE DEF before, gained
<1>5. Refilled(before) = IF Capacity <= before.tokens + gained THEN Capacity
                         ELSE before.tokens + gained
  BY <1>2, <1>3, <1>4, MinOfTwo, UnitsType
<1>6. Refilled(before) \in before.tokens..Capacity
  BY <1>2, <1>3, <1>5, UnitsType
<1>7. Refilled(before) < TokenUnits => Refilled(before) = before.tokens + gained
  BY <1>2, <1>3, <1>5, UnitsType
<1>8. QED
  BY <1>1, <1>6, <1>7 DEF before, gained

\* consume() replaces the bucket of one address.
LEMMA ConsumeShape ==
  ASSUME NEW ip \in IPs, NEW taken \in Nat, Consume(ip, taken), DOMAIN buckets \subseteq IPs
  PROVE  /\ DOMAIN buckets' = DOMAIN buckets \cup {ip}
         /\ buckets'[ip] = [tokens |-> Refilled(BucketOf(ip)) - taken, lastRefill |-> now]
         /\ \A other \in DOMAIN buckets : other # ip => buckets'[other] = buckets[other]
BY DEF Consume

LEMMA InitRefused == Init => RefusedInv
BY DEF Init, RefusedInv, BucketsType, Never

LEMMA TickRefused == RefusedInv /\ Tick => RefusedInv'
BY DEF Tick, RefusedInv, BucketsType, Bucket, Starved, Capacity, TokenUnits

LEMMA RestartRefused == RefusedInv /\ Restart => RefusedInv'
BY DEF Restart, RefusedInv, BucketsType, Never

LEMMA AdmitRefused ==
  ASSUME RefusedInv, NEW ip \in IPs, Admit(ip)
  PROVE  RefusedInv'
<1> DEFINE after == Refilled(BucketOf(ip)) - TokenUnits
<1>1. after \in 0..Capacity
  BY RefillType, UnitsType DEF RefusedInv, Admit, Bucket
<1>2. /\ DOMAIN buckets' = DOMAIN buckets \cup {ip}
      /\ buckets'[ip] = [tokens |-> after, lastRefill |-> now]
      /\ \A other \in DOMAIN buckets : other # ip => buckets'[other] = buckets[other]
  BY ConsumeShape, UnitsType DEF Admit, RefusedInv, BucketsType
<1>3. now' = now /\ refused' = [refused EXCEPT ![ip] = Never]
  BY DEF Admit
<1> HIDE DEF after
<1>4. BucketsType'
  BY <1>1, <1>2, <1>3 DEF RefusedInv, BucketsType, Bucket, Never, Capacity, TokenUnits
<1>5. ASSUME NEW other \in IPs PROVE (refused[other] = Never \/ Starved(other))'
  <2>1. CASE other = ip
    BY <1>3, <2>1 DEF RefusedInv, BucketsType
  <2>2. CASE other # ip
    BY <1>2, <1>3, <2>2 DEF RefusedInv, BucketsType, Starved, TokenUnits
  <2>3. QED
    BY <2>1, <2>2
<1>6. QED
  BY <1>4, <1>5 DEF RefusedInv

LEMMA RefuseRefused ==
  ASSUME RefusedInv, NEW ip \in IPs, Refuse(ip)
  PROVE  RefusedInv'
<1> DEFINE before == BucketOf(ip)
           after == Refilled(before)
<1>1. /\ before \in Bucket
      /\ after \in before.tokens..Capacity
      /\ after < TokenUnits
      /\ after = before.tokens + (now - before.lastRefill) * MaxRequests
  BY RefillType DEF RefusedInv, Refuse
<1>2. /\ DOMAIN buckets' = DOMAIN buckets \cup {ip}
      /\ buckets'[ip] = [tokens |-> after, lastRefill |-> now]
      /\ \A other \in DOMAIN buckets : other # ip => buckets'[other] = buckets[other]
  <2>1. Consume(ip, 0) /\ DOMAIN buckets \subseteq IPs
    BY DEF Refuse, RefusedInv, BucketsType
  <2>2. after - 0 = after
    BY <1>1 DEF Bucket
  <2>3. QED
    BY <2>1, <2>2, ConsumeShape
<1>3. /\ now' = now /\ now \in Nat
      /\ refused'[ip] = [first |-> IF refused[ip] = Never THEN now ELSE refused[ip].first,
                         last |-> now]
      /\ refused' \in [IPs -> [first : Int, last : Int]]
      /\ \A other \in IPs : other # ip => refused'[other] = refused[other]
  BY DEF Refuse, RefusedInv, BucketsType
<1>4. after \in 0..Capacity
  BY <1>1, UnitsType DEF Bucket
<1>5. BucketsType'
  <2>1. [tokens |-> after, lastRefill |-> now] \in Bucket
    BY <1>3, <1>4 DEF Bucket
  <2> HIDE DEF after
  <2>2. QED
    BY <2>1, <1>2, <1>3 DEF RefusedInv, BucketsType, Bucket, Capacity, TokenUnits
<1>6. Starved(ip)'
  <2>1. CASE refused[ip] = Never
    <3>1. refused'[ip].first = now /\ refused'[ip].last = now
      BY <1>3, <2>1 DEF Never
    <3>2. (now - now) * MaxRequests = 0
      BY <1>3, UnitsType
    <3> HIDE DEF before, after
    <3>3. QED
      BY <1>1, <1>2, <1>3, <1>4, <3>1, <3>2 DEF Starved, TokenUnits
  <2>2. CASE Starved(ip)
    <3>1. before = buckets[ip] /\ before.lastRefill = refused[ip].last
      BY <2>2 DEF Starved, BucketOf
    <3>2. refused'[ip].first = refused[ip].first /\ refused'[ip].last = now
      <4>1. refused[ip] # Never
        BY <2>2 DEF Starved, Never
      <4>2. QED
        BY <1>3, <4>1
    <3>3. /\ refused[ip].first \in Nat /\ refused[ip].last \in Int /\ before.tokens \in Nat
          /\ refused[ip].first <= refused[ip].last /\ refused[ip].last <= now
      BY <1>1, <2>2, <3>1 DEF Starved, Bucket, RefusedInv, BucketsType
    <3>4. ASSUME NEW f \in Int, NEW l \in Int, NEW n \in Int, NEW k \in Int, NEW max \in Int,
                 (l - f) * max <= k
          PROVE  (n - f) * max <= k + (n - l) * max
      <4>1. (n - f) * max = (l - f) * max + (n - l) * max
        OBVIOUS
      <4>2. (l - f) * max \in Int /\ (n - l) * max \in Int /\ (n - f) * max \in Int
        OBVIOUS
      <4>3. QED
        BY <3>4, <4>1, <4>2
    <3>5. (refused[ip].last - refused[ip].first) * MaxRequests <= before.tokens
      BY <2>2, <3>1 DEF Starved
    <3>6. (now - refused[ip].first) * MaxRequests
            <= before.tokens + (now - refused[ip].last) * MaxRequests
      BY <1>3, <3>3, <3>4, <3>5, UnitsType
    <3>7. (now - refused[ip].first) * MaxRequests <= after
      BY <1>1, <3>1, <3>6
    <3> HIDE DEF before, after
    <3>8. QED
      BY <1>1, <1>2, <1>3, <3>2, <3>3, <3>7 DEF Starved, TokenUnits
  <2>3. QED
    BY <2>1, <2>2 DEF RefusedInv
<1>7. ASSUME NEW other \in IPs, other # ip PROVE (refused[other] = Never \/ Starved(other))'
  BY <1>2, <1>3, <1>7 DEF RefusedInv, BucketsType, Starved, TokenUnits
<1>8. QED
  BY <1>5, <1>6, <1>7 DEF RefusedInv

LEMMA NextRefused == RefusedInv /\ [Next]_vars => RefusedInv'
<1> SUFFICES ASSUME RefusedInv, [Next]_vars PROVE RefusedInv'
  OBVIOUS
<1>1. CASE Tick
  BY <1>1, TickRefused
<1>2. CASE Restart
  BY <1>2, RestartRefused
<1>3. CASE \E ip \in IPs : Admit(ip) \/ Refuse(ip)
  BY <1>3, AdmitRefused, RefuseRefused
<1>4. CASE UNCHANGED vars
  BY <1>4 DEF vars, RefusedInv, BucketsType, Bucket, Starved, Capacity, TokenUnits
<1>5. QED
  BY <1>1, <1>2, <1>3, <1>4 DEF Next

\* Retry-After seconds refill more than the units of one token.
LEMMA RetryAfterRefills ==
  RetryAfter \in Nat /\ Ticks * RetryAfter * MaxRequests > TokenUnits
<1> DEFINE quotient == Window \div MaxRequests
<1>1. quotient \in Nat /\ Window < MaxRequests * (quotient + 1)
  BY UnitsType
<1> HIDE DEF quotient
<1>2. ASSUME NEW a \in Nat \ {0}, NEW b \in Int, NEW c \in Int, b < c
      PROVE  b * a < c * a
  BY <1>2
<1>3. Window * Ticks < (MaxRequests * (quotient + 1)) * Ticks
  BY <1>1, <1>2, UnitsType
<1>4. (MaxRequests * (quotient + 1)) * Ticks = Ticks * (quotient + 1) * MaxRequests
  BY <1>1, UnitsType
<1>5. RetryAfter = quotient + 1
  BY DEF RetryAfter, quotient
<1>6. QED
  BY <1>1, <1>3, <1>4, <1>5 DEF TokenUnits

LEMMA RefusedSuffices == RefusedInv => RetryAfterSuffices
<1> SUFFICES ASSUME RefusedInv, NEW ip \in IPs
             PROVE  refused[ip].last - refused[ip].first < Ticks * RetryAfter
  BY DEF RetryAfterSuffices
<1> DEFINE enough == Ticks * RetryAfter
<1>1. enough \in Nat /\ enough * MaxRequests > TokenUnits
  BY RetryAfterRefills, UnitsType
<1>2. CASE refused[ip] = Never
  <2>1. enough # 0
    BY <1>1, UnitsType
  <2> HIDE DEF enough
  <2>2. refused[ip].last - refused[ip].first < enough
    BY <1>1, <1>2, <2>1 DEF Never
  <2>3. QED
    BY <2>2 DEF enough
<1>3. CASE Starved(ip)
  <2> DEFINE gap == refused[ip].last - refused[ip].first
  <2>1. gap \in Int /\ gap * MaxRequests < TokenUnits
    BY <1>3, UnitsType DEF Starved, RefusedInv, BucketsType, Bucket
  <2>2. ASSUME NEW a \in Int, NEW b \in Int, NEW max \in Nat \ {0}, a * max < b * max
        PROVE  a < b
    BY <2>2
  <2> HIDE DEF gap, enough
  <2>3. gap < enough
    BY <1>1, <2>1, <2>2, UnitsType
  <2>4. QED
    BY <2>3 DEF gap, enough
<1>4. QED
  BY <1>2, <1>3 DEF RefusedInv

\* A client that waits for Retry-After after its first 429 is not refused again,
\* whatever it sent in the meantime (rate_limiter.py:76-87).
THEOREM RetryAfterSufficesCorrect == Spec => []RetryAfterSuffices
<1>1. Spec => []RefusedInv
  BY InitRefused, NextRefused, PTL DEF Spec
<1>2. QED
  BY <1>1, RefusedSuffices, PTL

-----------------------------------------------------------------------------
(* How much a window admits *)

Latest2 == 2 * MaxRequests

\* The admissions from the i-th on and what is left in the bucket come out of one
\* capacity and what was refilled since the i-th.
Paid(ip) ==
  \A i \in 1..Len(admitted[ip]) :
    /\ admitted[ip][i] <= buckets[ip].lastRefill
    /\ (Len(admitted[ip]) - i + 1) * TokenUnits + buckets[ip].tokens
         <= Capacity + (buckets[ip].lastRefill - admitted[ip][i]) * MaxRequests

AdmittedType ==
  /\ admitted \in [IPs -> Seq(Nat)]
  /\ \A ip \in IPs : Len(admitted[ip]) <= Latest2
                     /\ (admitted[ip] # <<>> => ip \in DOMAIN buckets)

AdmittedInv ==
  /\ BucketsType
  /\ AdmittedType
  /\ \A ip \in IPs : admitted[ip] # <<>> => Paid(ip)
  /\ WindowBounded

\* What is kept of the admissions: the last one is the newest, and the others are
\* as far from the end, but for the newest, as they were.
LEMMA LatestFacts ==
  ASSUME NEW s \in Seq(Nat), Len(s) <= Latest2, NEW t \in Nat
  PROVE  LET r == Latest(Append(s, t))
         IN /\ r \in Seq(Nat) /\ Len(r) \in 1..Latest2 /\ r[Len(r)] = t
            /\ \A i \in 1..Len(r) : i = Len(r) \/ (\E j \in 1..Len(s) :
                 r[i] = s[j] /\ Len(s) - j = Len(r) - i - 1)
<1> DEFINE n == Len(s)
           a == Append(s, t)
           r == Latest(a)
<1>1. /\ a \in Seq(Nat) /\ Len(a) = n + 1 /\ n \in Nat /\ a[n + 1] = t
      /\ \A i \in 1..n : a[i] = s[i]
  OBVIOUS
<1>2. Latest2 \in Nat /\ Latest2 >= 1
  BY UnitsType DEF Latest2
<1>3. CASE Len(a) > Latest2
  <2>1. r = Tail(a)
    BY <1>3 DEF Latest, Latest2
  <2>2. n >= 1 /\ n = Latest2
    BY <1>1, <1>2, <1>3
  <2>3. r \in Seq(Nat) /\ Len(r) = n /\ \A i \in 1..n : r[i] = a[i + 1]
    BY <1>1, <2>1, <2>2
  <2>4. \A i \in 1..n : i = n \/ (i + 1 \in 1..n /\ r[i] = s[i + 1] /\ n - (i + 1) = n - i - 1)
    BY <1>1, <2>3
  <2>5. r[n] = t
    BY <1>1, <2>2, <2>3
  <2> HIDE DEF r, a
  <2>6. \A i \in 1..Len(r) : i = Len(r) \/ (\E j \in 1..Len(s) :
                 r[i] = s[j] /\ Len(s) - j = Len(r) - i - 1)
    BY <2>3, <2>4
  <2>7. QED
    BY <1>2, <2>2, <2>3, <2>5, <2>6 DEF r, a
<1>4. CASE ~ (Len(a) > Latest2)
  <2>1. r = a
    BY <1>4 DEF Latest, Latest2
  <2>2. \A i \in 1..(n + 1) : i = n + 1 \/ (i \in 1..n /\ a[i] = s[i] /\ n - i = n + 1 - i - 1)
    BY <1>1
  <2> HIDE DEF r, a
  <2>3. \A i \in 1..Len(r) : i = Len(r) \/ (\E j \in 1..Len(s) :
                 r[i] = s[j] /\ Len(s) - j = Len(r) - i - 1)
    <3>1. Len(r) = n + 1
      BY <1>1, <2>1
    <3>2. QED
      BY <2>1, <2>2, <3>1
  <2>4. QED
    BY <1>1, <1>2, <1>4, <2>1, <2>3 DEF r, a
<1>5. QED
  BY <1>3, <1>4

\* The bucket an address is served from was refilled no earlier than its last
\* request, and holds what its admissions have left.
LEMMA PaidBucket ==
  ASSUME AdmittedInv, NEW ip \in IPs, NEW j \in 1..Len(admitted[ip])
  PROVE  /\ ip \in DOMAIN buckets /\ BucketOf(ip) = buckets[ip]
         /\ admitted[ip][j] \in Nat /\ admitted[ip][j] <= BucketOf(ip).lastRefill
         /\ (Len(admitted[ip]) - j + 1) * TokenUnits + Refilled(BucketOf(ip))
              <= Capacity + (now - admitted[ip][j]) * MaxRequests
<1>1. admitted[ip] # <<>> /\ admitted[ip] \in Seq(Nat)
  BY DEF AdmittedInv, AdmittedType
<1>2. ip \in DOMAIN buckets /\ Paid(ip) /\ BucketOf(ip) = buckets[ip]
  BY <1>1 DEF AdmittedInv, AdmittedType, BucketOf
<1> DEFINE b == BucketOf(ip)
           a == admitted[ip][j]
           l == b.lastRefill
           spent == (Len(admitted[ip]) - j + 1) * TokenUnits
<1>3. b \in Bucket /\ Refilled(b) \in b.tokens..Capacity
      /\ Refilled(b) <= b.tokens + (now - b.lastRefill) * MaxRequests
  <2>1. b \in Bucket /\ Refilled(b) \in b.tokens..Capacity
    BY RefillType DEF AdmittedInv
  <2>2. Refilled(b) = Min({Capacity, b.tokens + (now - b.lastRefill) * MaxRequests})
    BY DEF Refilled, RefillRate
  <2>3. Capacity \in Int /\ b.tokens + (now - b.lastRefill) * MaxRequests \in Int
    BY <2>1, UnitsType DEF Bucket, AdmittedInv, BucketsType
  <2> HIDE DEF b
  <2>4. QED
    BY <2>1, <2>2, <2>3, MinOfTwo
<1>4. a \in Nat /\ l \in Nat /\ now \in Nat /\ b.tokens \in Nat /\ a <= l
  BY <1>1, <1>2, <1>3 DEF Paid, Bucket, AdmittedInv, BucketsType
<1>5. spent \in Int
  BY <1>1, UnitsType
<1>6. spent + b.tokens <= Capacity + (l - a) * MaxRequests
  BY <1>2 DEF Paid
<1>7. Refilled(b) \in Int /\ Refilled(b) <= b.tokens + (now - l) * MaxRequests
  BY <1>3, UnitsType DEF Bucket
<1> HIDE DEF b, a, l, spent
<1>8. (l - a) * MaxRequests + (now - l) * MaxRequests = (now - a) * MaxRequests
      /\ (l - a) * MaxRequests \in Int /\ (now - l) * MaxRequests \in Int
      /\ (now - a) * MaxRequests \in Int
  BY <1>4, UnitsType
<1>9. spent + Refilled(b) <= Capacity + (now - a) * MaxRequests
  BY <1>4, <1>5, <1>6, <1>7, <1>8, UnitsType
<1>10. QED
  BY <1>2, <1>4, <1>9 DEF b, a, l, spent

\* The other addresses are not touched by a request of this one.
LEMMA OthersPaid ==
  ASSUME AdmittedInv, NEW ip \in IPs, NEW other \in IPs, other # ip,
         admitted'[other] = admitted[other],
         DOMAIN buckets' = DOMAIN buckets \cup {ip},
         \A x \in DOMAIN buckets : x # ip => buckets'[x] = buckets[x]
  PROVE  admitted'[other] # <<>> => Paid(other)' /\ other \in DOMAIN buckets'
<1>1. admitted[other] # <<>> => buckets'[other] = buckets[other] /\ other \in DOMAIN buckets'
  BY DEF AdmittedInv, AdmittedType
<1>2. QED
  BY <1>1 DEF AdmittedInv, Paid, Capacity, TokenUnits

\* A refused request refills the bucket and admits nothing.
LEMMA RefuseAdmitted ==
  ASSUME AdmittedInv, BucketsType', NEW ip \in IPs, Refuse(ip)
  PROVE  AdmittedInv'
<1>1. UNCHANGED <<now, admitted>>
  BY DEF Refuse
<1> DEFINE after == Refilled(BucketOf(ip))
<1>2. /\ DOMAIN buckets' = DOMAIN buckets \cup {ip}
      /\ buckets'[ip] = [tokens |-> after - 0, lastRefill |-> now]
      /\ \A other \in DOMAIN buckets : other # ip => buckets'[other] = buckets[other]
  BY ConsumeShape DEF Refuse, AdmittedInv, BucketsType
<1>3. after \in Int
  BY RefillType, UnitsType DEF AdmittedInv, Bucket
<1>4. AdmittedType'
  BY <1>1, <1>2 DEF AdmittedInv, AdmittedType, Latest2
<1>5. WindowBounded'
  BY <1>1 DEF AdmittedInv, WindowBounded, TokenUnits
<1>6. Paid(ip)'
  <2>1. ASSUME NEW j \in 1..Len(admitted[ip])
        PROVE  /\ admitted[ip][j] <= now
               /\ (Len(admitted[ip]) - j + 1) * TokenUnits + after
                    <= Capacity + (now - admitted[ip][j]) * MaxRequests
    <3>1. /\ ip \in DOMAIN buckets /\ BucketOf(ip) = buckets[ip]
          /\ admitted[ip][j] \in Nat /\ admitted[ip][j] <= BucketOf(ip).lastRefill
          /\ (Len(admitted[ip]) - j + 1) * TokenUnits + Refilled(BucketOf(ip))
              <= Capacity + (now - admitted[ip][j]) * MaxRequests
      BY PaidBucket
    <3>2. BucketOf(ip).lastRefill \in 0..now /\ now \in Nat
      BY <3>1 DEF AdmittedInv, BucketsType, Bucket
    <3>3. QED
      BY <3>1, <3>2
  <2>2. buckets'[ip].tokens = after /\ buckets'[ip].lastRefill = now
    BY <1>2, <1>3
  <2> HIDE DEF after
  <2>3. QED
    BY <1>1, <2>1, <2>2 DEF Paid, Capacity, TokenUnits
<1>7. ASSUME NEW other \in IPs, admitted'[other] # <<>> PROVE Paid(other)'
  BY <1>1, <1>2, <1>6, <1>7, OthersPaid
<1>8. QED
  BY <1>4, <1>5, <1>7 DEF AdmittedInv

\* An admission is paid for with a token.
LEMMA AdmitAdmitted ==
  ASSUME AdmittedInv, BucketsType', NEW ip \in IPs, Admit(ip)
  PROVE  AdmittedInv'
<1> DEFINE after == Refilled(BucketOf(ip)) - TokenUnits
           s == admitted[ip]
           r == Latest(Append(s, now))
<1>0. now' = now /\ now \in Nat /\ s \in Seq(Nat) /\ Len(s) <= Latest2
  BY DEF Admit, AdmittedInv, AdmittedType, BucketsType
<1>1. /\ admitted'[ip] = r
      /\ \A other \in IPs : other # ip => admitted'[other] = admitted[other]
      /\ admitted' = [admitted EXCEPT ![ip] = r]
  BY DEF Admit, AdmittedInv, AdmittedType
<1>2. /\ DOMAIN buckets' = DOMAIN buckets \cup {ip}
      /\ buckets'[ip] = [tokens |-> after, lastRefill |-> now]
      /\ \A other \in DOMAIN buckets : other # ip => buckets'[other] = buckets[other]
  BY ConsumeShape, UnitsType DEF Admit, AdmittedInv, BucketsType
<1>3. /\ r \in Seq(Nat) /\ Len(r) \in 1..Latest2 /\ r[Len(r)] = now
      /\ \A i \in 1..Len(r) : i = Len(r) \/ (\E j \in 1..Len(s) :
                 r[i] = s[j] /\ Len(s) - j = Len(r) - i - 1)
  BY <1>0, LatestFacts
<1>4. after \in Nat /\ after + TokenUnits <= Capacity /\ after + TokenUnits = Refilled(BucketOf(ip))
  BY RefillType, UnitsType DEF Admit, AdmittedInv, Bucket
<1> HIDE DEF r, after
<1>5. ASSUME NEW i \in 1..Len(r)
      PROVE  /\ r[i] <= now
             /\ (Len(r) - i + 1) * TokenUnits + after <= Capacity + (now - r[i]) * MaxRequests
  <2>1. CASE i = Len(r)
    <3>1. (Len(r) - i + 1) * TokenUnits = TokenUnits /\ (now - r[i]) * MaxRequests = 0
      BY <1>0, <1>3, <2>1, UnitsType
    <3>2. QED
      BY <1>0, <1>3, <1>4, <2>1, <3>1, UnitsType
  <2>2. CASE i # Len(r)
    <3>1. PICK j \in 1..Len(s) : r[i] = s[j] /\ Len(s) - j = Len(r) - i - 1
      BY <1>3, <2>2
    <3>2. /\ s[j] \in Nat /\ s[j] <= BucketOf(ip).lastRefill
          /\ (Len(s) - j + 1) * TokenUnits + Refilled(BucketOf(ip))
               <= Capacity + (now - s[j]) * MaxRequests
      BY PaidBucket
    <3>3. BucketOf(ip).lastRefill \in 0..now
      BY RefillType DEF AdmittedInv, Bucket
    <3>4. Len(s) - j + 1 = Len(r) - i /\ Len(r) - i \in Int
      <4>1. Len(s) \in Nat /\ Len(r) \in Nat
        BY <1>0, <1>3
      <4>2. \A a, b \in Int : a = b - 1 => a + 1 = b
        OBVIOUS
      <4>3. Len(s) - j \in Int /\ Len(r) - i \in Int
        BY <4>1
      <4>4. QED
        BY <3>1, <4>2, <4>3
    <3>5. (Len(r) - i + 1) * TokenUnits = (Len(r) - i) * TokenUnits + TokenUnits
          /\ (Len(r) - i) * TokenUnits \in Int
      BY <3>4, UnitsType
    <3>6. (Len(r) - i) * TokenUnits + (after + TokenUnits) <= Capacity + (now - s[j]) * MaxRequests
      BY <1>4, <3>2, <3>4
    <3>7. (now - s[j]) * MaxRequests \in Int
      <4>1. now - s[j] \in Int
        BY <1>0, <3>2
      <4> HIDE DEF s
      <4>2. QED
        BY <4>1, UnitsType
    <3>8. (Len(r) - i + 1) * TokenUnits + after <= Capacity + (now - s[j]) * MaxRequests
      BY <1>4, <3>5, <3>6, <3>7, UnitsType
    <3>9. r[i] <= now
      BY <1>0, <3>1, <3>2, <3>3
    <3>10. QED
      BY <3>1, <3>8, <3>9
  <2>3. QED
    BY <2>1, <2>2
<1>6. Paid(ip)'
  <2>1. buckets'[ip].tokens = after /\ buckets'[ip].lastRefill = now
    BY <1>2
  <2>2. QED
    BY <1>1, <1>5, <2>1 DEF Paid, Capacity, TokenUnits
<1>7. AdmittedType'
  <2>1. admitted' \in [IPs -> Seq(Nat)]
    BY <1>1, <1>3 DEF AdmittedInv, AdmittedType
  <2>2. ASSUME NEW other \in IPs
        PROVE  Len(admitted'[other]) <= Latest2 /\ (admitted'[other] # <<>> => other \in DOMAIN buckets')
    <3>1. CASE other = ip
      BY <1>1, <1>2, <1>3, <3>1, UnitsType DEF Latest2
    <3>2. CASE other # ip
      BY <1>1, <1>2, <3>2 DEF AdmittedInv, AdmittedType
    <3>3. QED
      BY <3>1, <3>2
  <2>3. QED
    BY <2>1, <2>2 DEF AdmittedType, Latest2
<1>8. WindowBounded'
  <2>1. ASSUME Len(r) = Latest2
        PROVE  r[Latest2] - r[1] >= TokenUnits
    <3>1. Latest2 \in Nat /\ 1 \in 1..Len(r) /\ Latest2 = 2 * MaxRequests
      BY <1>3, UnitsType DEF Latest2
    <3>2. r[1] \in Nat /\ r[Latest2] = now
      BY <1>3, <2>1, <3>1
    <3>3. Latest2 * TokenUnits + after <= Capacity + (now - r[1]) * MaxRequests
      BY <1>5, <2>1, <3>1
    <3>4. Latest2 * TokenUnits = Capacity + TokenUnits * MaxRequests
      BY <3>1, UnitsType DEF Capacity
    <3>5. TokenUnits * MaxRequests \in Int /\ (now - r[1]) * MaxRequests \in Int
      BY <1>0, <3>2, UnitsType
    <3>6. TokenUnits * MaxRequests <= (now - r[1]) * MaxRequests
      BY <1>4, <3>3, <3>4, <3>5, UnitsType
    <3>7. \A x, y \in Int : \A m \in Nat \ {0} : x * m <= y * m => x <= y
      OBVIOUS
    <3>8. TokenUnits <= now - r[1]
      <4>1. now - r[1] \in Int /\ TokenUnits \in Int /\ MaxRequests \in Nat \ {0}
        BY <1>0, <3>2, UnitsType
      <4>2. QED
        BY <3>6, <3>7, <4>1
    <3>9. QED
      BY <1>0, <3>2, <3>8, UnitsType
  <2>2. ASSUME NEW other \in IPs, Len(admitted'[other]) = Latest2
        PROVE  admitted'[other][Latest2] - admitted'[other][1] >= TokenUnits
    <3>1. CASE other = ip
      BY <1>1, <2>1, <2>2, <3>1
    <3>2. CASE other # ip
      BY <1>1, <2>2, <3>2 DEF AdmittedInv, WindowBounded, Latest2
    <3>3. QED
      BY <3>1, <3>2
  <2>3. QED
    BY <2>2 DEF WindowBounded, Latest2, TokenUnits
<1>9. ASSUME NEW other \in IPs, admitted'[other] # <<>> PROVE Paid(other)'
  BY <1>1, <1>2, <1>6, <1>9, OthersPaid
<1>10. QED
  BY <1>7, <1>8, <1>9 DEF AdmittedInv

LEMMA AdmittedStep ==
  ASSUME AdmittedInv, [Next]_vars, BucketsType'
  PROVE  AdmittedInv'
<1>1. CASE Tick
  BY <1>1 DEF Tick, AdmittedInv, AdmittedType, Paid, WindowBounded, Capacity, TokenUnits, Latest2
<1>2. CASE Restart
  <2>1. \A ip \in IPs : admitted'[ip] = <<>>
    BY <1>2 DEF Restart
  <2>2. AdmittedType'
    BY <1>2, UnitsType DEF Restart, AdmittedType, Latest2
  <2>3. WindowBounded'
    BY <2>1, UnitsType DEF WindowBounded
  <2>4. QED
    BY <2>1, <2>2, <2>3 DEF AdmittedInv
<1>3. CASE \E ip \in IPs : Admit(ip) \/ Refuse(ip)
  BY <1>3, AdmitAdmitted, RefuseAdmitted
<1>4. CASE UNCHANGED vars
  BY <1>4 DEF vars, AdmittedInv, AdmittedType, Paid, WindowBounded, Capacity, TokenUnits, Latest2
<1>5. QED
  BY <1>1, <1>2, <1>3, <1>4 DEF Next

\* A client gets fewer than twice max_requests answers in any window_seconds
\* (rate_limiter.py:30-60), for every max_requests and window, however it spaces its
\* requests and however long it saved up.
THEOREM WindowBoundedCorrect == Spec => []WindowBounded
<1>1. Init => AdmittedInv
  <2>1. ASSUME Init PROVE AdmittedInv
    <3>1. \A ip \in IPs : admitted[ip] = <<>>
      BY <2>1 DEF Init
    <3>2. AdmittedType
      BY <2>1, UnitsType DEF Init, AdmittedType, Latest2
    <3>3. WindowBounded
      BY <3>1, UnitsType DEF WindowBounded
    <3>4. QED
      BY <2>1, <3>1, <3>2, <3>3, InitRefused DEF AdmittedInv, RefusedInv
  <2>2. QED
    BY <2>1
<1>2. RefusedInv /\ [Next]_vars => BucketsType'
  BY NextRefused DEF RefusedInv
<1>3. AdmittedInv /\ RefusedInv /\ [Next]_vars => AdmittedInv' /\ RefusedInv'
  BY <1>2, AdmittedStep, NextRefused
<1>4. AdmittedInv => WindowBounded
  BY DEF AdmittedInv
<1>5. QED
  BY <1>1, <1>3, <1>4, InitRefused, PTL DEF Spec
=============================================================================
