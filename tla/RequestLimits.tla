---------------------------- MODULE RequestLimits ----------------------------
(***************************************************************************)
(* The three counters that hold clients back: the fixed-window limiter in  *)
(* front of the routes (src/security/rateLimit.js), the count of wrong     *)
(* instructor tokens per address (server.js, requireInstructorAuth) and    *)
(* the token bucket of a telemetry session (server.js, consumeRateToken).  *)
(* The first two keep a Map of buckets that is capped; a Map is read in    *)
(* the order its keys were first set, so it is a sequence here.            *)
(*                                                                         *)
(* heldUntil, failHeld and spent remember what was decided: they are not   *)
(* state of the program.                                                   *)
(***************************************************************************)
EXTENDS Integers, Sequences, FiniteSets

CONSTANTS Keys,            \* what requests are counted by
          MaxRequests,     \* requests admitted in a window
          Window,          \* length of a window
          MaxBuckets,      \* DEFAULT_MAX_BUCKETS, INSTRUCTOR_FAILURE_BUCKETS
          ScanLimit,       \* EVICT_SCAN_LIMIT
          SweepInterval,   \* FULL_SWEEP_INTERVAL_MS
          Burst,           \* tokens a session may save up (3)
          Refill,          \* time that earns a token (2500 ms)
          MaxClock         \* bound on the clock

ASSUME LimitsAssumption ==
  /\ MaxRequests \in Nat \ {0} /\ Window \in Nat \ {0} /\ MaxBuckets \in Nat \ {0}
  /\ ScanLimit \in Nat \ {0} /\ SweepInterval \in Nat /\ MaxClock \in Nat
  /\ Burst \in Nat \ {0} /\ Refill \in Nat \ {0}

VARIABLES
  clock,       \* the clock
  buckets,     \* the limiter's Map: a sequence of [key, start, count]
  lastSweep,   \* lastFullSweep
  failures,    \* instructorFailures, likewise
  rate,        \* the session's [tokens, lastRefill]
  heldUntil,   \* key -> end of the window in which its bucket refused it
  failHeld,    \* key -> the same for wrong instructor tokens
  spent        \* when tokens were spent

limitVars == <<clock, buckets, lastSweep, failures, rate, heldUntil, failHeld, spent>>

LimitInit ==
  /\ clock = 0
  /\ buckets = <<>> /\ failures = <<>>
  /\ lastSweep = -SweepInterval
  /\ rate = [tokens |-> Burst, lastRefill |-> 0]
  /\ heldUntil = [k \in Keys |-> 0] /\ failHeld = [k \in Keys |-> 0]
  /\ spent = <<>>

-----------------------------------------------------------------------------
Expired(b) == clock - b.start >= Window

Throttled(b) == ~Expired(b) /\ b.count >= MaxRequests

NewBucket(k) == [key |-> k, start |-> clock, count |-> 1]

Has(map, k) == \E i \in DOMAIN map : map[i].key = k

Get(map, k) == map[CHOOSE i \in DOMAIN map : map[i].key = k]

Put(map, k, b) == [i \in DOMAIN map |-> IF map[i].key = k THEN b ELSE map[i]]

(* The entries of a map at some of its places, in their order.             *)
Only(map, places) ==
  LET n == Cardinality(places)
      at == CHOOSE f \in [1..n -> places] : \A i, j \in 1..n : i < j => f[i] < f[j]
  IN [i \in 1..n |-> map[at[i]]]

(* Deleted before it is set, so a renewed bucket moves to the back.        *)
Renewed(map, k) ==
  Append(Only(map, {i \in DOMAIN map : map[i].key # k}), NewBucket(k))

\* Mutant: a full table drops the oldest bucket, throttled or not.
EvictableAny(b) == TRUE

(* What a full table may drop: never a throttled bucket.                   *)
Evictable(b) == ~Throttled(b)

(* A full table is read from the front, up to a limit, until one can go.   *)
Scan(map, limit) ==
  LET found == {i \in DOMAIN map : i <= limit /\ Evictable(map[i])}
  IN IF found = {} THEN map
     ELSE Only(map, DOMAIN map \ {CHOOSE i \in found : \A j \in found : i <= j})

(* The sweep keeps a bucket one instant longer than the scan does.         *)
Sweep(map) == Only(map, {i \in DOMAIN map : map[i].start >= clock - Window})

Full(map) == Len(map) >= MaxBuckets

-----------------------------------------------------------------------------
(* A request of key k at the limiter.                                      *)
Fresh(k) == Has(buckets, k) => Expired(Get(buckets, k))

(* A new key at a full table: the bounded scan, then at most once per      *)
(* interval a sweep of the whole table, then refusal.                      *)
Admit(k) ==
  LET crowded == ~Has(buckets, k) /\ Full(buckets)
      scanned == IF crowded THEN Scan(buckets, ScanLimit) ELSE buckets
      swept   == crowded /\ Full(scanned) /\ clock - lastSweep >= SweepInterval
      left    == IF swept THEN Sweep(scanned) ELSE scanned
  IN /\ Fresh(k)
     /\ lastSweep' = IF swept THEN clock ELSE lastSweep
     /\ buckets' = IF crowded /\ Full(left) THEN left ELSE Renewed(left, k)
     /\ UNCHANGED <<clock, failures, rate, heldUntil, failHeld, spent>>

Count(k) ==
  LET b == Get(buckets, k)
  IN /\ ~Fresh(k)
     /\ IF b.count >= MaxRequests
        THEN /\ heldUntil' = [heldUntil EXCEPT ![k] = b.start + Window]
             /\ UNCHANGED buckets
        ELSE /\ buckets' = Put(buckets, k, [b EXCEPT !.count = @ + 1])
             /\ UNCHANGED heldUntil
     /\ UNCHANGED <<clock, lastSweep, failures, rate, failHeld, spent>>

(* The limiter's timer.                                                    *)
SweepTimer ==
  /\ buckets' = Sweep(buckets)
  /\ UNCHANGED <<clock, lastSweep, failures, rate, heldUntil, failHeld, spent>>

-----------------------------------------------------------------------------
(* An instructor request from address k with a wrong token.  A right one   *)
(* changes nothing.                                                        *)
Barred(k) == Has(failures, k) /\ Throttled(Get(failures, k))

Bar(k) ==
  /\ Barred(k)
  /\ failHeld' = [failHeld EXCEPT ![k] = Get(failures, k).start + Window]
  /\ UNCHANGED <<clock, buckets, lastSweep, failures, rate, heldUntil, spent>>

Counted(b) == [b EXCEPT !.count = @ + 1]

(* The whole table is read when it is full, and an address that starts a   *)
(* new window keeps its place.                                             *)
WrongToken(k) ==
  LET crowded == ~Has(failures, k) /\ Full(failures)
      left == IF crowded THEN Scan(failures, Len(failures)) ELSE failures
  IN /\ ~Barred(k)
     /\ failures' =
          IF Has(failures, k)
          THEN Put(failures, k, IF Expired(Get(failures, k)) THEN NewBucket(k)
                                ELSE Counted(Get(failures, k)))
          ELSE IF crowded /\ Full(left) THEN left
          ELSE Append(left, NewBucket(k))
     /\ UNCHANGED <<clock, buckets, lastSweep, rate, heldUntil, failHeld, spent>>

-----------------------------------------------------------------------------

(* The bucket as of now: whole tokens only, and what is left over of the   *)
(* time since the last refill is lost.                                     *)
Refilled(r) ==
  LET earned == (clock - r.lastRefill) \div Refill
  IN IF earned > 0
     THEN [tokens |-> IF r.tokens + earned < Burst THEN r.tokens + earned ELSE Burst,
           lastRefill |-> clock]
     ELSE r

ConsumeRateToken ==
  LET r == Refilled(rate)
  IN IF r.tokens <= 0
     THEN rate' = r /\ UNCHANGED <<clock, buckets, lastSweep, failures, heldUntil, failHeld, spent>>
     ELSE /\ rate' = [r EXCEPT !.tokens = @ - 1]
          /\ spent' = Append(spent, clock)
          /\ UNCHANGED <<clock, buckets, lastSweep, failures, heldUntil, failHeld>>

PassTime ==
  /\ clock < MaxClock
  /\ clock' = clock + 1
  /\ UNCHANGED <<buckets, lastSweep, failures, rate, heldUntil, failHeld, spent>>

LimiterNext == SweepTimer \/ \E k \in Keys : Admit(k) \/ Count(k)

InstructorNext == \E k \in Keys : Bar(k) \/ WrongToken(k)

LimitsNext == LimiterNext \/ InstructorNext \/ ConsumeRateToken \/ PassTime

LimitsSpec == LimitInit /\ [][LimitsNext]_limitVars

-----------------------------------------------------------------------------
(* Once its bucket has refused a key, the key is refused until its window  *)
(* is over, however many other keys crowd the table ("A throttled bucket   *)
(* is never evicted, or flooding fresh keys would reset it"); the same for *)
(* an address that guesses instructor tokens.                              *)
ThrottledHeld ==
  \A k \in Keys :
    /\ heldUntil[k] > clock => Has(buckets, k) /\ Throttled(Get(buckets, k))
    /\ failHeld[k] > clock => Has(failures, k) /\ Throttled(Get(failures, k))

(* The front of the limiter's Map stays the oldest, and it never holds     *)
(* more buckets than its cap nor two of one key: what the bounded scan     *)
(* relies on.                                                              *)
FrontIsOldest ==
  /\ Len(buckets) <= MaxBuckets
  /\ \A i, j \in DOMAIN buckets : i < j =>
        buckets[i].start <= buckets[j].start /\ buckets[i].key # buckets[j].key

(* A session's telemetry is one request per Refill with bursts of Burst:   *)
(* over any stretch of time no more tokens are spent than were saved up    *)
(* and earned in it.                                                       *)
BurstBound ==
  \A i, j \in DOMAIN spent : i <= j =>
    j - i + 1 <= Burst + (spent[j] - spent[i] + Refill - 1) \div Refill

(* What the three limiters of the server (rateLimit.js, instructorFailures *)
(* and consumeRateToken in server.js) hold whoever crowds their tables.    *)
LimitsHold == ThrottledHeld /\ FrontIsOldest /\ BurstBound
=============================================================================
