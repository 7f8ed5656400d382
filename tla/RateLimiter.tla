---------------------------- MODULE RateLimiter -----------------------------
(***************************************************************************)
(* createRateLimiter of applications/web/app/lib/rate-limit.server.ts: a   *)
(* token bucket per key in a Map that holds at most maxKeys of them and    *)
(* forgets the oldest created first.                                       *)
(*                                                                         *)
(* Tokens are counted in what one clock tick refills, so one token is      *)
(* TokenCost units and refill adds the ticks elapsed; the rounding of the  *)
(* code's floating point numbers is left out.  The clock is Date.now, a    *)
(* wall clock: it may jump forwards and be set back.                       *)
(***************************************************************************)
EXTENDS Integers, Sequences

CONSTANTS
  Keys,      \* the client addresses
  Capacity,  \* tokens a bucket holds
  TokenCost, \* ticks that refill one token
  MaxKeys,   \* buckets kept
  MaxTime,   \* bound on the clock
  Absent     \* in place of the bucket of a key the Map does not hold

ASSUME RateAssumption ==
  /\ Capacity \in Nat \ {0} /\ TokenCost \in Nat \ {0}
  /\ MaxKeys \in Nat \ {0} /\ MaxTime \in Nat

Full == Capacity * TokenCost

Bucket == [tokens : 0..Full, lastRefill : 0..MaxTime]

(* A record has fields, Absent has none.                                   *)
ASSUME AbsentAssumption == Absent \notin Bucket

VARIABLES
  now,     \* what Date.now returns
  buckets, \* buckets[k]: key k's bucket, Absent when the Map has none
  order    \* the Map's keys in insertion order

vars == <<now, buckets, order>>

Tracked == {k \in Keys : buckets[k] # Absent}

Init ==
  /\ now \in 0..MaxTime
  /\ buckets = [k \in Keys |-> Absent]
  /\ order = <<>>

(***************************************************************************)
(* take(key)                                                               *)
(***************************************************************************)
AtMostFull(n) == IF n <= Full THEN n ELSE Full

\* Mutant: the early return on a clock that was set back is missing.
RefillBackwards(b) ==
  [tokens |-> AtMostFull(b.tokens + (now - b.lastRefill)), lastRefill |-> now]

\* Mutant: lastRefill is not advanced.
RefillAgain(b) ==
  IF now <= b.lastRefill THEN b
  ELSE [b EXCEPT !.tokens = AtMostFull(@ + (now - b.lastRefill))]

Refill(b) ==
  IF now <= b.lastRefill THEN b
  ELSE [tokens |-> AtMostFull(b.tokens + (now - b.lastRefill)), lastRefill |-> now]

(* The bucket take works on: key's own, refilled, or a new full one.       *)
CurrentBucket(k) ==
  IF buckets[k] # Absent THEN Refill(buckets[k])
  ELSE [tokens |-> Full, lastRefill |-> now]

(* What take(k) would return now.                                          *)
Admits(k) == CurrentBucket(k).tokens >= TokenCost

Cost(admitted) == IF admitted THEN TokenCost ELSE 0

\* Mutant: the oldest key goes only when there are more than maxKeys.
EvictedLate(k) ==
  IF buckets[k] = Absent /\ Len(order) > MaxKeys THEN {Head(order)} ELSE {}

(* The key forgotten to make room for a new one.                           *)
Evicted(k) ==
  IF buckets[k] = Absent /\ Len(order) >= MaxKeys THEN {Head(order)} ELSE {}

Take(k) ==
  /\ buckets' = [j \in Keys |->
                   IF j = k
                   THEN [tokens |-> CurrentBucket(k).tokens - Cost(Admits(k)),
                         lastRefill |-> CurrentBucket(k).lastRefill]
                   ELSE IF j \in Evicted(k) THEN Absent ELSE buckets[j]]
  /\ order' = IF buckets[k] # Absent THEN order
              ELSE Append(IF Evicted(k) = {} THEN order ELSE Tail(order), k)
  /\ UNCHANGED now

SetClock(t) ==
  /\ now' = t
  /\ UNCHANGED <<buckets, order>>

Next == (\E k \in Keys : Take(k)) \/ (\E t \in 0..MaxTime : SetClock(t))

Spec == Init /\ [][Next]_vars

TypeOK ==
  /\ now \in 0..MaxTime
  /\ buckets \in [Keys -> Bucket \cup {Absent}]
  /\ order \in Seq(Keys)

(* The Map holds the buckets it says it holds, each once.                  *)
OrderIsTracked ==
  /\ \A k \in Keys : buckets[k] # Absent <=> \E i \in 1..Len(order) : order[i] = k
  /\ \A i, j \in 1..Len(order) : order[i] = order[j] => i = j

(* However many clients come, at most maxKeys buckets are kept.            *)
Bounded == Len(order) <= MaxKeys

IInv == TypeOK /\ OrderIsTracked /\ Bounded
=============================================================================
