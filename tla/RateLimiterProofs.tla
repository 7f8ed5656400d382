------------------------- MODULE RateLimiterProofs --------------------------
(***************************************************************************)
(* Proofs about RateLimiter and about its promise to one client, which may *)
(* be any, for every capacity, rate, size of the Map and range of clocks.  *)
(***************************************************************************)
EXTENDS RateLimiterPromise, TLAPS

USE RateAssumption, AbsentAssumption

LEMMA FullType == Full \in Nat /\ TokenCost \in Nat /\ TokenCost > 0 /\ Full >= TokenCost
<1>1. \A c, t \in Nat \ {0} : c * t \in Nat /\ c * t >= t
  OBVIOUS
<1>2. QED
  BY <1>1 DEF Full

(* Refilling only adds tokens and only moves a bucket's clock forwards.    *)
LEMMA RefillType ==
  ASSUME now \in 0..MaxTime, NEW b \in Bucket
  PROVE  /\ Refill(b) \in Bucket
         /\ Refill(b).tokens >= b.tokens
         /\ Refill(b).lastRefill >= b.lastRefill
         /\ Refill(b).lastRefill >= now
BY FullType DEF Refill, Bucket, AtMostFull

(* The bucket take leaves behind.                                          *)
LEMMA TakenType ==
  ASSUME TypeOK, NEW k \in Keys, Take(k)
  PROVE  /\ CurrentBucket(k) \in Bucket
         /\ buckets'[k] \in Bucket
         /\ buckets'[k].tokens = CurrentBucket(k).tokens - Cost(Admits(k))
         /\ buckets'[k].lastRefill = CurrentBucket(k).lastRefill
<1>1. CurrentBucket(k) \in Bucket
  BY FullType, RefillType DEF TypeOK, CurrentBucket, Bucket
<1>2. buckets'[k] = [tokens |-> CurrentBucket(k).tokens - Cost(Admits(k)),
                     lastRefill |-> CurrentBucket(k).lastRefill]
  BY DEF Take
<1>3. CurrentBucket(k).tokens - Cost(Admits(k)) \in 0..Full
  BY <1>1, FullType DEF Bucket, Cost, Admits
<1>4. QED
  BY <1>1, <1>2, <1>3 DEF Bucket

(***************************************************************************)
(* The Map.                                                                *)
(***************************************************************************)
LEMMA InitIInv == Init => IInv
BY DEF Init, IInv, TypeOK, OrderIsTracked, Bounded

LEMMA TakeIInv == ASSUME IInv, NEW k \in Keys, Take(k) PROVE IInv'
<1>1. /\ TypeOK /\ order \in Seq(Keys) /\ now' = now
      /\ buckets \in [Keys -> Bucket \cup {Absent}]
      /\ Len(order) \in Nat /\ Len(order) <= MaxKeys
  BY DEF IInv, TypeOK, Bounded, Take
<1>2. /\ buckets'[k] \in Bucket /\ buckets'[k] # Absent
      /\ \A j \in Keys \ {k} : buckets'[j] = IF j \in Evicted(k) THEN Absent ELSE buckets[j]
      /\ DOMAIN buckets' = Keys
  BY <1>1, TakenType DEF Take
<1>3. CASE buckets[k] # Absent
  <2>1. order' = order /\ \A j \in Keys : buckets'[j] # Absent <=> buckets[j] # Absent
    BY <1>2, <1>3 DEF Take, Evicted
  <2>2. buckets' \in [Keys -> Bucket \cup {Absent}]
    BY <1>1, <1>2, <1>3 DEF Evicted, Take
  <2>3. QED
    BY <1>1, <2>1, <2>2 DEF IInv, TypeOK, OrderIsTracked, Bounded
<1>4. CASE buckets[k] = Absent /\ Len(order) < MaxKeys
  <2>1. order' = Append(order, k) /\ \A j \in Keys \ {k} : buckets'[j] = buckets[j]
    BY <1>1, <1>2, <1>4 DEF Take, Evicted
  <2>2. buckets' \in [Keys -> Bucket \cup {Absent}]
    BY <1>1, <1>2, <2>1 DEF Take
  <2>3. \A i \in 1..Len(order) : order[i] # k
    BY <1>4 DEF IInv, OrderIsTracked
  <2>4. /\ Len(order') = Len(order) + 1
        /\ \A i \in 1..Len(order) : order'[i] = order[i]
        /\ order'[Len(order) + 1] = k
    BY <1>1, <2>1
  <2>5. OrderIsTracked'
    BY <1>1, <1>2, <2>1, <2>3, <2>4 DEF IInv, OrderIsTracked
  <2>6. QED
    BY <1>1, <1>4, <2>1, <2>2, <2>4, <2>5 DEF IInv, TypeOK, Bounded
<1>5. CASE buckets[k] = Absent /\ Len(order) >= MaxKeys
  <2>1. Evicted(k) = {order[1]} /\ order # <<>>
    BY <1>1, <1>5 DEF Evicted
  <2>2. /\ order' = Append(Tail(order), k)
        /\ \A j \in Keys \ {k} : buckets'[j] = IF j = order[1] THEN Absent ELSE buckets[j]
    BY <1>2, <1>5, <2>1 DEF Take
  <2>3. buckets' \in [Keys -> Bucket \cup {Absent}]
    BY <1>1, <1>2, <2>2 DEF Take
  <2>4. \A i \in 1..Len(order) : order[i] # k /\ order[i] \in Keys
    BY <1>1, <1>5 DEF IInv, OrderIsTracked
  <2>5. /\ Len(order') = Len(order)
        /\ \A i \in 1..(Len(order) - 1) : order'[i] = order[i + 1]
        /\ order'[Len(order)] = k
    BY <1>1, <2>1, <2>2
  <2>6. \A j \in Keys : buckets'[j] # Absent <=> \E i \in 1..Len(order') : order'[i] = j
    <3>1. ASSUME NEW j \in Keys, j # k
          PROVE  buckets'[j] # Absent <=> \E i \in 1..Len(order') : order'[i] = j
      <4>1. buckets'[j] # Absent <=> \E i \in 2..Len(order) : order[i] = j
        BY <1>1, <2>2, <2>1, <3>1 DEF IInv, OrderIsTracked
      <4>2. (\E i \in 2..Len(order) : order[i] = j)
              <=> \E i \in 1..Len(order') : order'[i] = j
        <5>1. ASSUME NEW i \in 2..Len(order), order[i] = j
              PROVE  i - 1 \in 1..Len(order') /\ order'[i - 1] = j
          BY <1>1, <2>5, <5>1
        <5>2. ASSUME NEW i \in 1..Len(order'), order'[i] = j
              PROVE  i + 1 \in 2..Len(order) /\ order[i + 1] = j
          <6>1. i \in 1..Len(order) /\ i # Len(order)
            BY <1>1, <2>5, <3>1, <5>2
          <6>2. QED
            BY <1>1, <2>5, <5>2, <6>1
        <5>3. QED
          BY <5>1, <5>2
      <4>3. QED
        BY <4>1, <4>2
    <3>2. QED
      BY <1>1, <1>2, <2>1, <2>5, <3>1
  <2>7. \A i, j \in 1..Len(order') : order'[i] = order'[j] => i = j
    BY <1>1, <2>4, <2>5 DEF IInv, OrderIsTracked
  <2>8. QED
    BY <1>1, <2>2, <2>3, <2>5, <2>6, <2>7 DEF IInv, TypeOK, OrderIsTracked, Bounded
<1>6. QED
  BY <1>1, <1>3, <1>4, <1>5

LEMMA NextIInv == IInv /\ [Next]_vars => IInv'
<1> SUFFICES ASSUME IInv, [Next]_vars PROVE IInv'
  OBVIOUS
<1>1. CASE \E t \in 0..MaxTime : SetClock(t)
  BY <1>1 DEF SetClock, IInv, TypeOK, OrderIsTracked, Bounded
<1>2. CASE UNCHANGED vars
  BY <1>2 DEF vars, IInv, TypeOK, OrderIsTracked, Bounded
<1>3. QED
  BY <1>1, <1>2, TakeIInv DEF Next

(***************************************************************************)
(* The promise to the client.                                              *)
(***************************************************************************)
USE ClientAssumption

LEMMA InitPInv == PInit => PInv
BY DEF PInit, Init, PInv, HistoryTypeOK, NeverBehind, LeadPaysForTokens, Conserved, Tracked

(* The own bucket after its refill.                                        *)
LEMMA OwnType ==
  ASSUME TypeOK, HistoryTypeOK
  PROVE  /\ OwnNow \in Bucket
         /\ OwnNow.tokens - Cost(OwnAdmits) \in 0..Full
         /\ OwnNow.lastRefill >= now
<1>1. OwnNow \in Bucket /\ OwnNow.lastRefill >= now
  BY FullType DEF TypeOK, HistoryTypeOK, OwnNow, Bucket, AtMostFull
<1>2. QED
  BY <1>1, FullType DEF Bucket, Cost, OwnAdmits

(* Refilling keeps what the lead pays for: the kept bucket's clock is      *)
(* behind, so it gains at least as much, or it is full.                    *)
LEMMA RefillKeepsLead ==
  ASSUME TypeOK, PInv
  PROVE  /\ CurrentBucket(Client).tokens + lead * TokenCost >= OwnNow.tokens
         /\ CurrentBucket(Client).lastRefill <= OwnNow.lastRefill
<1> DEFINE paid == lead * TokenCost
<1>1. paid \in Int /\ paid >= 0
  BY FullType DEF PInv, HistoryTypeOK, NeverBehind
<1> HIDE DEF paid
<1>2. OwnNow \in Bucket /\ OwnNow.lastRefill >= now
  BY OwnType DEF PInv
<1>3. CASE buckets[Client] = Absent
  BY <1>1, <1>2, <1>3, FullType DEF CurrentBucket, Bucket, TypeOK, paid
<1>4. CASE buckets[Client] # Absent
  <2>1. /\ buckets[Client] \in Bucket /\ own \in Bucket
        /\ buckets[Client].tokens + paid >= own.tokens
        /\ buckets[Client].lastRefill <= own.lastRefill
        /\ now \in 0..MaxTime
    BY <1>4 DEF TypeOK, PInv, LeadPaysForTokens, HistoryTypeOK, Tracked, paid
  <2>2. CurrentBucket(Client) = Refill(buckets[Client])
    BY <1>4 DEF CurrentBucket
  <2>3. OwnNow = IF now > own.lastRefill
                 THEN [tokens |-> AtMostFull(own.tokens + (now - own.lastRefill)),
                       lastRefill |-> now]
                 ELSE own
    BY <2>1 DEF OwnNow
  <2>4. Refill(buckets[Client]).tokens + paid >= OwnNow.tokens
    BY <1>1, <2>1, <2>3, FullType DEF Refill, Bucket, AtMostFull
  <2>5. Refill(buckets[Client]).lastRefill <= OwnNow.lastRefill
    BY <2>1, <2>3 DEF Refill, Bucket
  <2>6. QED
    BY <2>2, <2>4, <2>5 DEF paid
<1>5. QED
  BY <1>3, <1>4

(* The client's own call.  It is behind by a call only if the own bucket   *)
(* has a token that the kept one lacks, and then the lead is positive.     *)
LEMMA ClientTakesPInv == ASSUME TypeOK, PInv, ClientTakes PROVE PInv'
<1> DEFINE here == CurrentBucket(Client)
<1>1. /\ lead \in Int /\ lead >= 0 /\ spent \in Nat /\ created \in 0..MaxTime
      /\ now \in 0..MaxTime /\ now' = now
      /\ Client \in Keys
  BY DEF TypeOK, PInv, HistoryTypeOK, NeverBehind, ClientTakes, Take
<1>2. /\ here \in Bucket
      /\ buckets'[Client] \in Bucket
      /\ buckets'[Client].tokens = here.tokens - Cost(Admits(Client))
      /\ buckets'[Client].lastRefill = here.lastRefill
  BY TakenType DEF ClientTakes
<1>3. /\ OwnNow \in Bucket /\ own' \in Bucket
      /\ own'.tokens = OwnNow.tokens - Cost(OwnAdmits)
      /\ own'.lastRefill = OwnNow.lastRefill
  BY OwnType DEF PInv, ClientTakes, Bucket
<1>4. /\ here.tokens \in 0..Full /\ OwnNow.tokens \in 0..Full
      /\ here.lastRefill \in 0..MaxTime
      /\ here.tokens + lead * TokenCost >= OwnNow.tokens
      /\ here.lastRefill <= OwnNow.lastRefill
  BY <1>2, <1>3, RefillKeepsLead DEF Bucket
<1>5. lead' = lead + One(Admits(Client)) - One(OwnAdmits)
  BY DEF ClientTakes
<1>6. /\ \A n \in Int : (n + 1) * TokenCost = n * TokenCost + TokenCost
      /\ \A n \in Int : (n - 1) * TokenCost = n * TokenCost - TokenCost
      /\ \A n \in Int : n * TokenCost \in Int
      /\ 0 * TokenCost = 0
  BY FullType
<1>7. NeverBehind' /\ lead' \in Int
  <2>1. CASE OwnAdmits /\ ~Admits(Client)
    <3>1. lead * TokenCost > 0
      BY <1>1, <1>4, <1>6, <2>1, FullType DEF OwnAdmits, Admits
    <3>2. lead # 0
      BY <1>6, <3>1
    <3>3. QED
      BY <1>1, <1>5, <2>1, <3>2 DEF One, NeverBehind
  <2>2. CASE ~(OwnAdmits /\ ~Admits(Client))
    BY <1>1, <1>5, <2>2 DEF One, NeverBehind
  <2>3. QED
    BY <2>1, <2>2
<1>8. here.tokens - Cost(Admits(Client)) + lead' * TokenCost
        >= OwnNow.tokens - Cost(OwnAdmits)
  <2> DEFINE paid == lead * TokenCost
             paidNow == lead' * TokenCost
  <2>1. paid \in Int /\ paidNow = paid + Cost(Admits(Client)) - Cost(OwnAdmits)
    BY <1>1, <1>5, <1>6, FullType DEF One, Cost
  <2>2. here.tokens + paid >= OwnNow.tokens
    BY <1>4
  <2> HIDE DEF paid, paidNow
  <2>3. here.tokens - Cost(Admits(Client)) + paidNow >= OwnNow.tokens - Cost(OwnAdmits)
    BY <1>4, <2>1, <2>2, FullType DEF Cost
  <2>4. QED
    BY <2>3 DEF paidNow
<1>9. LeadPaysForTokens'
  BY <1>2, <1>3, <1>4, <1>8, AbsentAssumption DEF LeadPaysForTokens
<1>10. spent' \in Nat /\ created' \in 0..MaxTime
  BY <1>1, FullType DEF ClientTakes, Cost
<1>11. /\ created' <= here.lastRefill
       /\ spent' + (here.tokens - Cost(Admits(Client))) <= Full + (here.lastRefill - created')
  <2>1. spent' = Cost(Admits(Client)) + (IF buckets[Client] = Absent THEN 0 ELSE spent)
        /\ created' = IF buckets[Client] = Absent THEN now ELSE created
    BY DEF ClientTakes
  <2>2. Cost(Admits(Client)) \in Nat
    BY FullType DEF Cost
  <2>3. CASE buckets[Client] = Absent
    BY <1>1, <2>1, <2>2, <2>3, FullType DEF CurrentBucket
  <2>4. CASE buckets[Client] # Absent
    <3>1. /\ buckets[Client] \in Bucket
          /\ created <= buckets[Client].lastRefill
          /\ spent + buckets[Client].tokens <= Full + (buckets[Client].lastRefill - created)
      BY <1>1, <2>4 DEF TypeOK, PInv, Conserved, Tracked
    <3>2. here = Refill(buckets[Client])
      BY <2>4 DEF CurrentBucket
    <3>3. /\ created <= here.lastRefill
          /\ spent + here.tokens <= Full + (here.lastRefill - created)
      BY <1>1, <3>1, <3>2, FullType DEF Refill, AtMostFull, Bucket
    <3>4. QED
      BY <1>1, <1>4, <2>1, <2>2, <2>4, <3>3
  <2>5. QED
    BY <2>3, <2>4
<1>12. Conserved'
  BY <1>2, <1>11 DEF Conserved
<1>13. QED
  BY <1>3, <1>7, <1>9, <1>10, <1>12 DEF PInv, HistoryTypeOK

(* Another client's call keeps the client's bucket or forgets it; a clock  *)
(* that is set touches no bucket.                                          *)
LEMMA OthersMovePInv == ASSUME TypeOK, PInv, OthersMove PROVE PInv'
<1>1. buckets'[Client] \in {buckets[Client], Absent}
  <2>1. CASE \E k \in Keys \ {Client} : Take(k)
    BY <2>1 DEF Take
  <2>2. CASE \E t \in 0..MaxTime : SetClock(t)
    BY <2>2 DEF SetClock
  <2>3. QED
    BY <2>1, <2>2 DEF OthersMove
<1>2. own' = own /\ lead' = lead /\ spent' = spent /\ created' = created
  BY DEF OthersMove, watched
<1>3. QED
  BY <1>1, <1>2 DEF PInv, HistoryTypeOK, NeverBehind, LeadPaysForTokens, Conserved, Tracked

LEMMA PNextInv == IInv /\ PInv /\ [PNext]_<<vars, watched>> => IInv' /\ PInv'
<1> SUFFICES ASSUME IInv, PInv, [PNext]_<<vars, watched>> PROVE IInv' /\ PInv'
  OBVIOUS
<1>1. [Next]_vars
  BY DEF PNext, ClientTakes, OthersMove, Next, vars
<1>2. IInv'
  BY <1>1, NextIInv
<1>3. CASE UNCHANGED <<vars, watched>>
  <2>1. buckets' = buckets /\ own' = own /\ lead' = lead /\ spent' = spent /\ created' = created
    BY <1>3 DEF vars, watched
  <2>2. PInv'
    BY <2>1 DEF PInv, HistoryTypeOK, NeverBehind, LeadPaysForTokens, Conserved, Tracked
  <2>3. QED
    BY <1>2, <2>2
<1>4. QED
  BY <1>2, <1>3, ClientTakesPInv, OthersMovePInv DEF PNext, IInv

LEMMA PromiseInvariance == PSpec => [](IInv /\ PInv)
<1>1. PInit => IInv /\ PInv
  BY InitIInv, InitPInv DEF PInit
<1>2. QED
  BY <1>1, PNextInv, PTL DEF PSpec

(* The Map is bounded and consistent, for every mix of clients.            *)
THEOREM MapInvariance == PSpec => []IInv
<1>1. QED
  BY PromiseInvariance, PTL

(* No client is ever behind a bucket of its own: neither evictions, nor    *)
(* other clients, nor a clock set back cost it a call.                     *)
THEOREM NeverBehindHolds == PSpec => []NeverBehind
<1>1. PInv => NeverBehind
  BY DEF PInv
<1>2. QED
  BY <1>1, PromiseInvariance, PTL

(* While its bucket is kept no client gets more than a full bucket and     *)
(* what the clock refilled.                                                *)
THEOREM RateHoldsAlways == PSpec => []RateHolds
<1>1. IInv /\ PInv => RateHolds
  <2> SUFFICES ASSUME IInv, PInv, Client \in Tracked
               PROVE  spent <= Full + (buckets[Client].lastRefill - created)
    BY DEF RateHolds
  <2>1. buckets[Client] \in Bucket
    BY DEF IInv, TypeOK, Tracked
  <2>2. QED
    BY <2>1, FullType DEF PInv, Conserved, HistoryTypeOK, Bucket
<1>2. QED
  BY <1>1, PromiseInvariance, PTL
=============================================================================
