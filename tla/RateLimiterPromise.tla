------------------------- MODULE RateLimiterPromise -------------------------
(***************************************************************************)
(* What a client may expect of the limiter, whoever else calls and however *)
(* the clock is set.  Compared with a bucket of its own that nobody evicts *)
(* it is never behind in admitted calls; and while its bucket is kept, it  *)
(* gets no more than a full bucket and what the clock refilled since.      *)
(***************************************************************************)
EXTENDS RateLimiter

CONSTANTS
  Client,  \* the client watched; the others fill and empty the Map
  MaxLead  \* bound on lead

ASSUME ClientAssumption == Client \in Keys /\ MaxLead \in Nat

VARIABLES
  own,   \* the bucket the client would have in a limiter of its own
  lead,  \* its calls admitted here less those admitted there
  spent, \* units it was granted since its bucket was created
  created \* the clock when its bucket was created

watched == <<own, lead, spent, created>>

(* A token bucket, by its definition: full at first, it gains with the     *)
(* latest time it has seen, and loses a token per admitted call.           *)
OwnNow ==
  IF own = Absent THEN [tokens |-> Full, lastRefill |-> now]
  ELSE IF now > own.lastRefill
  THEN [tokens |-> AtMostFull(own.tokens + (now - own.lastRefill)),
        lastRefill |-> now]
  ELSE own

OwnAdmits == OwnNow.tokens >= TokenCost

PInit ==
  /\ Init
  /\ own = Absent
  /\ lead = 0
  /\ spent = 0
  /\ created = 0

One(admitted) == IF admitted THEN 1 ELSE 0

ClientTakes ==
  /\ lead < MaxLead
  /\ Take(Client)
  /\ own' = [tokens |-> OwnNow.tokens - Cost(OwnAdmits),
             lastRefill |-> OwnNow.lastRefill]
  /\ lead' = lead + One(Admits(Client)) - One(OwnAdmits)
  /\ spent' = Cost(Admits(Client)) + (IF buckets[Client] = Absent THEN 0 ELSE spent)
  /\ created' = IF buckets[Client] = Absent THEN now ELSE created

OthersMove ==
  /\ (\E k \in Keys \ {Client} : Take(k)) \/ (\E t \in 0..MaxTime : SetClock(t))
  /\ UNCHANGED watched

PNext == ClientTakes \/ OthersMove

PSpec == PInit /\ [][PNext]_<<vars, watched>>

(* Up to any moment, a client was admitted at least as often as a bucket   *)
(* of its own would have admitted the same calls: evictions, other clients *)
(* and clocks that step back never cost it a call.                         *)
NeverBehind == lead >= 0

(* Since its bucket was created, a client was granted at most a full       *)
(* bucket and one unit per tick the clock has advanced.                    *)
RateHolds ==
  Client \in Tracked => spent <= Full + (buckets[Client].lastRefill - created)

(***************************************************************************)
(* Strengthening                                                           *)
(***************************************************************************)
HistoryTypeOK ==
  /\ own \in Bucket \cup {Absent}
  /\ lead \in Int
  /\ spent \in Nat
  /\ created \in 0..MaxTime

(* A kept bucket lacks, of the own one's tokens, no more than what was     *)
(* granted ahead of it, and its clock is no further.                       *)
LeadPaysForTokens ==
  Client \in Tracked =>
    /\ own # Absent
    /\ buckets[Client].tokens + lead * TokenCost >= own.tokens
    /\ buckets[Client].lastRefill <= own.lastRefill

(* Nothing is granted that was not refilled.                               *)
Conserved ==
  Client \in Tracked =>
    /\ created <= buckets[Client].lastRefill
    /\ spent + buckets[Client].tokens <= Full + (buckets[Client].lastRefill - created)

PInv == HistoryTypeOK /\ NeverBehind /\ LeadPaysForTokens /\ Conserved
=============================================================================
