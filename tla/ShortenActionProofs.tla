------------------------ MODULE ShortenActionProofs ------------------------
(***************************************************************************)
(* Proofs about the shorten action, for any number of POSTs, clients,      *)
(* forms, codes and environments: on what normalisation, the limiter and   *)
(* the service promise apart rests what the action promises with them.     *)
(***************************************************************************)
EXTENDS ShortenAction, NormalizationProofs, RateLimiterProofs, FiniteSetTheorems,
        SequenceTheorems

(***************************************************************************)
(* Constants                                                               *)
(***************************************************************************)
LEMMA CodeLengthPositive ==
  ASSUME NEW env \in Environments
  PROVE  ShortCodeLength(env) \in Nat \ {0}
BY DefaultsAssumption DEF ShortCodeLength, ReadPositiveIntEnv, AtLeast

(* What an accepted form normalises to is a value of the service.          *)
LEMMA AcceptedForm ==
  ASSUME NEW f \in Forms, Accepts(f)
  PROVE  f \in Urls /\ ~TooLong(f) /\ Create(f) \in Values
<1>1. f \in RawUrls
  BY FormAssumption
<1>2. f \in Urls /\ ~FailsEarly(f) /\ Create(f) = Normalized(f)
  BY <1>1, AcceptedValue
<1> QED
  BY <1>2 DEF FailsEarly, Values

(* Under a setting that counts or lists the proxies before the server, the *)
(* address that is counted is the client's, whatever it is forwarded by.   *)
LEMMA OwnAddress ==
  ASSUME NEW env \in Environments, NEW k \in Keys, NEW forwarded \in Seq(Forwarders)
  PROVE  ReqIp(ParseTrustProxy(env.TRUST_PROXY), env.proxies \o <<k>> \o forwarded) = k
<1> DEFINE S == ProxyAddresses \cup Keys \cup Forwarders
           before == env.proxies
           n == Len(before)
           trusted == ParseTrustProxy(env.TRUST_PROXY)
           chain == before \o <<k>> \o forwarded
<1>1. /\ before \in Seq(S) /\ <<k>> \in Seq(S) /\ forwarded \in Seq(S)
      /\ Len(<<k>>) = 1 /\ <<k>>[1] = k /\ n \in Nat /\ Len(forwarded) \in Nat
  <2>1. before \in Seq(ProxyAddresses)
    BY DeploymentAssumption
  <2>2. before \in Seq(S) /\ forwarded \in Seq(S)
    BY <2>1, SeqMonotonic
  <2> QED
    BY <2>2, LenProperties
<1> HIDE DEF S, before
<1>2. /\ chain \in Seq(S) /\ Len(chain) = n + 1 + Len(forwarded)
      /\ \A i \in 1..n : chain[i] = before[i]
      /\ chain[n + 1] = k
  <2> DEFINE front == before \o <<k>>
  <2>1. /\ front \in Seq(S) /\ Len(front) = n + 1
        /\ \A i \in 1..(n + 1) : front[i] = IF i <= n THEN before[i] ELSE <<k>>[i - n]
    BY <1>1, ConcatProperties
  <2>2. (n + 1) - n = 1 /\ ~(n + 1 <= n) /\ n + 1 \in 1..(n + 1)
    BY <1>1
  <2>3. front[n + 1] = k /\ \A i \in 1..n : front[i] = before[i]
    BY <1>1, <2>1, <2>2
  <2> HIDE DEF front
  <2>4. /\ front \o forwarded \in Seq(S)
        /\ Len(front \o forwarded) = n + 1 + Len(forwarded)
        /\ \A i \in 1..(n + 1) : (front \o forwarded)[i] = front[i]
    <3>1. /\ front \o forwarded \in Seq(S)
          /\ Len(front \o forwarded) = Len(front) + Len(forwarded)
          /\ \A i \in 1..(Len(front) + Len(forwarded)) :
               (front \o forwarded)[i] =
                 IF i <= Len(front) THEN front[i] ELSE forwarded[i - Len(front)]
      BY <1>1, <2>1, ConcatProperties, Zenon
    <3>2. \A i \in 1..(n + 1) : i \in 1..((n + 1) + Len(forwarded)) /\ i <= n + 1
      BY <1>1
    <3> QED
      BY <2>1, <3>1, <3>2, Zenon
  <2> QED
    BY <1>1, <2>2, <2>3, <2>4 DEF front
<1>3. /\ \A i \in 1..n : Trusts(trusted, before[i], i - 1)
      /\ ~Trusts(trusted, k, n)
  <2>1. CASE env.TRUST_PROXY \in {Unset, Blank} /\ before = <<>>
    <3>1. trusted = 0 /\ trusted \notin Lists
      BY <2>1, ListAssumption DEF ParseTrustProxy
    <3>2. n = 0
      BY <1>1, <2>1, EmptySeq
    <3> QED
      BY <3>1, <3>2 DEF Trusts
  <2>2. CASE env.TRUST_PROXY \in Int /\ env.TRUST_PROXY = n
    <3>1. trusted = n /\ trusted \notin Lists
      BY <2>2, ListAssumption, DefaultsAssumption DEF ParseTrustProxy
    <3> QED
      BY <1>1, <3>1 DEF Trusts
  <2>3. CASE /\ env.TRUST_PROXY \in Lists /\ Keys \cap Listed[env.TRUST_PROXY] = {}
             /\ \A i \in 1..n : before[i] \in Listed[env.TRUST_PROXY]
    <3>1. trusted = env.TRUST_PROXY
      BY <2>3, ListAssumption DEF ParseTrustProxy
    <3> QED
      BY <2>3, <3>1 DEF Trusts
  <2> QED
    BY <2>1, <2>2, <2>3, DeploymentAssumption DEF before
<1> HIDE DEF chain, trusted
<1> DEFINE ends == {i \in 1..Len(chain) :
                      i = Len(chain) \/ ~Trusts(trusted, chain[i], i - 1)}
<1>4. n + 1 \in ends /\ \A i \in ends : i \in Int /\ n + 1 <= i
  <2>1. (n + 1) - 1 = n /\ n + 1 \in 1..Len(chain)
    BY <1>1, <1>2
  <2>2. n + 1 \in ends
    BY <1>2, <1>3, <2>1
  <2>3. ASSUME NEW i \in 1..n PROVE i \notin ends
    <3>1. i # Len(chain)
      BY <1>1, <1>2
    <3> QED
      BY <1>2, <1>3, <3>1
  <2> QED
    BY <1>1, <1>2, <2>2, <2>3
<1> HIDE DEF ends
<1>5. (CHOOSE i \in ends : \A j \in ends : i <= j) = n + 1
  <2>1. \A i \in ends : (\A j \in ends : i <= j) => i = n + 1
    BY <1>1, <1>4
  <2> QED
    BY <1>4, <2>1
<1>6. ReqIp(trusted, chain) = chain[CHOOSE i \in ends : \A j \in ends : i <= j]
  BY DEF ReqIp, ends
<1> QED
  BY <1>2, <1>5, <1>6 DEF chain, trusted, before

(***************************************************************************)
(* What the calls are told and what the service knows of them              *)
(***************************************************************************)
Records == StagesMatch /\ ServiceTypeOK /\ FormsAreAsked

Table == CodesAreAssigned /\ CodesAreUsable

CallTypeOK ==
  /\ form \in [Calls -> Forms \cup {NoForm}]
  /\ stage \in [Calls -> {"idle", "reading", "shortening", "settled", "cut"}]
  /\ reply \in [Calls -> {0, 200, 400, 429, 500, 503}]

(* The parts of a POST.                                                    *)
LEMMA PostIs ==
  ASSUME AInv, NEW q \in Calls, NEW k \in Keys \cup {NoIp}, NEW f \in Forms,
         NEW forwarded \in {<<>>} \cup {<<g>> : g \in Forwarders},
         Post(q, k, forwarded, f)
  PROVE  /\ stage[q] = "idle" /\ form' = [form EXCEPT ![q] = f]
         /\ UNCHANGED <<config, served>>
         /\ \/ stage' = [stage EXCEPT ![q] = "reading"] /\ UNCHANGED reply
            \/ /\ stage' = [stage EXCEPT ![q] = "settled"]
               /\ reply' = [reply EXCEPT ![q] = 429]
         /\ \/ UNCHANGED <<limiter, history, reply>>
            \/ /\ k \in Keys /\ Take(k) /\ Counted(q, k)
               /\ \/ Admits(k) /\ UNCHANGED reply
                  \/ ~Admits(k) /\ reply' = [reply EXCEPT ![q] = 429]
<1>1. stage[q] = "idle" /\ form' = [form EXCEPT ![q] = f] /\ UNCHANGED <<config, served>>
  BY DEF Post, Arrives
<1>2. CASE k = NoIp
  BY <1>1, <1>2 DEF Post, FailsOpen, Moves
<1>3. CASE k # NoIp
  <2>1. k \in Keys
    BY <1>3
  <2>2. forwarded \in Seq(Forwarders)
    <3>1. ASSUME NEW g \in Forwarders PROVE <<g>> \in Seq(Forwarders)
      OBVIOUS
    <3>2. <<>> \in Seq(Forwarders)
      BY EmptySeq
    <3>3. forwarded = <<>> \/ \E g \in Forwarders : forwarded = <<g>>
      BY Zenon
    <3> QED
      BY <3>1, <3>2, <3>3, Zenon
  <2>3. ReqIp(setting, proxies \o <<k>> \o forwarded) = k
    BY <2>1, <2>2, OwnAddress DEF AInv, StartedWith
  <2>4. Limited(q, k) /\ Counted(q, k)
    BY <1>3, <2>3 DEF Post
  <2> QED
    BY <1>1, <2>1, <2>4 DEF Limited, Moves, Replies
<1> QED
  BY <1>2, <1>3

LEMMA PostRecords ==
  ASSUME AInv, NEW q \in Calls, NEW k \in Keys \cup {NoIp}, NEW f \in Forms,
         NEW forwarded \in {<<>>} \cup {<<g>> : g \in Forwarders},
         Post(q, k, forwarded, f)
  PROVE  CallTypeOK' /\ Records'
<1>1. /\ stage[q] = "idle" /\ form' = [form EXCEPT ![q] = f]
      /\ UNCHANGED <<codeOf, asked, status, answer>>
  BY PostIs DEF served
<1>2. status[q] = "idle" /\ reply[q] = 0
  BY <1>1 DEF AInv, ATypeOK, StagesMatch, FormsAreAsked
<1>3. \/ stage' = [stage EXCEPT ![q] = "reading"] /\ reply' = reply
      \/ stage' = [stage EXCEPT ![q] = "settled"] /\ reply' = [reply EXCEPT ![q] = 429]
  BY PostIs
<1>4. /\ CallTypeOK'
      /\ \A p \in Calls : p # q => /\ stage'[p] = stage[p] /\ reply'[p] = reply[p]
                                  /\ form'[p] = form[p]
      /\ form'[q] = f
      /\ \/ stage'[q] = "reading" /\ reply'[q] = 0
         \/ stage'[q] = "settled" /\ reply'[q] = 429
  BY <1>1, <1>2, <1>3 DEF AInv, ATypeOK, CallTypeOK
<1>5. StagesMatch'
  BY <1>1, <1>2, <1>4 DEF AInv, StagesMatch
<1>6. FormsAreAsked'
  BY <1>1, <1>2, <1>4 DEF AInv, FormsAreAsked
<1> QED
  BY <1>1, <1>4, <1>5, <1>6 DEF Records, AInv, ServiceTypeOK

(* A form that is accepted is asked of the service; any other is refused.  *)
LEMMA FormRecords ==
  ASSUME AInv, NEW q \in Calls, FormRead(q) \/ FormFails(q)
  PROVE  CallTypeOK' /\ Records'
<1>1. /\ stage[q] = "reading" /\ UNCHANGED <<form, codeOf, answer>>
      /\ form[q] \in Forms /\ status[q] = "idle" /\ reply[q] = 0
  BY DEF FormRead, FormFails, Asks, Replies, Moves, Service!Ask, served, AInv, ATypeOK,
         StagesMatch, FormsAreAsked
<1>2. CASE Accepts(form[q]) /\ Asks(q)
  <2> DEFINE u == Create(form[q])
  <2>1. u \in Values
    BY <1>1, <1>2, AcceptedForm
  <2>2. /\ stage' = [stage EXCEPT ![q] = "shortening"] /\ reply' = reply
        /\ asked' = [asked EXCEPT ![q] = u]
        /\ status' = [status EXCEPT ![q] = "pending"]
    BY <1>2 DEF Asks, Moves, Service!Ask
  <2> HIDE DEF u
  <2>3. CallTypeOK' /\ ServiceTypeOK'
    BY <1>1, <2>1, <2>2 DEF CallTypeOK, ServiceTypeOK, AInv, ATypeOK
  <2>4. /\ \A p \in Calls : p # q => /\ stage'[p] = stage[p] /\ asked'[p] = asked[p]
                                    /\ status'[p] = status[p]
        /\ stage'[q] = "shortening" /\ asked'[q] = u /\ status'[q] = "pending"
    BY <2>2 DEF AInv, ATypeOK, ServiceTypeOK
  <2>5. StagesMatch'
    BY <1>1, <2>2, <2>4 DEF AInv, StagesMatch
  <2>6. FormsAreAsked'
    BY <1>1, <1>2, <2>4 DEF AInv, FormsAreAsked, u
  <2> QED
    BY <2>3, <2>5, <2>6 DEF Records
<1>3. ASSUME NEW http \in {400, 500}, Replies(q, http), UNCHANGED served
      PROVE  CallTypeOK' /\ Records'
  <2>1. /\ stage' = [stage EXCEPT ![q] = "settled"] /\ reply' = [reply EXCEPT ![q] = http]
        /\ UNCHANGED <<asked, status>>
    BY <1>3 DEF Replies, Moves, served
  <2>2. CallTypeOK' /\ ServiceTypeOK'
    BY <1>1, <2>1 DEF CallTypeOK, ServiceTypeOK, AInv, ATypeOK
  <2>3. /\ \A p \in Calls : p # q => stage'[p] = stage[p] /\ reply'[p] = reply[p]
        /\ stage'[q] = "settled" /\ reply'[q] = http
    BY <2>1 DEF AInv, ATypeOK
  <2>4. StagesMatch' /\ FormsAreAsked'
    BY <1>1, <2>1, <2>3 DEF AInv, StagesMatch, FormsAreAsked
  <2> QED
    BY <2>2, <2>4 DEF Records
<1> QED
  BY <1>2, <1>3 DEF FormRead, FormFails

(* The use case settles: the call is told a code of the table, or refused. *)
LEMMA SettledRecords ==
  ASSUME AInv, NEW q \in Calls, Shortened(q) \/ Fails(q)
  PROVE  CallTypeOK' /\ Records'
<1>1. /\ stage[q] = "shortening" /\ UNCHANGED <<form, codeOf, asked>>
      /\ form[q] \in Forms /\ status[q] = "pending" /\ reply[q] = 0
      /\ Accepts(form[q]) /\ asked[q] = Create(form[q]) /\ asked[q] \in Values
  <2>1. stage[q] = "shortening" /\ UNCHANGED <<form, codeOf, asked>>
    BY DEF Shortened, Fails, Service!Answer, Service!Refuse
  <2>2. form[q] \in Forms /\ status[q] = "pending" /\ reply[q] = 0
    BY <2>1 DEF AInv, ATypeOK, StagesMatch, FormsAreAsked
  <2>3. Accepts(form[q]) /\ asked[q] = Create(form[q])
    BY <2>2 DEF AInv, FormsAreAsked
  <2> QED
    BY <2>1, <2>2, <2>3, AcceptedForm
<1>2. CASE Shortened(q)
  <2>1. /\ stage' = [stage EXCEPT ![q] = "settled"] /\ reply' = [reply EXCEPT ![q] = 200]
        /\ status' = [status EXCEPT ![q] = "answered"]
        /\ answer' = [answer EXCEPT ![q] = codeOf[asked[q]]]
        /\ codeOf[asked[q]] # NoCode
    BY <1>2 DEF Shortened, Service!Answer, Replies, Moves
  <2>2. CallTypeOK' /\ ServiceTypeOK'
    BY <1>1, <2>1 DEF CallTypeOK, ServiceTypeOK, AInv, ATypeOK
  <2>3. /\ \A p \in Calls : p # q => /\ stage'[p] = stage[p] /\ reply'[p] = reply[p]
                                    /\ status'[p] = status[p] /\ answer'[p] = answer[p]
        /\ stage'[q] = "settled" /\ reply'[q] = 200 /\ status'[q] = "answered"
        /\ answer'[q] = codeOf[asked[q]]
    BY <2>1 DEF AInv, ATypeOK, ServiceTypeOK
  <2>4. StagesMatch'
    BY <1>1, <2>3 DEF AInv, StagesMatch
  <2>5. FormsAreAsked'
    BY <1>1, <2>1, <2>3 DEF AInv, FormsAreAsked
  <2> QED
    BY <2>2, <2>4, <2>5 DEF Records
<1>3. CASE Fails(q)
  <2>1. PICK http \in {500, 503} :
          /\ stage' = [stage EXCEPT ![q] = "settled"] /\ reply' = [reply EXCEPT ![q] = http]
          /\ status' = [status EXCEPT ![q] = "refused"] /\ answer' = answer
    BY <1>3 DEF Fails, Service!Refuse, Replies, Moves
  <2>2. CallTypeOK' /\ ServiceTypeOK'
    BY <1>1, <2>1 DEF CallTypeOK, ServiceTypeOK, AInv, ATypeOK
  <2>3. /\ \A p \in Calls : p # q => /\ stage'[p] = stage[p] /\ reply'[p] = reply[p]
                                    /\ status'[p] = status[p]
        /\ stage'[q] = "settled" /\ reply'[q] = http /\ status'[q] = "refused"
    BY <2>1 DEF AInv, ATypeOK, ServiceTypeOK
  <2>4. StagesMatch'
    BY <1>1, <2>3 DEF AInv, StagesMatch
  <2>5. FormsAreAsked'
    BY <1>1, <2>1, <2>3 DEF AInv, FormsAreAsked
  <2> QED
    BY <2>2, <2>4, <2>5 DEF Records
<1> QED
  BY <1>2, <1>3

LEMMA InsertsRecords ==
  ASSUME AInv, NEW u \in Values, NEW c \in Codes, Inserts(u, c)
  PROVE  CallTypeOK' /\ Records'
<1>1. /\ codeOf' = [codeOf EXCEPT ![u] = c] /\ codeOf[u] = NoCode
      /\ UNCHANGED <<asked, status, answer, form, stage, reply>>
  BY DEF Inserts, Service!Assign, calls
<1>2. CallTypeOK' /\ ServiceTypeOK' /\ StagesMatch'
  BY <1>1 DEF AInv, ATypeOK, CallTypeOK, ServiceTypeOK, StagesMatch
<1>3. FormsAreAsked'
  <2> SUFFICES ASSUME NEW q \in Calls, status[q] = "answered"
               PROVE  answer[q] = codeOf'[asked[q]]
    BY <1>1 DEF AInv, FormsAreAsked
  <2>1. answer[q] = codeOf[asked[q]] /\ answer[q] # NoCode
    BY DEF AInv, FormsAreAsked
  <2> QED
    BY <1>1, <2>1 DEF AInv, ServiceTypeOK
<1> QED
  BY <1>2, <1>3 DEF Records

LEMMA CrashRecords ==
  ASSUME AInv, NEW env \in Environments, Crash(env)
  PROVE  CallTypeOK' /\ Records'
<1>1. /\ status' = [q \in Calls |-> IF status[q] = "pending" THEN "lost" ELSE status[q]]
      /\ stage' = [q \in Calls |-> IF stage[q] \in {"reading", "shortening"}
                                   THEN "cut" ELSE stage[q]]
      /\ UNCHANGED <<codeOf, asked, answer, form, reply>>
  BY DEF Crash, Service!Crash
<1>2. CallTypeOK' /\ ServiceTypeOK'
  BY <1>1 DEF CallTypeOK, ServiceTypeOK, AInv, ATypeOK
<1>3. StagesMatch' /\ FormsAreAsked'
  BY <1>1 DEF AInv, StagesMatch, FormsAreAsked
<1> QED
  BY <1>2, <1>3 DEF Records

(***************************************************************************)
(* The table                                                               *)
(***************************************************************************)
(* What is asked stays asked, and the table as it is.                      *)
LEMMA AskedStays ==
  ASSUME AInv, codeOf' = codeOf,
         \A q \in Calls : status[q] # "idle" => asked'[q] = asked[q] /\ status'[q] # "idle"
  PROVE  Table'
<1>1. CodesAreUsable'
  BY DEF AInv, CodesAreUsable
<1>2. CodesAreAssigned'
  <2> SUFFICES ASSUME NEW u \in Values, codeOf[u] # NoCode
               PROVE  /\ \A v \in Values : codeOf[v] = codeOf[u] => v = u
                      /\ \E q \in Calls : asked'[q] = u /\ status'[q] # "idle"
    BY DEF CodesAreAssigned
  <2>1. /\ \A v \in Values : codeOf[v] = codeOf[u] => v = u
        /\ \E q \in Calls : asked[q] = u /\ status[q] # "idle"
    BY DEF AInv, CodesAreAssigned
  <2> QED
    BY <2>1
<1> QED
  BY <1>1, <1>2 DEF Table

(* A code comes from the generator and is no other URL's; somebody waits.  *)
LEMMA InsertsTable ==
  ASSUME AInv, NEW u \in Values, NEW c \in Codes, Inserts(u, c)
  PROVE  Table'
<1>1. /\ codeOf' = [codeOf EXCEPT ![u] = c] /\ codeOf[u] = NoCode
      /\ UNCHANGED <<asked, status>>
      /\ \A v \in Values : codeOf[v] # c
      /\ \E q \in Calls : status[q] = "pending" /\ asked[q] = u
      /\ LengthOf[c] = codeLength /\ c # NoCode
  BY FormAssumption DEF Inserts, Service!Assign
<1>2. codeLength \in Nat /\ codeLength > 0
  BY CodeLengthPositive DEF AInv, StartedWith
<1>3. \A v \in Values : codeOf'[v] = IF v = u THEN c ELSE codeOf[v]
  BY <1>1 DEF AInv, ServiceTypeOK
<1>4. CodesAreUsable'
  BY <1>1, <1>2, <1>3 DEF AInv, CodesAreUsable
<1>5. CodesAreAssigned'
  <2> SUFFICES ASSUME NEW v \in Values, codeOf'[v] # NoCode
               PROVE  /\ \A w \in Values : codeOf'[w] = codeOf'[v] => w = v
                      /\ \E q \in Calls : asked[q] = v /\ status[q] # "idle"
    BY <1>1 DEF CodesAreAssigned
  <2>1. CASE v = u
    BY <1>1, <1>3, <2>1
  <2>2. CASE v # u
    BY <1>1, <1>3, <2>2 DEF AInv, CodesAreAssigned
  <2> QED
    BY <2>1, <2>2
<1> QED
  BY <1>4, <1>5 DEF Table

(***************************************************************************)
(* The limiter and its history                                             *)
(***************************************************************************)
LEMMA CallsAreFinite ==
  ASSUME NEW S \in SUBSET Calls
  PROVE  IsFiniteSet(S) /\ Cardinality(S) \in Nat
<1>1. IsFiniteSet(Calls)
  BY FormAssumption, FS_Interval DEF Calls
<1> QED
  BY <1>1, FS_Subset, FS_CardinalityType

HistoryOK == made \in [Keys -> SUBSET Calls] /\ since \in [Keys -> 0..MaxTime]

(* Whatever leaves the limiter alone grants nothing if a reply of 429      *)
(* stays one and no other becomes one.                                     *)
LEMMA TokensStay ==
  ASSUME AInv, UNCHANGED <<buckets, order, history>>, now' \in 0..MaxTime,
         \A q \in Calls : /\ reply'[q] = 429 <=> reply[q] = 429
                          /\ stage[q] # "idle" => stage'[q] # "idle"
  PROVE  IInv' /\ TokensAreKept' /\ HistoryOK'
<1>1. made' = made /\ since' = since
  BY DEF history
<1>2. IInv'
  BY DEF AInv, IInv, TypeOK, OrderIsTracked, Bounded
<1>3. HistoryOK'
  BY <1>1 DEF AInv, ATypeOK, HistoryOK
<1>4. \A k \in Keys : Granted(k)' = Granted(k)
  BY <1>1 DEF Granted, AInv, ATypeOK
<1>5. Tracked' = Tracked /\ Tracked \subseteq Keys
  BY DEF Tracked
<1>6. TokensAreKept'
  <2>1. \A k \in Keys : \A q \in made'[k] : stage'[q] # "idle"
    BY <1>1 DEF AInv, ATypeOK, TokensAreKept
  <2>2. \A k \in Tracked' :
          /\ since'[k] <= buckets'[k].lastRefill
          /\ Cardinality(Granted(k)') * TokenCost + buckets'[k].tokens
               <= Full + (buckets'[k].lastRefill - since'[k])
    BY <1>1, <1>4, <1>5 DEF AInv, TokensAreKept
  <2> QED
    BY <2>1, <2>2 DEF TokensAreKept
<1> QED
  BY <1>2, <1>3, <1>6

(* The bucket take works on has gained no more than the clock refilled.    *)
LEMMA RefillIsKept ==
  ASSUME AInv, NEW k \in Keys, NEW n \in Nat, NEW start,
         IF buckets[k] = Absent THEN n = 0 /\ start = now
         ELSE n = Cardinality(Granted(k)) /\ start = since[k]
  PROVE  /\ start <= CurrentBucket(k).lastRefill
         /\ n * TokenCost + CurrentBucket(k).tokens
              <= Full + (CurrentBucket(k).lastRefill - start)
<1> DEFINE used == n * TokenCost
<1>1. /\ now \in 0..MaxTime /\ Full \in Nat /\ used \in Nat /\ (n = 0 => used = 0)
      /\ buckets[k] \in Bucket \cup {Absent} /\ since[k] \in 0..MaxTime
  BY FullType DEF AInv, ATypeOK, IInv, TypeOK
<1> HIDE DEF used
<1>2. CASE buckets[k] = Absent
  <2>1. CurrentBucket(k) = [tokens |-> Full, lastRefill |-> now]
    BY <1>2 DEF CurrentBucket
  <2> QED
    BY <1>1, <1>2, <2>1, RateAssumption DEF used
<1>3. CASE buckets[k] # Absent
  <2>1. CurrentBucket(k) = Refill(buckets[k]) /\ buckets[k] \in Bucket
    BY <1>1, <1>3 DEF CurrentBucket
  <2>2. /\ start = since[k] /\ start <= buckets[k].lastRefill
        /\ used + buckets[k].tokens <= Full + (buckets[k].lastRefill - start)
    BY <1>3 DEF AInv, TokensAreKept, Tracked, used
  <2>3. /\ start <= Refill(buckets[k]).lastRefill
        /\ used + Refill(buckets[k]).tokens <= Full + (Refill(buckets[k]).lastRefill - start)
    BY <1>1, <2>1, <2>2, RateAssumption DEF Refill, AtMostFull, Bucket
  <2> QED
    BY <2>1, <2>3 DEF used
<1> QED
  BY <1>2, <1>3

LEMMA OneMore ==
  ASSUME NEW S, NEW x, IsFiniteSet(S), x \notin S
  PROVE  Cardinality(S \cup {x}) = Cardinality(S) + 1
<1>1. Cardinality(S \cup {x}) = IF x \in S THEN Cardinality(S) ELSE Cardinality(S) + 1
  BY FS_AddElement, Zenon
<1> QED
  BY <1>1

(* An admitted call takes a token out of its client's own bucket and is    *)
(* one more that was granted; a refused one is neither.                    *)
LEMMA TakeKeepsTokens ==
  ASSUME AInv, NEW q \in Calls, NEW k \in Keys, Take(k), Counted(q, k),
         stage[q] = "idle",
         \A p \in Calls : p # q => reply'[p] = reply[p] /\ stage'[p] = stage[p],
         stage'[q] # "idle",
         reply'[q] = 429 <=> ~Admits(k)
  PROVE  IInv' /\ TokensAreKept' /\ HistoryOK'
<1> DEFINE before == IF buckets[k] = Absent THEN {} ELSE Granted(k)
           n == Cardinality(before)
<1>1. IInv /\ TypeOK /\ TypeOK' /\ IInv' /\ now \in 0..MaxTime
  BY TakeIInv DEF AInv, IInv, TypeOK
<1>2. /\ made \in [Keys -> SUBSET Calls] /\ since \in [Keys -> 0..MaxTime]
      /\ \A j \in Keys : q \notin made[j]
      /\ \A j \in Keys : \A p \in made[j] : stage[p] # "idle"
  BY DEF AInv, ATypeOK, TokensAreKept
<1>3. /\ made' \in [Keys -> SUBSET Calls]
      /\ made'[k] = {q} \cup (IF buckets[k] = Absent THEN {} ELSE made[k])
      /\ \A j \in Keys : j # k => made'[j] = made[j]
  BY <1>2 DEF Counted
<1>4. /\ since' \in [Keys -> 0..MaxTime]
      /\ since'[k] = IF buckets[k] = Absent THEN now ELSE since[k]
      /\ \A j \in Keys : j # k => since'[j] = since[j]
  BY <1>1, <1>2 DEF Counted
<1>5. \A j \in Keys : \A p \in made'[j] : stage'[p] # "idle"
  BY <1>2, <1>3
<1>6. before \in SUBSET Calls /\ IsFiniteSet(before) /\ n \in Nat /\ q \notin before
  <2>1. before \in SUBSET Calls /\ q \notin before
    BY <1>2 DEF Granted
  <2> QED
    BY <2>1, CallsAreFinite
<1>7. Granted(k)' = IF Admits(k) THEN before \cup {q} ELSE before
  <2>1. \A p : p \in Granted(k)' <=> p \in made'[k] /\ reply'[p] # 429
    BY DEF Granted
  <2>2. \A p : p \in before <=> buckets[k] # Absent /\ p \in made[k] /\ reply[p] # 429
    BY DEF Granted
  <2>3. \A p \in made[k] : p # q /\ p \in Calls /\ reply'[p] = reply[p]
    BY <1>2
  <2> HIDE DEF before
  <2>4. CASE Admits(k)
    <3>1. \A p : p \in Granted(k)' <=> p \in before \cup {q}
      BY <1>3, <2>1, <2>2, <2>3, <2>4
    <3> QED
      BY <2>4, <3>1
  <2>5. CASE ~Admits(k)
    <3>1. \A p : p \in Granted(k)' <=> p \in before
      BY <1>3, <2>1, <2>2, <2>3, <2>5
    <3>2. Granted(k)' = before
      BY <3>1, Zenon
    <3> QED
      BY <2>5, <3>2
  <2> QED
    BY <2>4, <2>5
<1>8. /\ CurrentBucket(k) \in Bucket /\ buckets'[k] \in Bucket
      /\ buckets'[k].tokens = CurrentBucket(k).tokens - Cost(Admits(k))
      /\ buckets'[k].lastRefill = CurrentBucket(k).lastRefill
  BY <1>1, TakenType
<1>9. /\ since'[k] <= CurrentBucket(k).lastRefill
      /\ n * TokenCost + CurrentBucket(k).tokens
           <= Full + (CurrentBucket(k).lastRefill - since'[k])
  <2>1. CASE buckets[k] = Absent
    <3>1. n = 0
      BY <2>1, FS_EmptySet
    <3> QED
      BY <1>4, <1>6, <2>1, <3>1, RefillIsKept
  <2>2. CASE buckets[k] # Absent
    BY <1>4, <1>6, <2>2, RefillIsKept
  <2> QED
    BY <2>1, <2>2
<1>10. Cardinality(Granted(k)') * TokenCost = n * TokenCost + Cost(Admits(k))
  <2> HIDE DEF before
  <2>1. CASE Admits(k)
    <3>1. Granted(k)' = before \cup {q}
      BY <1>7, <2>1
    <3>2. Cardinality(before \cup {q}) = n + 1
      BY <1>6, OneMore
    <3>3. (n + 1) * TokenCost = n * TokenCost + TokenCost
      BY <1>6, FullType
    <3> QED
      BY <2>1, <3>1, <3>2, <3>3 DEF Cost
  <2>2. CASE ~Admits(k)
    <3>1. n * TokenCost = n * TokenCost + 0
      BY <1>6, FullType
    <3> QED
      BY <1>7, <2>2, <3>1 DEF Cost
  <2> QED
    BY <2>1, <2>2
<1>11. /\ since'[k] <= buckets'[k].lastRefill
       /\ Cardinality(Granted(k)') * TokenCost + buckets'[k].tokens
            <= Full + (buckets'[k].lastRefill - since'[k])
  <2> DEFINE used == n * TokenCost
             paid == Cost(Admits(k))
  <2>1. used \in Nat /\ paid \in Nat
    BY <1>6, FullType DEF Cost
  <2>2. CurrentBucket(k).tokens \in Nat
    BY <1>8, FullType DEF Bucket
  <2> HIDE DEF used, paid
  <2>3. (used + paid) + (CurrentBucket(k).tokens - paid) = used + CurrentBucket(k).tokens
    BY <2>1, <2>2
  <2> QED
    BY <1>8, <1>9, <1>10, <2>3 DEF used, paid
<1>12. ASSUME NEW j \in Keys, j # k, buckets'[j] # Absent
       PROVE  /\ since'[j] <= buckets'[j].lastRefill
              /\ Cardinality(Granted(j)') * TokenCost + buckets'[j].tokens
                   <= Full + (buckets'[j].lastRefill - since'[j])
  <2>1. buckets'[j] = buckets[j]
    BY <1>12 DEF Take
  <2>2. Granted(j)' = Granted(j)
    <3>1. \A p \in made[j] : reply'[p] = reply[p]
      BY <1>2
    <3> QED
      BY <1>3, <1>12, <3>1 DEF Granted
  <2> QED
    BY <1>4, <1>12, <2>1, <2>2 DEF AInv, TokensAreKept, Tracked
<1>13. TokensAreKept'
  BY <1>5, <1>11, <1>12 DEF TokensAreKept, Tracked
<1> QED
  BY <1>1, <1>3, <1>4, <1>13 DEF HistoryOK

LEMMA PostTokens ==
  ASSUME AInv, NEW q \in Calls, NEW k \in Keys \cup {NoIp}, NEW f \in Forms,
         NEW forwarded \in {<<>>} \cup {<<g>> : g \in Forwarders},
         Post(q, k, forwarded, f)
  PROVE  IInv' /\ TokensAreKept' /\ HistoryOK'
<1>1. stage[q] = "idle" /\ reply[q] = 0
  BY PostIs DEF AInv, ATypeOK, StagesMatch
<1>2. /\ \A p \in Calls : p # q => stage'[p] = stage[p]
      /\ stage'[q] # "idle"
  <2>1. \/ stage' = [stage EXCEPT ![q] = "reading"]
        \/ stage' = [stage EXCEPT ![q] = "settled"]
    BY PostIs
  <2> QED
    BY <2>1 DEF AInv, ATypeOK
<1>3. CASE UNCHANGED <<limiter, history, reply>>
  <2>1. UNCHANGED <<buckets, order, history>> /\ now' \in 0..MaxTime /\ reply' = reply
    BY <1>3 DEF limiter, AInv, IInv, TypeOK
  <2> QED
    BY <1>2, <2>1, TokensStay
<1>4. CASE /\ k \in Keys /\ Take(k) /\ Counted(q, k)
           /\ \/ Admits(k) /\ UNCHANGED reply
              \/ ~Admits(k) /\ reply' = [reply EXCEPT ![q] = 429]
  <2>1. /\ \A p \in Calls : p # q => reply'[p] = reply[p]
        /\ reply'[q] = 429 <=> ~Admits(k)
    BY <1>1, <1>4 DEF AInv, ATypeOK
  <2> QED
    BY <1>1, <1>2, <1>4, <2>1, TakeKeepsTokens
<1> QED
  BY <1>3, <1>4, PostIs

(* A new process has no buckets.                                           *)
LEMMA CrashTokens ==
  ASSUME AInv, NEW env \in Environments, Crash(env)
  PROVE  IInv' /\ TokensAreKept' /\ HistoryOK'
<1>1. /\ buckets' = [k \in Keys |-> Absent] /\ order' = <<>> /\ now' = now
      /\ made' = made /\ since' = since
      /\ stage' = [q \in Calls |-> IF stage[q] \in {"reading", "shortening"}
                                   THEN "cut" ELSE stage[q]]
  BY DEF Crash, history
<1>2. IInv'
  BY <1>1, RateAssumption DEF AInv, IInv, TypeOK, OrderIsTracked, Bounded
<1>3. HistoryOK'
  BY <1>1 DEF AInv, ATypeOK, HistoryOK
<1>4. TokensAreKept'
  BY <1>1 DEF AInv, ATypeOK, TokensAreKept, Tracked
<1> QED
  BY <1>2, <1>3, <1>4

(***************************************************************************)
(* The invariant                                                           *)
(***************************************************************************)
LEMMA AInvParts ==
  AInv <=> /\ codeLength \in Nat
           /\ \E env \in Environments : StartedWith(env)
           /\ CallTypeOK /\ HistoryOK /\ Records /\ Table /\ IInv /\ TokensAreKept
BY DEF AInv, ATypeOK, CallTypeOK, HistoryOK, Records, Table

LEMMA AInvPartsNext ==
  ASSUME codeLength' \in Nat, \E env \in Environments : StartedWith(env)',
         CallTypeOK', HistoryOK', Records', Table', IInv', TokensAreKept'
  PROVE  AInv'
BY DEF AInv, ATypeOK, CallTypeOK, HistoryOK, Records, Table

LEMMA InitAInv == AInit => AInv
<1> SUFFICES ASSUME AInit PROVE AInv
  OBVIOUS
<1>1. PICK env \in Environments : StartedWith(env)
  BY DEF AInit
<1>2. codeLength \in Nat
  BY <1>1, CodeLengthPositive DEF StartedWith
<1>3. CallTypeOK
  BY DEF AInit, CallTypeOK
<1>4. HistoryOK
  BY RateAssumption DEF AInit, HistoryOK
<1>5. Records
  <2>1. ServiceTypeOK
    BY DEF AInit, Service!Init, ServiceTypeOK
  <2>2. StagesMatch
    BY DEF AInit, Service!Init, StagesMatch
  <2>3. FormsAreAsked
    BY DEF AInit, Service!Init, FormsAreAsked
  <2> QED
    BY <2>1, <2>2, <2>3 DEF Records
<1>6. Table
  BY DEF AInit, Service!Init, Table, CodesAreAssigned, CodesAreUsable
<1>7. IInv
  BY InitIInv DEF AInit
<1>8. TokensAreKept
  BY DEF AInit, Init, TokensAreKept, Tracked
<1> QED
  BY <1>1, <1>2, <1>3, <1>4, <1>5, <1>6, <1>7, <1>8, AInvParts

(* The environment changes with the process only.                          *)
LEMMA StartKept ==
  ASSUME AInv, UNCHANGED config \/ \E env \in Environments : Crash(env)
  PROVE  codeLength' \in Nat /\ \E env \in Environments : StartedWith(env)'
<1>1. CASE UNCHANGED config
  BY <1>1 DEF AInv, ATypeOK, StartedWith, config
<1>2. ASSUME NEW env \in Environments, Crash(env)
      PROVE  codeLength' \in Nat /\ StartedWith(env)'
  BY <1>2, CodeLengthPositive DEF Crash, StartedWith
<1> QED
  BY <1>1, <1>2

LEMMA StepKeepsAInv == AInv /\ [ANext]_all => AInv'
<1> SUFFICES ASSUME AInv, [ANext]_all PROVE AInv'
  OBVIOUS
<1>1. ASSUME NEW q \in Calls, NEW k \in Keys \cup {NoIp}, NEW f \in Forms,
             NEW forwarded \in {<<>>} \cup {<<g>> : g \in Forwarders},
             Post(q, k, forwarded, f)
      PROVE  AInv'
  <2>1. CallTypeOK' /\ Records'
    BY <1>1, PostRecords
  <2>2. UNCHANGED config /\ UNCHANGED <<codeOf, asked, status>>
    BY <1>1, PostIs DEF served
  <2>3. Table'
    BY <2>2, AskedStays
  <2>4. IInv' /\ TokensAreKept' /\ HistoryOK'
    BY <1>1, PostTokens
  <2> QED
    BY <2>1, <2>2, <2>3, <2>4, StartKept, AInvPartsNext
<1>2. ASSUME NEW q \in Calls, Advance(q)
      PROVE  AInv'
  <2>1. CallTypeOK' /\ Records'
    BY <1>2, FormRecords, SettledRecords DEF Advance
  <2>2. UNCHANGED <<config, limiter, history, codeOf>>
    BY <1>2 DEF Advance, FormRead, FormFails, Shortened, Fails, Asks, served, Service!Ask,
                Service!Answer, Service!Refuse
  <2>3. Table'
    <3>1. \A p \in Calls : status[p] # "idle" => asked'[p] = asked[p] /\ status'[p] # "idle"
      BY <1>2 DEF Advance, FormRead, FormFails, Shortened, Fails, Asks, served, Service!Ask,
                  Service!Answer, Service!Refuse, AInv, ServiceTypeOK
    <3> QED
      BY <2>2, <3>1, AskedStays
  <2>4. IInv' /\ TokensAreKept' /\ HistoryOK'
    <3>1. stage[q] \in {"reading", "shortening"} /\ reply[q] = 0
      BY <1>2 DEF Advance, FormRead, FormFails, Shortened, Fails, AInv, ATypeOK, StagesMatch
    <3>2. \/ stage' = [stage EXCEPT ![q] = "shortening"] /\ reply' = reply
          \/ /\ stage' = [stage EXCEPT ![q] = "settled"]
             /\ \E http \in {200, 400, 500, 503} : reply' = [reply EXCEPT ![q] = http]
      BY <1>2 DEF Advance, FormRead, FormFails, Shortened, Fails, Asks, Replies, Moves
    <3>3. \A p \in Calls : /\ reply'[p] = 429 <=> reply[p] = 429
                           /\ stage[p] # "idle" => stage'[p] # "idle"
      BY <3>1, <3>2 DEF AInv, ATypeOK
    <3>4. UNCHANGED <<buckets, order, history>> /\ now' \in 0..MaxTime
      BY <2>2 DEF limiter, AInv, IInv, TypeOK
    <3> QED
      BY <3>3, <3>4, TokensStay
  <2> QED
    BY <2>1, <2>2, <2>3, <2>4, StartKept, AInvPartsNext
<1>3. ASSUME NEW u \in Values, NEW c \in Codes, Inserts(u, c)
      PROVE  AInv'
  <2>1. CallTypeOK' /\ Records' /\ Table'
    BY <1>3, InsertsRecords, InsertsTable
  <2>2. UNCHANGED <<config, limiter, history, stage, reply>>
    BY <1>3 DEF Inserts, calls
  <2>3. IInv' /\ TokensAreKept' /\ HistoryOK'
    <3>1. UNCHANGED <<buckets, order, history>> /\ now' \in 0..MaxTime
      BY <2>2 DEF limiter, AInv, IInv, TypeOK
    <3> QED
      BY <2>2, <3>1, TokensStay
  <2> QED
    BY <2>1, <2>2, <2>3, StartKept, AInvPartsNext
<1>4. ASSUME NEW env \in Environments, Crash(env)
      PROVE  AInv'
  <2>1. CallTypeOK' /\ Records' /\ IInv' /\ TokensAreKept' /\ HistoryOK'
    BY <1>4, CrashRecords, CrashTokens
  <2>2. Table'
    <3>1. /\ codeOf' = codeOf /\ asked' = asked
          /\ status' = [q \in Calls |-> IF status[q] = "pending" THEN "lost" ELSE status[q]]
      BY <1>4 DEF Crash, Service!Crash
    <3> QED
      BY <3>1, AskedStays
  <2> QED
    BY <1>4, <2>1, <2>2, StartKept, AInvPartsNext
<1>5. ASSUME \/ \E t \in 0..MaxTime : ClockIsSet(t)
             \/ UNCHANGED all
      PROVE  AInv'
  <2>1. /\ UNCHANGED <<config, history, calls, served, buckets, order>>
        /\ now' \in 0..MaxTime
    BY <1>5 DEF ClockIsSet, SetClock, all, limiter, AInv, IInv, TypeOK
  <2>2. UNCHANGED <<form, stage, reply, codeOf, asked, status, answer>>
    BY <2>1 DEF calls, served
  <2>3. CallTypeOK' /\ Records'
    BY <2>2 DEF AInv, ATypeOK, CallTypeOK, Records, StagesMatch, ServiceTypeOK, FormsAreAsked
  <2>4. Table'
    BY <2>2, AskedStays
  <2>5. IInv' /\ TokensAreKept' /\ HistoryOK'
    BY <2>1, <2>2, TokensStay
  <2> QED
    BY <2>1, <2>3, <2>4, <2>5, StartKept, AInvPartsNext
<1> QED
  BY <1>1, <1>2, <1>3, <1>4, <1>5 DEF ANext

(* Limiter, calls, service and environment stay in step.                   *)
THEOREM ActionInvariance == ASafeSpec => []AInv
BY InitAInv, StepKeepsAInv, PTL DEF ASafeSpec

(* Calls that were answered have one code exactly when their forms mean    *)
(* one URL.                                                                *)
THEOREM OneCodePerMeaning == ASafeSpec => []SpellingsShareACode
<1>1. AInv => SpellingsShareACode
  <2> SUFFICES ASSUME AInv, NEW p \in Calls, NEW q \in Calls,
                      reply[p] = 200, reply[q] = 200
               PROVE  answer[p] = answer[q] <=> Meaning(form[p]) = Meaning(form[q])
    BY DEF SpellingsShareACode
  <2>1. ASSUME NEW r \in {p, q}
        PROVE  /\ form[r] \in Urls /\ ~TooLong(form[r]) /\ Accepts(form[r])
               /\ Create(form[r]) \in Values
               /\ answer[r] = codeOf[Create(form[r])] /\ answer[r] # NoCode
    <3>1. r \in Calls /\ status[r] = "answered" /\ stage[r] = "settled"
      BY <2>1 DEF AInv, StagesMatch
    <3>2. form[r] \in Forms /\ Accepts(form[r])
      BY <3>1 DEF AInv, FormsAreAsked
    <3>3. answer[r] = codeOf[Create(form[r])] /\ answer[r] # NoCode
      BY <3>1 DEF AInv, FormsAreAsked
    <3> QED
      BY <3>2, <3>3, AcceptedForm
  <2>2. ASSUME answer[p] = answer[q]
        PROVE  Meaning(form[p]) = Meaning(form[q])
    <3>1. Create(form[p]) = Create(form[q])
      BY <2>1, <2>2 DEF AInv, CodesAreAssigned
    <3> QED
      BY <2>1, <3>1, SameValueSameMeaning
  <2>3. ASSUME Meaning(form[p]) = Meaning(form[q])
        PROVE  answer[p] = answer[q]
    <3>1. Create(form[p]) = Create(form[q])
      BY <2>1, <2>3, SameMeaningSameValue
    <3> QED
      BY <2>1, <3>1
  <2> QED
    BY <2>2, <2>3
<1> QED
  BY <1>1, ActionInvariance, PTL

(* No client gets more calls past the limiter than a full bucket and the   *)
(* clock allow, by whatever proxies they come.                             *)
THEOREM QuotaAlwaysHolds == ASafeSpec => []QuotaHolds
<1>1. AInv => QuotaHolds
  <2> SUFFICES ASSUME AInv, NEW k \in Tracked
               PROVE  Cardinality(Granted(k)) * TokenCost
                        <= Full + (buckets[k].lastRefill - since[k])
    BY DEF QuotaHolds
  <2> DEFINE used == Cardinality(Granted(k)) * TokenCost
  <2>1. k \in Keys /\ buckets[k] \in Bucket /\ since[k] \in 0..MaxTime
    BY DEF Tracked, AInv, ATypeOK, IInv, TypeOK
  <2>2. used \in Nat
    <3>1. Granted(k) \in SUBSET Calls
      BY <2>1 DEF Granted, AInv, ATypeOK
    <3> QED
      BY <3>1, CallsAreFinite, FullType
  <2>3. used + buckets[k].tokens <= Full + (buckets[k].lastRefill - since[k])
    BY DEF AInv, TokensAreKept
  <2> HIDE DEF used
  <2>4. used <= Full + (buckets[k].lastRefill - since[k])
    BY <2>1, <2>2, <2>3, FullType, RateAssumption DEF Bucket
  <2> QED
    BY <2>4 DEF used
<1> QED
  BY <1>1, ActionInvariance, PTL

(* Nothing is stored for a call that was turned away.                      *)
THEOREM SponsorsAlways == ASafeSpec => []RowsHaveSponsors
<1>1. AInv => RowsHaveSponsors
  BY DEF AInv, CodesAreAssigned, StagesMatch, RowsHaveSponsors
<1> QED
  BY <1>1, ActionInvariance, PTL

(* What is in the table passes every check of LongUrl.create, which        *)
(* ResolveUrlUseCase does not repeat when it redirects.                    *)
RowsAreAccepted ==
  \A u \in Values : codeOf[u] # NoCode => Accepts(u) /\ Create(u) = u

THEOREM RowsStayAccepted == ASafeSpec => []RowsAreAccepted
<1>1. AInv => RowsAreAccepted
  <2> SUFFICES ASSUME AInv, NEW u \in Values, codeOf[u] # NoCode
               PROVE  Accepts(u) /\ Create(u) = u
    BY DEF RowsAreAccepted
  <2>1. PICK q \in Calls : asked[q] = u /\ status[q] # "idle"
    BY DEF AInv, CodesAreAssigned
  <2>2. Accepts(form[q]) /\ u = Create(form[q])
    BY <2>1 DEF AInv, FormsAreAsked
  <2>3. form[q] \in RawUrls
    <3>1. stage[q] # "idle"
      BY <2>1 DEF AInv, FormsAreAsked
    <3> QED
      BY <3>1, FormAssumption DEF AInv, FormsAreAsked
  <2>4. Create(u) = u
    BY <2>2, <2>3, StableValue
  <2>5. u \in Urls
    BY <2>2, <2>3, AcceptedValue
  <2>6. u \notin {InvalidUrlError, BlockedHostError}
    BY <2>5, ErrorAssumption
  <2> QED
    BY <2>4, <2>6 DEF Accepts
<1> QED
  BY <1>1, ActionInvariance, PTL

(* The action asks the service nothing but values, each call once, and     *)
(* crashes when it does: what holds of the service holds here.             *)
THEOREM ActionUsesService == ASafeSpec => Service!SafeSpec
<1>1. AInit => Service!Init
  BY DEF AInit
<1>2. AInv /\ [ANext]_all => [Service!Next]_(Service!vars)
  <2> SUFFICES ASSUME AInv, [ANext]_all PROVE [Service!Next]_(Service!vars)
    OBVIOUS
  <2>1. ASSUME UNCHANGED served PROVE UNCHANGED Service!vars
    BY <2>1 DEF served, Service!vars
  <2>2. ASSUME NEW q \in Calls, Advance(q) PROVE Service!Next \/ UNCHANGED served
    <3>1. CASE Accepts(form[q]) /\ Asks(q) /\ stage[q] = "reading"
      <4>1. form[q] \in Forms
        BY <2>2, <3>1 DEF AInv, FormsAreAsked
      <4> QED
        BY <3>1, <4>1, AcceptedForm DEF Asks, Service!Next
    <3>2. CASE Shortened(q) \/ Fails(q)
      BY <3>2 DEF Shortened, Fails, Service!Next
    <3> QED
      BY <2>2, <3>1, <3>2 DEF Advance, FormRead, FormFails
  <2>3. ASSUME NEW u \in Values, NEW c \in Codes, Inserts(u, c) PROVE Service!Next
    BY <2>3 DEF Inserts, Service!Next
  <2>4. ASSUME NEW env \in Environments, Crash(env) PROVE Service!Next
    BY <2>4 DEF Crash, Service!Next
  <2>5. ASSUME NEW q \in Calls, NEW k \in Keys \cup {NoIp}, NEW f \in Forms,
               NEW forwarded \in {<<>>} \cup {<<g>> : g \in Forwarders},
               Post(q, k, forwarded, f)
        PROVE  UNCHANGED served
    BY <2>5, PostIs
  <2>6. ASSUME \/ \E t \in 0..MaxTime : ClockIsSet(t)
               \/ UNCHANGED all
        PROVE  UNCHANGED served
    BY <2>6 DEF ClockIsSet, all
  <2> QED
    BY <2>1, <2>2, <2>3, <2>4, <2>5, <2>6 DEF ANext
<1> QED
  BY <1>1, <1>2, ActionInvariance, PTL DEF ASafeSpec, Service!SafeSpec
=============================================================================
