--------------------------- MODULE RedirectProofs ---------------------------
(***************************************************************************)
(* How old an answer of the cache can be and how large it grows, for any   *)
(* number of lookups, codes and entries, any time to live and any latency; *)
(* and what a code's statistics say of its visits, for any number of       *)
(* visits, codes and crashes, any cache and any clock.                     *)
(***************************************************************************)
EXTENDS Redirect, TLAPS, FiniteSetTheorems, SequenceTheorems

(***************************************************************************)
(* The age of entries and answers                                          *)
(***************************************************************************)
LEMMA InitEstablishes == Init => IInv
<1> SUFFICES ASSUME Init PROVE IInv
  OBVIOUS
<1>1. 0 \in 0..MaxTime /\ 0 \in 0..MaxLag
  BY CacheAssumption
<1>2. Cached = {}
  BY DEF Init, Cached
<1>3. TypeOK
  <2>1. started \in [Lookups -> 0..MaxTime] /\ former \in [Codes -> SUBSET Former]
    BY <1>1 DEF Init
  <2>2. /\ cache \in [Codes -> Entry \cup {None}]
        /\ code \in [Lookups -> Codes \cup {None}]
        /\ row \in [Lookups -> Url]
    BY DEF Init, Url
  <2>3. /\ pc \in [Lookups -> {"idle", "reading", "read", "found", "missing", "failed"}]
        /\ existed \in [Lookups -> BOOLEAN]
    BY DEF Init
  <2>4. QED
    BY <1>1, <2>1, <2>2, <2>3 DEF Init, TypeOK
<1>4. TimesArePast
  BY DEF Init, TimesArePast
<1>5. ReadsAreRecent /\ RowsStay
  BY DEF Init, ReadsAreRecent, RowsStay, InFlight
<1>6. EntriesAreRecent
  BY <1>2 DEF EntriesAreRecent
<1>7. QED
  BY <1>3, <1>4, <1>5, <1>6 DEF IInv

(* What was the target at some time or later was so before that, too.      *)
LEMMA EarlierToo ==
  ASSUME IInv, NEW c \in Codes, NEW u, NEW t \in Int, NEW s \in Int, s <= t,
         WasTarget(c, u, t)
  PROVE  WasTarget(c, u, s)
<1>1. \A f \in former[c] : f.until \in Int
  BY DEF IInv, TypeOK, Former
<1>2. QED
  BY <1>1 DEF WasTarget

(* The entries that get and set leave behind are old ones or the one set.  *)
LEMMA GetKeepsEntries ==
  ASSUME IInv, NEW c \in Codes, GetHit(c) \/ GetMiss(c), UNCHANGED world
  PROVE  /\ cache' \in [Codes -> Entry \cup {None}]
         /\ EntriesAreRecent'
<1>1. \A d \in Codes : cache'[d] = cache[d] \/ cache'[d] = None
  BY DEF GetHit, GetMiss, Used, IInv, TypeOK
<1>2. cache' \in [Codes -> Entry \cup {None}]
  BY DEF GetHit, GetMiss, Used, IInv, TypeOK
<1>3. EntriesAreRecent'
  BY <1>1 DEF IInv, EntriesAreRecent, Cached, WasTarget, world
<1>4. QED
  BY <1>2, <1>3

(* A call that starts: what it finds was cached, or it asks the table.     *)
LEMMA CallPreserves ==
  ASSUME IInv, NEW l \in Lookups, NEW c \in Codes,
         NEW label \in {"found", "reading"}, NEW url \in Url,
         Call(l, c, label, url),
         label = "found" => url # None,
         cache' \in [Codes -> Entry \cup {None}], EntriesAreRecent'
  PROVE  IInv'
<1>1. /\ pc' = [pc EXCEPT ![l] = label]
      /\ code' = [code EXCEPT ![l] = c]
      /\ row' = [row EXCEPT ![l] = url]
      /\ started' = [started EXCEPT ![l] = now]
      /\ existed' = [existed EXCEPT ![l] = target[c] # None]
      /\ target' = target /\ now' = now /\ lag' = lag /\ former' = former
  BY DEF Call, world
<1>2. TypeOK'
  <2>1. (target[c] # None) \in BOOLEAN
    OBVIOUS
  <2>2. existed' \in [Lookups -> BOOLEAN]
    BY <1>1, <2>1 DEF IInv, TypeOK
  <2>3. QED
    BY <1>1, <2>2 DEF IInv, TypeOK
<1>3. TimesArePast'
  BY <1>1, CacheAssumption DEF IInv, TypeOK, TimesArePast
<1>4. ReadsAreRecent'
  <2> SUFFICES ASSUME NEW k \in Lookups
               PROVE  /\ InFlight(k)' => code'[k] \in Codes /\ now' <= started'[k] + MaxLatency
                      /\ pc'[k] = "read" /\ row'[k] # None
                           => WasTarget(code[k], row[k], started[k])'
    BY DEF ReadsAreRecent
  <2>1. CASE k = l
    BY <1>1, <2>1, CacheAssumption DEF IInv, TypeOK, InFlight
  <2>2. CASE k # l
    BY <1>1, <2>2 DEF IInv, TypeOK, InFlight, ReadsAreRecent, WasTarget
  <2>3. QED
    BY <2>1, <2>2
<1>5. RowsStay'
  <2> SUFFICES ASSUME NEW k \in Lookups, existed'[k]
               PROVE  /\ InFlight(k)' => target'[code'[k]] # None
                      /\ pc'[k] \in {"read", "found", "missing"} => row'[k] # None
    BY DEF RowsStay
  <2>1. CASE k = l
    BY <1>1, <2>1 DEF IInv, TypeOK, InFlight
  <2>2. CASE k # l
    BY <1>1, <2>2 DEF IInv, TypeOK, InFlight, RowsStay
  <2>3. QED
    BY <2>1, <2>2
<1>6. QED
  BY <1>2, <1>3, <1>4, <1>5 DEF IInv

LEMMA FindByCodePreserves ==
  ASSUME IInv, NEW l \in Lookups, NEW c \in Codes,
         FindByCode(l, c) \/ CacheReadFails(l, c)
  PROVE  IInv'
<1>1. CASE GetHit(c) /\ Call(l, c, "found", cache[c].longUrl)
  <2>1. cache[c].longUrl \in Url /\ cache[c].longUrl # None
    BY <1>1, CacheAssumption DEF GetHit, Hit, Cached, IInv, TypeOK, Entry, Url
  <2>2. UNCHANGED world
    BY <1>1 DEF Call
  <2>3. QED
    BY <1>1, <2>1, <2>2, GetKeepsEntries, CallPreserves
<1>2. CASE GetMiss(c) /\ Call(l, c, "reading", None)
  <2>1. UNCHANGED world /\ None \in Url
    BY <1>2 DEF Call, Url
  <2>2. QED
    BY <1>2, <2>1, GetKeepsEntries, CallPreserves
<1>3. CASE CacheReadFails(l, c)
  <2>1. UNCHANGED world /\ UNCHANGED store /\ None \in Url /\ Call(l, c, "reading", None)
    BY <1>3 DEF CacheReadFails, Call, Url
  <2>2. cache' \in [Codes -> Entry \cup {None}] /\ EntriesAreRecent'
    BY <2>1 DEF IInv, TypeOK, EntriesAreRecent, Cached, WasTarget, world, store
  <2>3. QED
    BY <2>1, <2>2, CallPreserves
<1>4. QED
  BY <1>1, <1>2, <1>3 DEF FindByCode

LEMMA TablePreserves ==
  ASSUME IInv, NEW l \in Lookups, TableAnswers(l) \/ TableFails(l)
  PROVE  IInv'
<1>1. PICK label \in {"read", "failed"} : pc' = [pc EXCEPT ![l] = label]
  BY DEF TableAnswers, TableFails
<1>2. /\ pc[l] = "reading" /\ code[l] \in Codes
      /\ \/ row' = row /\ label = "failed"
         \/ row' = [row EXCEPT ![l] = target[code[l]]]
      /\ UNCHANGED <<world, store, code, started, existed>>
  BY <1>1 DEF TableAnswers, TableFails, IInv, ReadsAreRecent, InFlight, TypeOK
<1>3. TypeOK'
  BY <1>1, <1>2 DEF IInv, TypeOK, world, store
<1>4. TimesArePast' /\ EntriesAreRecent'
  BY <1>2 DEF IInv, TimesArePast, EntriesAreRecent, Cached, WasTarget, world, store
<1>5. ReadsAreRecent'
  BY <1>1, <1>2 DEF IInv, TypeOK, ReadsAreRecent, InFlight, WasTarget, world
<1>6. RowsStay'
  BY <1>1, <1>2 DEF IInv, TypeOK, RowsStay, InFlight, world
<1>7. QED
  BY <1>3, <1>4, <1>5, <1>6 DEF IInv

(* What set stores was the target, or was read by a call that is no older  *)
(* than the change and MaxLatency.                                         *)
LEMMA SetPreserves ==
  ASSUME IInv, NEW l \in Lookups, pc[l] = "read", row[l] # None,
         Set(code[l], row[l]), UNCHANGED world
  PROVE  /\ cache' \in [Codes -> Entry \cup {None}]
         /\ EntriesAreRecent'
<1> DEFINE c == code[l]
           e == [longUrl |-> row[l], start |-> now - lag]
<1>1. c \in Codes /\ row[l] \in LongUrls /\ now <= started[l] + MaxLatency
  BY DEF IInv, TypeOK, ReadsAreRecent, InFlight, Url
<1>2. now - lag \in (0 - MaxLag)..MaxTime /\ now - lag <= now
  BY CacheAssumption DEF IInv, TypeOK
<1>3. e \in Entry
  BY <1>1, <1>2 DEF Entry
<1>4. cache' = [d \in Codes |-> IF d = c THEN e
                                ELSE IF d \in Evicted(c) THEN None ELSE cache[d]]
  BY DEF Set, DateNow
<1>5. cache' \in [Codes -> Entry \cup {None}]
  BY <1>3, <1>4 DEF IInv, TypeOK
<1>6. /\ e.start <= now
      /\ WasTarget(c, e.longUrl, e.start - MaxLatency)
  <2>1. WasTarget(c, row[l], started[l])
    BY DEF IInv, ReadsAreRecent
  <2>2. now - lag - MaxLatency <= started[l] /\ now - lag - MaxLatency \in Int
        /\ started[l] \in Int
    BY <1>1, <1>2, CacheAssumption DEF IInv, TypeOK
  <2>3. WasTarget(c, row[l], now - lag - MaxLatency)
    BY <1>1, <2>1, <2>2, EarlierToo
  <2>4. QED
    BY <1>2, <2>3
<1>7. \A d \in Codes : cache'[d] = cache[d] \/ cache'[d] = None \/ (d = c /\ cache'[d] = e)
  BY <1>4
<1>8. EntriesAreRecent'
  <2> SUFFICES ASSUME NEW d \in Codes, cache'[d] # None
               PROVE  /\ cache'[d].start <= now
                      /\ WasTarget(d, cache'[d].longUrl, cache'[d].start - MaxLatency)
    BY DEF EntriesAreRecent, Cached, WasTarget, world
  <2>1. CASE d = c /\ cache'[d] = e
    BY <1>6, <2>1
  <2>2. CASE cache'[d] = cache[d]
    BY <2>2 DEF IInv, EntriesAreRecent, Cached
  <2>3. QED
    BY <1>7, <2>1, <2>2
<1>9. QED
  BY <1>5, <1>8

LEMMA ResumePreserves ==
  ASSUME IInv, NEW l \in Lookups, Resume(l) \/ CacheWriteFails(l)
  PROVE  IInv'
<1>1. /\ pc[l] = "read"
      /\ pc' = [pc EXCEPT ![l] = IF row[l] = None THEN "missing" ELSE "found"]
      /\ UNCHANGED <<world, code, row, started, existed>>
      /\ UNCHANGED store \/ (row[l] # None /\ Set(code[l], row[l]))
  BY DEF Resume, CacheWriteFails, Settle
<1>2. cache' \in [Codes -> Entry \cup {None}] /\ EntriesAreRecent'
  <2>1. CASE UNCHANGED store
    BY <1>1, <2>1 DEF IInv, TypeOK, EntriesAreRecent, Cached, WasTarget, world, store
  <2>2. CASE row[l] # None /\ Set(code[l], row[l])
    BY <1>1, <2>2, SetPreserves
  <2>3. QED
    BY <1>1, <2>1, <2>2
<1>3. TypeOK'
  BY <1>1, <1>2 DEF IInv, TypeOK, world
<1>4. TimesArePast'
  BY <1>1 DEF IInv, TimesArePast, world
<1>5. ReadsAreRecent'
  BY <1>1 DEF IInv, TypeOK, ReadsAreRecent, InFlight, WasTarget, world
<1>6. RowsStay'
  BY <1>1 DEF IInv, TypeOK, RowsStay, InFlight, world
<1>7. QED
  BY <1>2, <1>3, <1>4, <1>5, <1>6 DEF IInv

LEMMA DeliveredPreserves ==
  ASSUME IInv, NEW l \in Lookups, Delivered(l)
  PROVE  IInv'
<1>1. /\ pc' = [pc EXCEPT ![l] = "idle"]
      /\ row' = [row EXCEPT ![l] = None]
      /\ code' = [code EXCEPT ![l] = None]
      /\ started' = [started EXCEPT ![l] = 0]
      /\ existed' = [existed EXCEPT ![l] = FALSE]
      /\ UNCHANGED <<world, store>>
  BY DEF Delivered
<1>2. TypeOK'
  BY <1>1, CacheAssumption DEF IInv, TypeOK, world, store, Url
<1>3. TimesArePast' /\ EntriesAreRecent'
  BY <1>1, CacheAssumption DEF IInv, TypeOK, TimesArePast, EntriesAreRecent, Cached,
              WasTarget, world, store
<1>4. ReadsAreRecent' /\ RowsStay'
  BY <1>1 DEF IInv, TypeOK, ReadsAreRecent, RowsStay, InFlight, WasTarget, world
<1>5. QED
  BY <1>2, <1>3, <1>4 DEF IInv

(* What was the target stays among the former ones, with the latest time   *)
(* it was.                                                                 *)
LEMMA ChangeKeepsTargets ==
  ASSUME IInv, NEW c \in Codes, NEW u \in LongUrls, Change(c, u),
         NEW d \in Codes, NEW v \in LongUrls, NEW t \in Int, t <= now,
         WasTarget(d, v, t)
  PROVE  WasTarget(d, v, t)'
<1>1. /\ target' = [target EXCEPT ![c] = u]
      /\ former' = [former EXCEPT ![c] = {f \in former[c] : f.url \notin {u, target[c]}}
                                            \cup Replaced(c)]
      /\ target \in [Codes -> Url] /\ former \in [Codes -> SUBSET Former]
      /\ v # None
  BY CacheAssumption DEF Change, IInv, TypeOK
<1>2. CASE d # c
  BY <1>1, <1>2 DEF WasTarget
<1>3. CASE d = c
  <2>1. CASE v = u
    BY <1>1, <1>3, <2>1 DEF WasTarget
  <2>2. CASE v = target[c]
    <3>1. [url |-> v, until |-> now] \in former'[c]
      BY <1>1, <2>2 DEF Replaced
    <3>2. QED
      BY <1>3, <3>1 DEF WasTarget
  <2>3. CASE v # u /\ v # target[c]
    <3>1. PICK f \in former[c] : f.url = v /\ t <= f.until
      BY <1>3, <2>3 DEF WasTarget
    <3>2. f \in former'[c]
      BY <1>1, <2>3, <3>1
    <3>3. QED
      BY <1>3, <3>1, <3>2 DEF WasTarget
  <2>4. QED
    BY <2>1, <2>2, <2>3
<1>4. QED
  BY <1>2, <1>3

LEMMA ChangePreserves ==
  ASSUME IInv, NEW c \in Codes, NEW u \in LongUrls, Change(c, u)
  PROVE  IInv'
<1>1. /\ target' = [target EXCEPT ![c] = u]
      /\ former' = [former EXCEPT ![c] = {f \in former[c] : f.url \notin {u, target[c]}}
                                            \cup Replaced(c)]
      /\ UNCHANGED <<now, lag, store, lookup>>
      /\ u # None
  BY CacheAssumption DEF Change
<1>2. /\ Replaced(c) \in SUBSET Former
      /\ \A f \in Replaced(c) : f.until = now
  BY DEF Replaced, Former, IInv, TypeOK, Url
<1>3. TypeOK'
  <2>1. target' \in [Codes -> Url] /\ former' \in [Codes -> SUBSET Former]
    BY <1>1, <1>2 DEF IInv, TypeOK, Url
  <2>2. QED
    BY <1>1, <2>1 DEF IInv, TypeOK, store, lookup
<1>4. TimesArePast'
  <2>1. now \in Int
    BY CacheAssumption DEF IInv, TypeOK
  <2>2. \A d \in Codes : \A f \in former'[d] : f.until <= now
    BY <1>1, <1>2, <2>1 DEF IInv, TypeOK, TimesArePast
  <2>3. QED
    BY <1>1, <2>2 DEF IInv, TimesArePast, lookup
<1>5. ReadsAreRecent'
  <2> SUFFICES ASSUME NEW k \in Lookups
               PROVE  /\ InFlight(k)' => code'[k] \in Codes /\ now' <= started'[k] + MaxLatency
                      /\ pc'[k] = "read" /\ row'[k] # None
                           => WasTarget(code[k], row[k], started[k])'
    BY DEF ReadsAreRecent
  <2>1. InFlight(k) => code[k] \in Codes /\ now <= started[k] + MaxLatency
    BY DEF IInv, ReadsAreRecent
  <2>2. ASSUME pc[k] = "read", row[k] # None
        PROVE  WasTarget(code[k], row[k], started[k])'
    <3> DEFINE d == code[k]
               v == row[k]
               t == started[k]
    <3>1. d \in Codes /\ v \in LongUrls /\ t \in Int /\ t <= now /\ WasTarget(d, v, t)
      BY <2>1, <2>2 DEF InFlight, IInv, TypeOK, TimesArePast, ReadsAreRecent, Url
    <3>2. code'[k] = d /\ row'[k] = v /\ started'[k] = t
      BY <1>1 DEF lookup
    <3> HIDE DEF d, v, t
    <3>3. v = target'[d] \/ \E f \in former'[d] : f.url = v /\ t <= f.until
      BY <3>1, ChangeKeepsTargets DEF WasTarget
    <3>4. QED
      BY <3>2, <3>3 DEF WasTarget
  <2>3. QED
    BY <1>1, <2>1, <2>2 DEF InFlight, lookup
<1>6. RowsStay'
  BY <1>1 DEF IInv, TypeOK, RowsStay, ReadsAreRecent, InFlight, lookup
<1>7. EntriesAreRecent'
  <2> SUFFICES ASSUME NEW d \in Codes, cache[d] # None
               PROVE  /\ cache[d].start <= now
                      /\ \/ cache[d].longUrl = target'[d]
                         \/ \E f \in former'[d] : /\ f.url = cache[d].longUrl
                                                  /\ cache[d].start - MaxLatency <= f.until
    BY <1>1 DEF EntriesAreRecent, Cached, WasTarget, store
  <2> DEFINE v == cache[d].longUrl
             t == cache[d].start - MaxLatency
  <2>1. cache[d].start <= now /\ WasTarget(d, v, t)
    BY DEF IInv, EntriesAreRecent, Cached
  <2>2. v \in LongUrls /\ t \in Int /\ t <= now
    BY <2>1, CacheAssumption DEF IInv, TypeOK, Entry
  <2> HIDE DEF v, t
  <2>3. v = target'[d] \/ \E f \in former'[d] : f.url = v /\ t <= f.until
    BY <2>1, <2>2, ChangeKeepsTargets DEF WasTarget
  <2>4. QED
    BY <2>1, <2>3 DEF v, t
<1>8. QED
  BY <1>3, <1>4, <1>5, <1>6, <1>7 DEF IInv

LEMMA TickPreserves ==
  ASSUME IInv, Tick
  PROVE  IInv'
<1>1. /\ now' = now + 1 /\ now < MaxTime
      /\ \A l \in Lookups : InFlight(l) => now < started[l] + MaxLatency
      /\ UNCHANGED <<target, lag, former, store, lookup>>
  BY DEF Tick
<1>2. now \in 0..MaxTime /\ now' \in 0..MaxTime /\ now <= now'
  BY <1>1, CacheAssumption DEF IInv, TypeOK
<1>3. TypeOK'
  BY <1>1, <1>2 DEF IInv, TypeOK, store, lookup
<1>4. TimesArePast'
  <2>1. \A c \in Codes : \A f \in former[c] : f.until \in Int
    BY DEF IInv, TypeOK, Former
  <2>2. QED
    BY <1>1, <1>2, <2>1, CacheAssumption DEF IInv, TypeOK, TimesArePast, lookup
<1>5. ReadsAreRecent'
  <2>1. \A l \in Lookups : InFlight(l) => now + 1 <= started[l] + MaxLatency
    BY <1>1, <1>2, CacheAssumption DEF IInv, TypeOK
  <2>2. QED
    BY <1>1, <2>1 DEF IInv, ReadsAreRecent, InFlight, WasTarget, lookup
<1>6. RowsStay'
  BY <1>1 DEF IInv, RowsStay, InFlight, lookup
<1>7. EntriesAreRecent'
  <2> SUFFICES ASSUME NEW d \in Codes, cache[d] # None
               PROVE  /\ cache[d].start <= now'
                      /\ WasTarget(d, cache[d].longUrl, cache[d].start - MaxLatency)
    BY <1>1 DEF EntriesAreRecent, Cached, WasTarget, store
  <2>1. cache[d].start \in Int
    BY CacheAssumption DEF IInv, TypeOK, Entry
  <2>2. QED
    BY <1>2, <2>1 DEF IInv, EntriesAreRecent, Cached
<1>8. QED
  BY <1>3, <1>4, <1>5, <1>6, <1>7 DEF IInv

LEMMA SetBackPreserves ==
  ASSUME IInv, SetBack
  PROVE  IInv'
<1>1. lag' = lag + 1 /\ lag < MaxLag /\ UNCHANGED <<target, now, former, store, lookup>>
  BY DEF SetBack
<1>2. TypeOK'
  BY <1>1, CacheAssumption DEF IInv, TypeOK, store, lookup
<1>3. TimesArePast' /\ ReadsAreRecent' /\ RowsStay' /\ EntriesAreRecent'
  BY <1>1 DEF IInv, TimesArePast, ReadsAreRecent, RowsStay, EntriesAreRecent, InFlight,
              Cached, WasTarget, store, lookup
<1>4. QED
  BY <1>2, <1>3 DEF IInv

LEMMA RestartPreserves ==
  ASSUME IInv, Restart
  PROVE  IInv'
<1>1. /\ cache' = [c \in Codes |-> None]
      /\ pc' = [l \in Lookups |-> "idle"]
      /\ code' = [l \in Lookups |-> None]
      /\ row' = [l \in Lookups |-> None]
      /\ started' = [l \in Lookups |-> 0]
      /\ existed' = [l \in Lookups |-> FALSE]
      /\ UNCHANGED world
  BY DEF Restart
<1>2. TypeOK'
  <2>1. 0 \in 0..MaxTime
    BY CacheAssumption
  <2>2. QED
    BY <1>1, <2>1 DEF IInv, TypeOK, world, Url
<1>3. TimesArePast'
  BY <1>1, CacheAssumption DEF IInv, TypeOK, TimesArePast, world
<1>4. ReadsAreRecent' /\ RowsStay'
  BY <1>1 DEF ReadsAreRecent, RowsStay, InFlight
<1>5. EntriesAreRecent'
  BY <1>1 DEF EntriesAreRecent, Cached
<1>6. QED
  BY <1>2, <1>3, <1>4, <1>5 DEF IInv

LEMMA StepPreserves == IInv /\ [Next]_vars => IInv'
<1> SUFFICES ASSUME IInv, [Next]_vars PROVE IInv'
  OBVIOUS
<1>1. CASE UNCHANGED vars
  BY <1>1 DEF IInv, TypeOK, TimesArePast, ReadsAreRecent, RowsStay, EntriesAreRecent,
              InFlight, Cached, WasTarget, vars, world, store, lookup
<1>2. CASE Next
  BY <1>2, FindByCodePreserves, TablePreserves, ResumePreserves, DeliveredPreserves,
     ChangePreserves, TickPreserves, SetBackPreserves, RestartPreserves
     DEF Next, LookupStep
<1>3. QED
  BY <1>1, <1>2

(* Types; that what a lookup under way has read was the target since it    *)
(* was called, and what the cache keeps at most MaxLatency before it was   *)
(* set; and that rows that were there at a call stay.                      *)
THEOREM Invariance == Spec => []IInv
BY InitEstablishes, StepPreserves, PTL DEF Spec

(* findByCode answers a URL for every code that had its row when it was    *)
(* called, whatever lookups were answered null before.                     *)
THEOREM NoNegativeCaching == Spec => []NoFalseNegatives
<1>1. IInv => NoFalseNegatives
  BY DEF IInv, RowsStay, NoFalseNegatives
<1>2. QED
  BY <1>1, Invariance, PTL

(***************************************************************************)
(* The cache resolves codes as UrlResolution says                          *)
(***************************************************************************)
LEMMA StatusMoves ==
  ASSUME IInv, NEW l \in Lookups, NEW label, pc' = [pc EXCEPT ![l] = label],
         \A k \in Lookups : k # l => row'[k] = row[k]
  PROVE  /\ Status' = [Status EXCEPT ![l] = StatusAt(label)]
         /\ Answer' = [Answer EXCEPT ![l] = IF label = "found" THEN row'[l] ELSE None]
<1>1. \A k \in Lookups : pc'[k] = IF k = l THEN label ELSE pc[k]
  BY DEF IInv, TypeOK
<1>2. Status' = [Status EXCEPT ![l] = StatusAt(label)]
  BY <1>1 DEF Status, StatusAt
<1>3. Answer' = [Answer EXCEPT ![l] = IF label = "found" THEN row'[l] ELSE None]
  BY <1>1 DEF Answer
<1>4. QED
  BY <1>2, <1>3

(* A fresh entry is no older than ttl and the setback of Date, and what it *)
(* holds was the target within a read's latency of when it was set.        *)
LEMMA FreshEntry ==
  ASSUME IInv, NEW c \in Codes, Hit(c)
  PROVE  /\ cache[c].longUrl \in LongUrls
         /\ Resolution!MayAnswer(c, cache[c].longUrl, now)
<1> DEFINE u == cache[c].longUrl
           t == cache[c].start - MaxLatency
           slack == Ttl + MaxLatency + lag
<1>1. c \in Cached /\ cache[c] \in Entry
  BY DEF Hit, Cached, IInv, TypeOK
<1>2. u \in LongUrls /\ t \in Int /\ WasTarget(c, u, t)
  BY <1>1, CacheAssumption DEF Entry, IInv, EntriesAreRecent
<1>3. Ttl # 0 => now - slack <= t /\ now - slack \in Int
  BY <1>1, CacheAssumption DEF Hit, Stale, DateNow, Entry, IInv, TypeOK
<1>4. \A f \in former[c] : 0 <= f.until
  BY DEF IInv, TypeOK, Former
<1> HIDE DEF u, t
<1>5. CASE Ttl # 0
  <2>1. WasTarget(c, u, now - slack)
    BY <1>2, <1>3, <1>5, EarlierToo
  <2>2. QED
    BY <1>2, <1>5, <2>1 DEF u, WasTarget, Resolution!MayAnswer, Resolution!WasTarget
<1>6. CASE Ttl = 0
  <2>1. WasTarget(c, u, 0)
    BY <1>2, <1>4 DEF WasTarget
  <2>2. QED
    BY <1>2, <1>6, <2>1 DEF u, WasTarget, Resolution!MayAnswer, Resolution!WasTarget
<1>7. QED
  BY <1>5, <1>6

(* What was read from the table has been the target since the call.        *)
LEMMA FreshRead ==
  ASSUME IInv, NEW l \in Lookups, pc[l] = "read", row[l] # None
  PROVE  row[l] \in LongUrls /\ Resolution!MayAnswer(code[l], row[l], started[l])
<1> DEFINE slack == Ttl + MaxLatency + lag
           t == started[l]
<1>1. /\ code[l] \in Codes /\ row[l] \in LongUrls /\ WasTarget(code[l], row[l], t)
  BY DEF IInv, TypeOK, ReadsAreRecent, InFlight, Url
<1>2. t \in Int /\ t - slack \in Int /\ t - slack <= t /\ 0 <= t
  BY CacheAssumption DEF IInv, TypeOK
<1> HIDE DEF t
<1>3. WasTarget(code[l], row[l], t - slack) /\ WasTarget(code[l], row[l], 0)
  BY <1>1, <1>2, EarlierToo
<1>4. QED
  BY <1>1, <1>3 DEF t, WasTarget, Resolution!MayAnswer, Resolution!WasTarget

LEMMA CallRefines ==
  ASSUME IInv, NEW l \in Lookups, NEW c \in Codes,
         FindByCode(l, c) \/ CacheReadFails(l, c)
  PROVE  Resolution!Ask(l, c)
<1>1. ASSUME NEW label, NEW url, Call(l, c, label, url)
      PROVE  /\ Status[l] = "idle" /\ Answer[l] = None
             /\ code' = [code EXCEPT ![l] = c]
             /\ started' = [started EXCEPT ![l] = now]
             /\ existed' = [existed EXCEPT ![l] = target[c] # None]
             /\ UNCHANGED <<target, former, now, Ttl + MaxLatency + lag>>
             /\ Status' = [Status EXCEPT ![l] = StatusAt(label)]
             /\ Answer' = [Answer EXCEPT ![l] = IF label = "found" THEN url ELSE None]
  <2>1. /\ pc' = [pc EXCEPT ![l] = label] /\ row' = [row EXCEPT ![l] = url]
        /\ row \in [Lookups -> Url] /\ pc[l] = "idle"
    BY <1>1 DEF Call, IInv, TypeOK
  <2>2. row'[l] = url /\ \A k \in Lookups : k # l => row'[k] = row[k]
    BY <2>1
  <2>3. /\ Status' = [Status EXCEPT ![l] = StatusAt(label)]
        /\ Answer' = [Answer EXCEPT ![l] = IF label = "found" THEN url ELSE None]
    BY <2>1, <2>2, StatusMoves
  <2>4. Status[l] = "idle" /\ Answer[l] = None
    BY <2>1 DEF Status, StatusAt, Answer
  <2>5. QED
    BY <1>1, <2>3, <2>4 DEF Call, world
<1>2. CASE GetHit(c) /\ Call(l, c, "found", cache[c].longUrl)
  <2>1. /\ cache[c].longUrl \in LongUrls
        /\ Resolution!MayAnswer(c, cache[c].longUrl, now)
    BY <1>2, FreshEntry DEF GetHit
  <2>2. StatusAt("found") = "answered"
    BY DEF StatusAt
  <2>3. QED
    BY <1>1, <1>2, <2>1, <2>2 DEF Resolution!Ask, Resolution!AnsweredWith
<1>3. CASE Call(l, c, "reading", None)
  <2>1. StatusAt("reading") = "pending"
    BY DEF StatusAt
  <2>2. Answer[l] = None /\ Answer' = [Answer EXCEPT ![l] = None]
    BY <1>1, <1>3
  <2>3. Answer' = Answer
    BY <2>2 DEF Answer
  <2>4. QED
    BY <1>1, <1>3, <2>1, <2>3 DEF Resolution!Ask
<1>4. QED
  BY <1>2, <1>3 DEF FindByCode, CacheReadFails

LEMMA LookupRefines ==
  ASSUME IInv, NEW l \in Lookups, LookupStep(l)
  PROVE  Resolution!Settle(l) \/ UNCHANGED Resolution!vars
<1>1. Answer[l] = None /\ Status[l] = "pending"
      /\ UNCHANGED <<target, former, now, Ttl + MaxLatency + lag, code, started, existed>>
  BY DEF LookupStep, TableAnswers, TableFails, Resume, CacheWriteFails, Answer, Status,
         StatusAt, world
<1>2. CASE TableAnswers(l)
  <2>1. /\ pc' = [pc EXCEPT ![l] = "read"]
        /\ \A k \in Lookups : k # l => row'[k] = row[k]
    BY <1>2 DEF TableAnswers, IInv, TypeOK
  <2>2. /\ Status' = [Status EXCEPT ![l] = StatusAt("read")]
        /\ Answer' = [Answer EXCEPT ![l] = IF "read" = "found" THEN row'[l] ELSE None]
    BY <2>1, StatusMoves
  <2>3. Status' = Status /\ Answer' = Answer
    BY <1>1, <2>2 DEF Status, Answer, StatusAt
  <2>4. QED
    BY <1>1, <2>3 DEF Resolution!vars
<1>3. CASE TableFails(l)
  <2>1. pc' = [pc EXCEPT ![l] = "failed"] /\ row' = row
    BY <1>3 DEF TableFails
  <2>2. /\ Status' = [Status EXCEPT ![l] = StatusAt("failed")]
        /\ Answer' = [Answer EXCEPT ![l] = IF "failed" = "found" THEN row'[l] ELSE None]
    BY <2>1, StatusMoves
  <2>3. Answer' = Answer /\ StatusAt("failed") = "failed"
    BY <1>1, <2>2 DEF Answer, StatusAt
  <2>4. QED
    BY <1>1, <2>2, <2>3 DEF Resolution!Settle
<1>4. CASE Resume(l) \/ CacheWriteFails(l)
  <2>1. pc[l] = "read" /\ Settle(l) /\ row' = row
    BY <1>4 DEF Resume, CacheWriteFails
  <2>2. CASE row[l] = None
    <3>1. /\ Status' = [Status EXCEPT ![l] = StatusAt("missing")]
          /\ Answer' = [Answer EXCEPT ![l] = None]
      BY <2>1, <2>2, StatusMoves DEF Settle
    <3>2. ~existed[l]
      BY <2>1, <2>2 DEF IInv, RowsStay
    <3>3. QED
      BY <1>1, <3>1, <3>2 DEF Resolution!Settle, Resolution!AnsweredWith, StatusAt
  <2>3. CASE row[l] # None
    <3>1. /\ Status' = [Status EXCEPT ![l] = StatusAt("found")]
          /\ Answer' = [Answer EXCEPT ![l] = row[l]]
      BY <2>1, <2>3, StatusMoves DEF Settle
    <3>2. row[l] \in LongUrls /\ Resolution!MayAnswer(code[l], row[l], started[l])
      BY <2>1, <2>3, FreshRead
    <3>3. QED
      BY <1>1, <3>1, <3>2 DEF Resolution!Settle, Resolution!AnsweredWith, StatusAt
  <2>4. QED
    BY <2>2, <2>3
<1>5. QED
  BY <1>2, <1>3, <1>4 DEF LookupStep

LEMMA DeliveredRefines ==
  ASSUME IInv, NEW l \in Lookups, Delivered(l)
  PROVE  Resolution!Deliver(l)
<1>1. /\ Status' = [Status EXCEPT ![l] = StatusAt("idle")]
      /\ Answer' = [Answer EXCEPT ![l] = None]
  BY StatusMoves DEF Delivered, IInv, TypeOK
<1>2. StatusAt("idle") = "idle" /\ Status[l] \in {"answered", "failed"}
  BY DEF Delivered, Status, StatusAt
<1>3. QED
  BY <1>1, <1>2 DEF Delivered, world, Resolution!Deliver

(* Every step of the cache is one of what it promises, or a stutter.       *)
LEMMA CacheStepResolves ==
  IInv /\ [Next]_vars => [Resolution!Next]_(Resolution!vars)
<1> SUFFICES ASSUME IInv, [Next]_vars PROVE Resolution!Next \/ UNCHANGED Resolution!vars
  OBVIOUS
<1>1. ASSUME NEW l \in Lookups, NEW c \in Codes, FindByCode(l, c) \/ CacheReadFails(l, c)
      PROVE  Resolution!Next
  BY <1>1, CallRefines DEF Resolution!Next
<1>2. ASSUME NEW l \in Lookups, LookupStep(l)
      PROVE  Resolution!Next \/ UNCHANGED Resolution!vars
  BY <1>2, LookupRefines DEF Resolution!Next
<1>3. ASSUME NEW l \in Lookups, Delivered(l)
      PROVE  Resolution!Next
  BY <1>3, DeliveredRefines DEF Resolution!Next
<1>4. ASSUME UNCHANGED <<pc, row>>
      PROVE  UNCHANGED <<Status, Answer>>
  BY <1>4 DEF Status, Answer
<1>5. ASSUME NEW c \in Codes, NEW u \in LongUrls, Change(c, u)
      PROVE  Resolution!Next
  <2>1. UNCHANGED <<now, Ttl + MaxLatency + lag, Status, code, started, existed, Answer>>
    BY <1>4, <1>5 DEF Change, lookup
  <2>2. Resolution!Change(c, u)
    BY <1>5, <2>1 DEF Change, Replaced, Resolution!Change, Resolution!Replaced
  <2>3. QED
    BY <2>2 DEF Resolution!Next
<1>6. CASE Tick
  <2>1. Resolution!TimePasses
    BY <1>4, <1>6 DEF Tick, lookup, Resolution!TimePasses
  <2>2. QED
    BY <2>1 DEF Resolution!Next
<1>7. CASE SetBack
  <2>1. Ttl + MaxLatency + lag' = (Ttl + MaxLatency + lag) + 1
    BY <1>7, CacheAssumption DEF SetBack, IInv, TypeOK
  <2>2. Resolution!Loosen
    BY <1>4, <1>7, <2>1 DEF SetBack, lookup, Resolution!Loosen
  <2>3. QED
    BY <2>2 DEF Resolution!Next
<1>8. CASE Restart
  <2>1. /\ Status' = [l \in Lookups |-> "idle"]
        /\ Answer' = [l \in Lookups |-> None]
    BY <1>8 DEF Restart, Status, StatusAt, Answer
  <2>2. Resolution!Restart
    BY <1>8, <2>1 DEF Restart, world, Resolution!Restart
  <2>3. QED
    BY <2>2 DEF Resolution!Next
<1>9. CASE UNCHANGED vars
  <2>1. UNCHANGED <<Status, Answer>>
    BY <1>4, <1>9 DEF vars, lookup
  <2>2. QED
    BY <1>9, <2>1 DEF vars, world, lookup, Resolution!vars
<1>10. QED
  BY <1>1, <1>2, <1>3, <1>5, <1>6, <1>7, <1>8, <1>9 DEF Next

LEMMA InitResolves == Init => Resolution!Init
<1> SUFFICES ASSUME Init PROVE Resolution!Init
  OBVIOUS
<1>1. Ttl + MaxLatency + lag \in Nat
  BY CacheAssumption DEF Init
<1>2. Status = [l \in Lookups |-> "idle"] /\ Answer = [l \in Lookups |-> None]
  BY DEF Init, Status, StatusAt, Answer
<1>3. QED
  BY <1>1, <1>2 DEF Init, Url, Resolution!Init

(* Every answer was its code's target no longer ago than ttl, the latency  *)
(* of one read and the setback of Date, counted from the call.             *)
THEOREM CacheResolves == Spec => ResolutionSafety
BY InitResolves, CacheStepResolves, Invariance, PTL
   DEF Spec, ResolutionSafety, Resolution!Spec

(***************************************************************************)
(* The eviction order                                                      *)
(***************************************************************************)
LEMMA AppendedIsLast ==
  ASSUME NEW S, NEW s \in Seq(S), IsInjective(s), NEW e \in S, e \notin ToSet(s)
  PROVE  /\ Append(s, e) \in Seq(S) /\ IsInjective(Append(s, e))
         /\ Len(Append(s, e)) = Len(s) + 1
         /\ ToSet(Append(s, e)) = ToSet(s) \cup {e}
<1> DEFINE t == Append(s, e)
<1>1. /\ t \in Seq(S) /\ Len(t) = Len(s) + 1 /\ DOMAIN t = 1..(Len(s) + 1)
      /\ DOMAIN s = 1..Len(s) /\ Len(s) \in Nat
      /\ \A i \in 1..Len(s) : t[i] = s[i] /\ s[i] # e
      /\ t[Len(s) + 1] = e
  BY AppendProperties, LenProperties DEF ToSet
<1>2. ToSet(t) = ToSet(s) \cup {e}
  <2>1. \A x : x \in ToSet(t) => x \in ToSet(s) \cup {e}
    BY <1>1 DEF ToSet
  <2>2. \A i \in DOMAIN s : i \in DOMAIN t /\ t[i] = s[i]
    BY <1>1
  <2>3. e \in ToSet(t)
    BY <1>1 DEF ToSet
  <2>4. ToSet(s) \subseteq ToSet(t)
    BY <2>2 DEF ToSet
  <2> QED
    BY <2>1, <2>3, <2>4
<1>3. IsInjective(t)
  BY <1>1 DEF IsInjective
<1> QED
  BY <1>1, <1>2, <1>3

(* Removing at i leaves the elements before i in place, and moves those    *)
(* behind it forward by one.                                               *)
LEMMA RemovedAt ==
  ASSUME NEW S, NEW s \in Seq(S), IsInjective(s), NEW i \in 1..Len(s)
  PROVE  /\ RemoveAt(s, i) \in Seq(S) /\ IsInjective(RemoveAt(s, i))
         /\ Len(RemoveAt(s, i)) = Len(s) - 1
         /\ ToSet(RemoveAt(s, i)) = ToSet(s) \ {s[i]}
<1> DEFINE t == RemoveAt(s, i)
           old(j) == IF j < i THEN j ELSE j + 1
<1>1. Len(s) \in Nat /\ DOMAIN s = 1..Len(s) /\ i \in Nat
  BY LenProperties
<1>2. /\ SubSeq(s, 1, i - 1) \in Seq(S) /\ Len(SubSeq(s, 1, i - 1)) = i - 1
      /\ \A j \in 1..(i - 1) : SubSeq(s, 1, i - 1)[j] = s[j]
  BY <1>1, SubSeqProperties
<1>3. /\ SubSeq(s, i + 1, Len(s)) \in Seq(S)
      /\ Len(SubSeq(s, i + 1, Len(s))) = Len(s) - i
      /\ \A j \in 1..(Len(s) - i) : SubSeq(s, i + 1, Len(s))[j] = s[i + j]
  <2>1. i + 1 \in Int /\ Len(s) \in Int /\ Len(s) - (i + 1) + 1 = Len(s) - i /\ i <= Len(s)
    BY <1>1
  <2>2. \A k \in (i + 1)..Len(s) : s[k] \in S
    BY <1>1, ElementOfSeq
  <2>3. /\ SubSeq(s, i + 1, Len(s)) \in Seq(S)
        /\ Len(SubSeq(s, i + 1, Len(s))) =
             IF i + 1 <= Len(s) THEN Len(s) - (i + 1) + 1 ELSE 0
        /\ \A j \in 1..(Len(s) - (i + 1) + 1) :
             SubSeq(s, i + 1, Len(s))[j] = s[(i + 1) + j - 1]
    BY <2>1, <2>2, SubSeqProperties
  <2>4. \A j \in 1..(Len(s) - i) :
          j \in 1..(Len(s) - (i + 1) + 1) /\ (i + 1) + j - 1 = i + j
    BY <1>1
  <2>5. Len(SubSeq(s, i + 1, Len(s))) = Len(s) - i
    <3>1. CASE i + 1 <= Len(s)
      BY <2>1, <2>3, <3>1
    <3>2. CASE ~(i + 1 <= Len(s))
      <4>1. \A n \in Nat : i <= n /\ ~(i + 1 <= n) => n - i = 0
        BY <1>1
      <4>2. Len(s) - i = 0
        BY <1>1, <2>1, <3>2, <4>1
      <4> QED
        BY <2>3, <3>2, <4>2
    <3> QED
      BY <3>1, <3>2
  <2>6. \A j \in 1..(Len(s) - i) : SubSeq(s, i + 1, Len(s))[j] = s[i + j]
    BY <2>3, <2>4, Zenon
  <2> QED
    BY <2>3, <2>5, <2>6
<1>4. /\ t \in Seq(S) /\ Len(t) = Len(s) - 1
      /\ \A j \in 1..(Len(s) - 1) : t[j] = s[old(j)]
  <2> DEFINE a == SubSeq(s, 1, i - 1)
             b == SubSeq(s, i + 1, Len(s))
  <2>1. t = a \o b
    BY DEF RemoveAt
  <2>2. /\ a \in Seq(S) /\ Len(a) = i - 1 /\ \A j \in 1..(i - 1) : a[j] = s[j]
        /\ b \in Seq(S) /\ Len(b) = Len(s) - i
        /\ \A j \in 1..(Len(s) - i) : b[j] = s[i + j]
    BY <1>2, <1>3
  <2> HIDE DEF a, b, t
  <2>3. /\ t \in Seq(S) /\ Len(t) = Len(s) - 1
        /\ \A j \in 1..(Len(s) - 1) : t[j] = IF j <= i - 1 THEN a[j] ELSE b[j - (i - 1)]
    <3>1. (i - 1) + (Len(s) - i) = Len(s) - 1
      BY <1>1
    <3>2. /\ t \in Seq(S) /\ Len(t) = Len(a) + Len(b)
          /\ \A j \in 1..(Len(a) + Len(b)) : t[j] = IF j <= Len(a) THEN a[j] ELSE b[j - Len(a)]
      BY <2>1, <2>2, ConcatProperties, Zenon
    <3> QED
      BY <2>2, <3>1, <3>2
  <2>4. \A j \in 1..(Len(s) - 1) : j > i - 1 => b[j - (i - 1)] = s[j + 1]
    <3>1. \A j \in 1..(Len(s) - 1) :
            j > i - 1 => j - (i - 1) \in 1..(Len(s) - i) /\ i + (j - (i - 1)) = j + 1
      BY <1>1
    <3> QED
      BY <2>2, <3>1
  <2> QED
    BY <1>1, <2>2, <2>3, <2>4
<1>5. DOMAIN t = 1..(Len(s) - 1)
  BY <1>4, LenProperties
<1>6. \A j \in DOMAIN t : old(j) \in DOMAIN s /\ old(j) # i /\ t[j] = s[old(j)]
  BY <1>1, <1>4, <1>5
<1>7. \A k \in DOMAIN s : k # i => \E j \in DOMAIN t : k = old(j)
  <2> SUFFICES ASSUME NEW k \in DOMAIN s, k # i PROVE \E j \in DOMAIN t : k = old(j)
    OBVIOUS
  <2>1. CASE k < i
    BY <1>1, <1>5, <2>1
  <2>2. CASE k > i
    <3>1. k - 1 \in DOMAIN t /\ k = old(k - 1)
      BY <1>1, <1>5, <2>2
    <3> QED
      BY <3>1
  <2> QED
    BY <1>1, <2>1, <2>2
<1>8. IsInjective(t)
  <2>1. \A j, k \in DOMAIN t : old(j) = old(k) => j = k
    BY <1>1, <1>5
  <2> QED
    BY <1>6, <2>1 DEF IsInjective
<1>9. ToSet(t) = ToSet(s) \ {s[i]}
  <2> HIDE DEF old, t
  <2>1. \A k \in DOMAIN s : s[k] = s[i] => k = i
    BY <1>1 DEF IsInjective
  <2>2. ToSet(t) \subseteq ToSet(s) \ {s[i]}
    BY <1>6, <2>1 DEF ToSet
  <2>3. \A k \in DOMAIN s : s[k] # s[i] => s[k] \in ToSet(t)
    BY <1>6, <1>7 DEF ToSet
  <2> QED
    BY <2>2, <2>3 DEF ToSet
<1> QED
  BY <1>4, <1>8, <1>9

LEMMA RemovedFirst ==
  ASSUME NEW S, NEW s \in Seq(S), IsInjective(s), NEW e
  PROVE  /\ RemoveFirst(s, e) \in Seq(S) /\ IsInjective(RemoveFirst(s, e))
         /\ Len(RemoveFirst(s, e)) = IF e \in ToSet(s) THEN Len(s) - 1 ELSE Len(s)
         /\ ToSet(RemoveFirst(s, e)) = ToSet(s) \ {e}
<1>1. DOMAIN s = 1..Len(s)
  BY LenProperties
<1>2. CASE e \in ToSet(s)
  <2>1. PICK i \in 1..Len(s) : s[i] = e
    BY <1>1, <1>2 DEF ToSet
  <2>2. {j \in 1..Len(s) : s[j] = e} = {i} /\ Min({i}) = i
    BY <1>1, <2>1 DEF IsInjective, Min
  <2>3. RemoveFirst(s, e) = RemoveAt(s, i)
    BY <2>1, <2>2 DEF RemoveFirst, SelectInSeq
  <2> QED
    BY <1>2, <2>1, <2>3, RemovedAt
<1>3. CASE e \notin ToSet(s)
  BY <1>1, <1>3 DEF RemoveFirst, ToSet
<1> QED
  BY <1>2, <1>3

LEMMA HeadRemoved ==
  ASSUME NEW S, NEW s \in Seq(S), IsInjective(s), Len(s) # 0
  PROVE  /\ Tail(s) \in Seq(S) /\ IsInjective(Tail(s))
         /\ Len(Tail(s)) = Len(s) - 1
         /\ ToSet(Tail(s)) = ToSet(s) \ {Head(s)}
<1>1. Len(s) \in Nat /\ 1 \in 1..Len(s) /\ Head(s) = s[1] /\ s # << >>
  BY LenProperties, EmptySeq, HeadTailProperties
<1>2. /\ Tail(s) \in Seq(S) /\ Len(Tail(s)) = Len(s) - 1
      /\ \A j \in 1..Len(Tail(s)) : Tail(s)[j] = s[j + 1]
  BY <1>1, HeadTailProperties
<1>3. DOMAIN s = 1..Len(s) /\ DOMAIN Tail(s) = 1..(Len(s) - 1)
  BY <1>2, LenProperties
<1>4. IsInjective(Tail(s))
  BY <1>1, <1>2, <1>3 DEF IsInjective
<1>5. \A k \in DOMAIN s : s[k] # s[1] => k - 1 \in DOMAIN Tail(s) /\ Tail(s)[k - 1] = s[k]
  BY <1>1, <1>2, <1>3
<1>6. \A j \in DOMAIN Tail(s) :
        j + 1 \in DOMAIN s /\ Tail(s)[j] = s[j + 1] /\ s[j + 1] # s[1]
  BY <1>1, <1>2, <1>3 DEF IsInjective
<1>7. ToSet(Tail(s)) = ToSet(s) \ {s[1]}
  <2>1. ToSet(Tail(s)) \subseteq ToSet(s) \ {s[1]}
    BY <1>6 DEF ToSet
  <2>2. \A k \in DOMAIN s : s[k] # s[1] => s[k] \in ToSet(Tail(s))
    BY <1>5 DEF ToSet
  <2> QED
    BY <2>1, <2>2 DEF ToSet
<1> QED
  BY <1>1, <1>2, <1>4, <1>7

LEMMA EmptyOrder ==
  /\ <<>> \in Seq(Codes) /\ ToSet(<<>>) = {} /\ IsInjective(<<>>)
  /\ MaxEntries # 0 => Len(<<>>) <= MaxEntries
BY CacheAssumption, EmptySeq DEF ToSet, IsInjective

(* A hit moves its code to the end, a miss takes a stale one out.          *)
LEMMA GetKeepsOrder ==
  ASSUME IInv, Consistent, NEW c \in Codes, GetHit(c) \/ GetMiss(c)
  PROVE  Consistent'
<1>1. /\ recency \in Seq(Codes) /\ IsInjective(recency) /\ ToSet(recency) = Cached
      /\ MaxEntries # 0 => Len(recency) <= MaxEntries
      /\ Len(recency) \in Nat
  BY LenProperties DEF Consistent
<1> DEFINE rest == RemoveFirst(recency, c)
<1>2. /\ rest \in Seq(Codes) /\ IsInjective(rest)
      /\ Len(rest) = IF c \in Cached THEN Len(recency) - 1 ELSE Len(recency)
      /\ ToSet(rest) = Cached \ {c}
  BY <1>1, RemovedFirst
<1> HIDE DEF rest
<1>3. CASE GetHit(c)
  <2>1. recency' = Append(rest, c) /\ c \in Cached /\ Cached' = Cached
    BY <1>3 DEF GetHit, Used, Hit, Cached, rest
  <2>2. /\ Append(rest, c) \in Seq(Codes) /\ IsInjective(Append(rest, c))
        /\ Len(Append(rest, c)) = Len(recency)
        /\ ToSet(Append(rest, c)) = Cached
    <3>1. c \notin ToSet(rest)
      BY <1>2
    <3>2. Len(rest) + 1 = Len(recency) /\ (Cached \ {c}) \cup {c} = Cached
      BY <1>1, <1>2, <2>1
    <3> QED
      BY <1>2, <3>1, <3>2, AppendedIsLast
  <2> QED
    BY <1>1, <2>1, <2>2 DEF Consistent
<1>4. CASE GetMiss(c)
  <2>1. recency' = rest /\ Cached' = Cached \ {c}
    BY <1>4 DEF GetMiss, Cached, rest, IInv, TypeOK
  <2> QED
    BY <1>1, <1>2, <2>1, CacheAssumption DEF Consistent
<1> QED
  BY <1>3, <1>4

(* Set makes room for a new code by forgetting the first of the order.     *)
LEMMA SetKeepsOrder ==
  ASSUME IInv, Consistent, NEW c \in Codes, NEW u \in LongUrls, Set(c, u)
  PROVE  Consistent'
<1>1. /\ recency \in Seq(Codes) /\ IsInjective(recency) /\ ToSet(recency) = Cached
      /\ MaxEntries # 0 => Len(recency) <= MaxEntries
      /\ Len(recency) \in Nat
  BY LenProperties DEF Consistent
<1> DEFINE e == [longUrl |-> u, start |-> DateNow]
           rest == IF Evicted(c) = {} THEN RemoveFirst(recency, c) ELSE Tail(recency)
<1>2. e # None
  <2>1. DateNow \in (0 - MaxLag)..MaxTime
    BY CacheAssumption DEF DateNow, IInv, TypeOK
  <2> QED
    BY <2>1, EntryAssumption DEF Entry
<1>3. Cached' = (Cached \ Evicted(c)) \cup {c}
  <2>1. c \notin Evicted(c)
    <3> SUFFICES ASSUME c \in Evicted(c) PROVE FALSE
      OBVIOUS
    <3>1. c \notin Cached /\ c = Head(recency) /\ Len(recency) # 0
      BY <1>1, CacheAssumption DEF Evicted
    <3>2. 1 \in DOMAIN recency /\ recency # <<>>
      BY <1>1, <3>1, LenProperties
    <3>3. Head(recency) = recency[1]
      BY <1>1, <3>2, HeadTailProperties
    <3> QED
      BY <1>1, <3>1, <3>2, <3>3 DEF ToSet
  <2>2. \A d \in Codes : cache'[d] = IF d = c THEN e ELSE IF d \in Evicted(c) THEN None ELSE cache[d]
    BY DEF Set
  <2> HIDE DEF e
  <2> QED
    BY <1>2, <2>1, <2>2 DEF Cached
<1>4. /\ rest \in Seq(Codes) /\ IsInjective(rest)
      /\ ToSet(rest) = (Cached \ Evicted(c)) \ {c}
      /\ MaxEntries # 0 => Len(rest) + 1 <= MaxEntries
      /\ Len(rest) \in Nat
  <2>1. CASE Evicted(c) = {}
    <3>1. /\ RemoveFirst(recency, c) \in Seq(Codes) /\ IsInjective(RemoveFirst(recency, c))
          /\ Len(RemoveFirst(recency, c)) =
               IF c \in Cached THEN Len(recency) - 1 ELSE Len(recency)
          /\ ToSet(RemoveFirst(recency, c)) = Cached \ {c}
      BY <1>1, RemovedFirst
    <3>2. c \in Cached \/ MaxEntries = 0 \/ Len(recency) < MaxEntries
      BY <1>1, <2>1, CacheAssumption DEF Evicted
    <3> QED
      BY <1>1, <2>1, <3>1, <3>2, CacheAssumption, LenProperties
  <2>2. CASE Evicted(c) # {}
    <3>1. /\ MaxEntries # 0 /\ c \notin Cached /\ Len(recency) = MaxEntries
          /\ Evicted(c) = {Head(recency)}
      BY <1>1, <2>2, CacheAssumption DEF Evicted
    <3>2. /\ Tail(recency) \in Seq(Codes) /\ IsInjective(Tail(recency))
          /\ Len(Tail(recency)) = Len(recency) - 1
          /\ ToSet(Tail(recency)) = Cached \ {Head(recency)}
      BY <1>1, <3>1, CacheAssumption, HeadRemoved
    <3> QED
      BY <1>1, <2>2, <3>1, <3>2, LenProperties
  <2> QED
    BY <2>1, <2>2
<1>5. recency' = Append(rest, c)
  BY DEF Set
<1> HIDE DEF rest
<1>6. /\ recency' \in Seq(Codes) /\ IsInjective(recency')
      /\ Len(recency') = Len(rest) + 1
      /\ ToSet(recency') = ((Cached \ Evicted(c)) \ {c}) \cup {c}
  <2>1. c \notin ToSet(rest)
    BY <1>4
  <2> QED
    BY <1>4, <1>5, <2>1, AppendedIsLast
<1> QED
  BY <1>3, <1>4, <1>6 DEF Consistent

LEMMA StepKeepsOrder == IInv /\ Consistent /\ [Next]_vars => Consistent'
<1> SUFFICES ASSUME IInv, Consistent, [Next]_vars PROVE Consistent'
  OBVIOUS
<1>1. ASSUME UNCHANGED store PROVE Consistent'
  BY <1>1 DEF Consistent, Cached, store
<1>2. ASSUME NEW l \in Lookups, NEW c \in Codes, FindByCode(l, c) \/ CacheReadFails(l, c)
      PROVE  Consistent'
  BY <1>1, <1>2, GetKeepsOrder DEF FindByCode, CacheReadFails
<1>3. ASSUME NEW l \in Lookups, LookupStep(l) PROVE Consistent'
  <2>1. CASE row[l] # None /\ pc[l] = "read" /\ Set(code[l], row[l])
    <3>1. code[l] \in Codes /\ row[l] \in LongUrls
      BY <2>1 DEF IInv, TypeOK, ReadsAreRecent, InFlight, Url
    <3> QED
      BY <2>1, <3>1, SetKeepsOrder
  <2>2. CASE UNCHANGED store
    BY <1>1, <2>2
  <2> QED
    BY <1>3, <2>1, <2>2 DEF LookupStep, TableAnswers, TableFails, Resume, CacheWriteFails
<1>4. ASSUME Restart PROVE Consistent'
  BY <1>4, EmptyOrder DEF Restart, Consistent, Cached
<1> QED
  BY <1>1, <1>2, <1>3, <1>4 DEF Next, Delivered, Change, Tick, SetBack, vars

(* At most maxEntries codes are cached, each once in the eviction order,   *)
(* whatever hits, expiries, refills and restarts there have been.          *)
THEOREM CacheBounded == Spec => []Consistent
<1>1. Init => Consistent
  BY EmptyOrder DEF Init, Consistent, Cached
<1> QED
  BY <1>1, StepKeepsOrder, Invariance, PTL DEF Spec

(***************************************************************************)
(* The visits use the cache as CachingUrlRepository says                   *)
(***************************************************************************)
LEMMA StepUsesCache ==
  ASSUME [RNext]_rvars
  PROVE  [Next]_vars
<1>1. ASSUME NEW v \in Visits, NEW c \in Codes, Visit(v, c) PROVE Next
  BY <1>1 DEF Visit, Visits, Next
<1>2. ASSUME NEW v \in Visits, Resolve(v) PROVE Next
  BY <1>2 DEF Resolve, Visits, Next
<1>3. ASSUME NEW v \in Visits, RedirectAndClick(v) \/ NotFound(v) \/ Rethrow(v) PROVE Next
  BY <1>3 DEF RedirectAndClick, NotFound, Rethrow, Respond, Visits, Next
<1>4. ASSUME NEW v \in Visits, ClickStep(v) PROVE UNCHANGED vars
  BY <1>4 DEF ClickStep, ClickCommits, ClickSucceeds, ClickFails, ClickUnchanged
<1>5. ASSUME NEW v \in Visits, NEW word \in Malformed, VisitMalformed(v, word)
      PROVE  UNCHANGED vars
  BY <1>5 DEF VisitMalformed
<1>6. ASSUME Crash PROVE Next
  BY <1>6 DEF Crash, Next
<1>7. ASSUME Meanwhile PROVE Next
  BY <1>7 DEF Meanwhile, Next
<1>8. ASSUME UNCHANGED rvars PROVE UNCHANGED vars
  BY <1>8 DEF rvars
<1> QED
  BY <1>1, <1>2, <1>3, <1>4, <1>5, <1>6, <1>7, <1>8 DEF RNext, VisitStep

(* Everything that holds of the cache holds of it under visits and crashes.*)
THEOREM VisitsUseTheCache == RSafeSpec => Spec
<1>1. RInit => Init
  BY DEF RInit
<1> QED
  BY <1>1, StepUsesCache, PTL DEF RSafeSpec, Spec

(* So visits get what UrlResolution promises, whatever their clicks do.    *)
THEOREM VisitsResolve == RSafeSpec => ResolutionSafety
BY VisitsUseTheCache, CacheResolves, PTL

(***************************************************************************)
(* The statistics                                                          *)
(***************************************************************************)
LEMMA SetsAreFinite ==
  ASSUME NEW c
  PROVE  /\ IsFiniteSet(Redirected(c)) /\ IsFiniteSet(Beyond(c)) /\ IsFiniteSet(Counted(c))
         /\ Cardinality(Redirected(c)) \in Nat
         /\ Cardinality(Beyond(c)) \in Nat
         /\ Cardinality(Counted(c)) \in Nat
<1>1. IsFiniteSet(Visits)
  BY VisitAssumption DEF Visits
<1>2. /\ Redirected(c) \in SUBSET Visits
      /\ Beyond(c) \in SUBSET Visits
      /\ Counted(c) \in SUBSET Visits
  BY DEF Redirected, Beyond, Counted
<1> QED
  BY <1>1, <1>2, FS_Subset, FS_CardinalityType

(* The same, in the next state.                                            *)
LEMMA SetsStayFinite ==
  ASSUME NEW c
  PROVE  /\ IsFiniteSet(Redirected(c)') /\ IsFiniteSet(Beyond(c)') /\ IsFiniteSet(Counted(c)')
         /\ Cardinality(Redirected(c)') \in Nat
         /\ Cardinality(Beyond(c)') \in Nat
         /\ Cardinality(Counted(c)') \in Nat
<1>1. IsFiniteSet(Visits)
  BY VisitAssumption DEF Visits
<1>2. /\ Redirected(c)' \in SUBSET Visits
      /\ Beyond(c)' \in SUBSET Visits
      /\ Counted(c)' \in SUBSET Visits
  BY DEF Redirected, Beyond, Counted, Visits
<1> QED
  BY <1>1, <1>2, FS_Subset, FS_CardinalityType

(* Whatever leaves the counts alone keeps them right if redirects stay, no *)
(* click is issued that was under way, and none commits.                   *)
LEMMA CountsKept ==
  ASSUME RInv, clickCount' = clickCount, lastClickedAt' = lastClickedAt,
         \A c \in Codes : /\ Redirected(c) \subseteq Redirected(c)'
                          /\ Beyond(c) \subseteq Beyond(c)'
                          /\ Counted(c)' \subseteq Counted(c)
                          /\ \A v \in Redirected(c) : clickedAt'[v] = clickedAt[v]
  PROVE  CountsAreBeyond' /\ CountsAreVisits'
<1> SUFFICES ASSUME NEW c \in Codes
             PROVE  /\ clickCount'[c] <= Cardinality(Beyond(c)')
                    /\ Cardinality(Counted(c)') <= clickCount'[c]
                    /\ clickCount'[c] <= Cardinality(Redirected(c)')
                    /\ clickCount'[c] = 0 <=> lastClickedAt'[c] = None
                    /\ clickCount'[c] # 0 =>
                         \E v \in Redirected(c)' : lastClickedAt'[c] = clickedAt'[v]
  BY DEF CountsAreBeyond, CountsAreVisits
<1>1. clickCount[c] \in Nat
  BY DEF RInv, RTypeOK
<1>2. /\ clickCount[c] <= Cardinality(Beyond(c))
      /\ Cardinality(Counted(c)) <= clickCount[c]
      /\ clickCount[c] <= Cardinality(Redirected(c))
      /\ clickCount[c] = 0 <=> lastClickedAt[c] = None
      /\ clickCount[c] # 0 => \E v \in Redirected(c) : lastClickedAt[c] = clickedAt[v]
  BY DEF RInv, CountsAreBeyond, CountsAreVisits
<1>3. /\ Cardinality(Redirected(c)) <= Cardinality(Redirected(c)')
      /\ Cardinality(Beyond(c)) <= Cardinality(Beyond(c)')
      /\ Cardinality(Counted(c)') <= Cardinality(Counted(c))
  BY SetsAreFinite, SetsStayFinite, FS_Subset
<1>4. clickCount'[c] <= Cardinality(Beyond(c)') /\ clickCount'[c] <= Cardinality(Redirected(c)')
  BY <1>1, <1>2, <1>3, SetsAreFinite, SetsStayFinite
<1>5. Cardinality(Counted(c)') <= clickCount'[c]
  BY <1>1, <1>2, <1>3, SetsAreFinite, SetsStayFinite
<1>6. clickCount'[c] # 0 => \E v \in Redirected(c)' : lastClickedAt'[c] = clickedAt'[v]
  BY <1>2
<1> QED
  BY <1>2, <1>4, <1>5, <1>6

(* As long as no click moves and no visit is answered by a redirect.       *)
LEMMA CountsUntouched ==
  ASSUME RInv, UNCHANGED stats,
         \A v \in Visits : response[v] = "redirect" <=> response'[v] = "redirect",
         \A v \in Visits : response[v] = "redirect" => asked'[v] = asked[v]
  PROVE  CountsAreBeyond' /\ CountsAreVisits'
<1>1. \A c \in Codes : Redirected(c)' = Redirected(c)
  BY DEF Redirected
<1>2. \A c \in Codes : Beyond(c)' = Beyond(c) /\ Counted(c)' = Counted(c)
  BY <1>1 DEF Beyond, Counted, stats
<1> QED
  BY <1>1, <1>2, CountsKept DEF stats

LEMMA CommitCounts ==
  ASSUME RInv, NEW v \in Visits, ClickCommits(v)
  PROVE  CountsAreBeyond' /\ CountsAreVisits'
<1>0. PICK d \in Codes : d = asked[v]
  BY DEF ClickCommits, RInv, AnswersComeOnce
<1>1. /\ click[v] = "issued" /\ click' = [click EXCEPT ![v] = "committed"]
      /\ clickCount' = [clickCount EXCEPT ![d] = clickCount[d] + 1]
      /\ lastClickedAt' = [lastClickedAt EXCEPT ![d] = clickedAt[v]]
      /\ UNCHANGED <<asked, response, clickedAt>>
  BY <1>0 DEF ClickCommits, ClickUnchanged
<1>2. response[v] = "redirect" /\ d \in Codes /\ v \in Redirected(d)
  BY <1>0, <1>1 DEF RInv, AnswersComeOnce, Redirected
<1>3. click \in [Visits -> {"none", "issued", "committed", "recorded", "logged", "lost"}]
  BY DEF RInv, RTypeOK
<1>4. \A c \in Codes : Redirected(c)' = Redirected(c)
  BY <1>1 DEF Redirected
<1>5. v \notin Beyond(d) /\ v \notin Counted(d)
  BY <1>1 DEF Beyond, Counted
<1>6. Beyond(d)' = Beyond(d) \cup {v} /\ Counted(d)' = Counted(d) \cup {v}
  BY <1>1, <1>2, <1>3, <1>4 DEF Beyond, Counted, Redirected
<1>7. \A c \in Codes \ {d} : Beyond(c)' = Beyond(c) /\ Counted(c)' = Counted(c)
  BY <1>0, <1>1, <1>3, <1>4 DEF Beyond, Counted, Redirected
<1>8. clickCount \in [Codes -> Nat]
  BY DEF RInv, RTypeOK
<1>9. lastClickedAt \in [Codes -> ((0 - MaxLag)..MaxTime) \cup {None}]
      /\ clickedAt[v] \in (0 - MaxLag)..MaxTime
  BY DEF RInv, RTypeOK
<1>10. clickedAt[v] # None
  BY <1>9, VisitAssumption
<1> SUFFICES ASSUME NEW c \in Codes
             PROVE  /\ clickCount'[c] <= Cardinality(Beyond(c)')
                    /\ Cardinality(Counted(c)') <= clickCount'[c]
                    /\ clickCount'[c] <= Cardinality(Redirected(c)')
                    /\ clickCount'[c] = 0 <=> lastClickedAt'[c] = None
                    /\ clickCount'[c] # 0 =>
                         \E w \in Redirected(c)' : lastClickedAt'[c] = clickedAt'[w]
  BY DEF CountsAreBeyond, CountsAreVisits
<1>11. /\ clickCount[c] <= Cardinality(Beyond(c))
       /\ Cardinality(Counted(c)) <= clickCount[c]
       /\ clickCount[c] <= Cardinality(Redirected(c))
       /\ clickCount[c] = 0 <=> lastClickedAt[c] = None
       /\ clickCount[c] # 0 => \E w \in Redirected(c) : lastClickedAt[c] = clickedAt[w]
  BY DEF RInv, CountsAreBeyond, CountsAreVisits
<1>12. CASE c # d
  <2>1. clickCount'[c] = clickCount[c] /\ lastClickedAt'[c] = lastClickedAt[c]
    BY <1>1, <1>8, <1>9, <1>12
  <2> QED
    BY <1>1, <1>4, <1>7, <1>11, <1>12, <2>1
<1>13. CASE c = d
  <2>1. clickCount'[c] = clickCount[c] + 1 /\ lastClickedAt'[c] = clickedAt[v]
    BY <1>1, <1>2, <1>8, <1>9, <1>13
  <2>2. /\ Cardinality(Beyond(c)') = Cardinality(Beyond(c)) + 1
        /\ Cardinality(Counted(c)') = Cardinality(Counted(c)) + 1
    BY <1>5, <1>6, <1>13, SetsAreFinite, FS_AddElement
  <2>3. Cardinality(Beyond(c)') <= Cardinality(Redirected(c)')
    <3>1. Beyond(c)' \in SUBSET Redirected(c)'
      BY DEF Beyond
    <3> QED
      BY <3>1, SetsStayFinite, FS_Subset
  <2>4. clickCount[c] \in Nat
    BY <1>8
  <2>5. /\ clickCount'[c] <= Cardinality(Beyond(c)')
        /\ Cardinality(Counted(c)') <= clickCount'[c]
        /\ clickCount'[c] <= Cardinality(Redirected(c)')
    BY <1>11, <2>1, <2>2, <2>3, <2>4, SetsAreFinite, SetsStayFinite
  <2>6. clickCount'[c] # 0 /\ lastClickedAt'[c] # None
    BY <1>10, <2>1, <2>4
  <2>7. v \in Redirected(c)' /\ lastClickedAt'[c] = clickedAt'[v]
    BY <1>1, <1>2, <1>4, <1>13, <2>1
  <2> QED
    BY <2>5, <2>6, <2>7
<1> QED
  BY <1>12, <1>13

(***************************************************************************)
(* The steps, one by one                                                   *)
(***************************************************************************)
(* What is left of the invariant once the counts are looked after.         *)
Frame == RTypeOK /\ AnswersComeOnce /\ OnlyCrashesLoseVisits

LEMMA PcType == RInv => pc \in [Visits -> {"idle", "reading", "read", "found", "missing", "failed"}]
BY DEF RInv, IInv, TypeOK, Visits

(* A visit that has not begun is nowhere on its way.                       *)
LEMMA NotBegun ==
  ASSUME RInv, NEW v \in Visits, asked[v] = None
  PROVE  pc[v] = "idle" /\ response[v] = "none" /\ click[v] = "none"
BY VisitAssumption DEF RInv, RTypeOK, AnswersComeOnce

LEMMA VisitPreserves ==
  ASSUME RInv, NEW v \in Visits, NEW c \in Codes, Visit(v, c)
  PROVE  Frame' /\ CountsAreBeyond' /\ CountsAreVisits'
<1>1. /\ asked[v] = None /\ asked' = [asked EXCEPT ![v] = c]
      /\ UNCHANGED <<response, click, clickedAt, clickCount, lastClickedAt, restarts>>
  BY DEF Visit, Begin
<1>2. PICK label : pc' = [pc EXCEPT ![v] = label]
  BY DEF Visit, FindByCode, CacheReadFails, Call
<1>3. response[v] = "none" /\ click[v] = "none"
  BY <1>1, NotBegun
<1>4. RTypeOK'
  BY <1>1 DEF RInv, RTypeOK
<1>5. AnswersComeOnce'
  BY <1>1, <1>2, <1>3, PcType, VisitAssumption DEF RInv, RTypeOK, AnswersComeOnce
<1>6. OnlyCrashesLoseVisits'
  BY <1>1 DEF RInv, OnlyCrashesLoseVisits
<1>7. CountsAreBeyond' /\ CountsAreVisits'
  BY <1>1, <1>3, CountsUntouched DEF stats, RInv, RTypeOK
<1> QED
  BY <1>4, <1>5, <1>6, <1>7 DEF Frame

LEMMA MalformedPreserves ==
  ASSUME RInv, NEW v \in Visits, NEW word \in Malformed, VisitMalformed(v, word)
  PROVE  Frame' /\ CountsAreBeyond' /\ CountsAreVisits'
<1>1. /\ asked[v] = None /\ asked' = [asked EXCEPT ![v] = word]
      /\ response' = [response EXCEPT ![v] = "notFound"]
      /\ UNCHANGED <<pc, click, clickedAt, clickCount, lastClickedAt, restarts>>
  BY DEF VisitMalformed, Begin, vars, lookup
<1>2. pc[v] = "idle" /\ response[v] = "none" /\ click[v] = "none"
  BY <1>1, NotBegun
<1>3. RTypeOK'
  BY <1>1 DEF RInv, RTypeOK
<1>4. AnswersComeOnce'
  BY <1>1, <1>2, VisitAssumption DEF RInv, RTypeOK, AnswersComeOnce
<1>5. OnlyCrashesLoseVisits'
  BY <1>1 DEF RInv, RTypeOK, OnlyCrashesLoseVisits
<1>6. CountsAreBeyond' /\ CountsAreVisits'
  BY <1>1, <1>2, CountsUntouched DEF stats, RInv, RTypeOK
<1> QED
  BY <1>3, <1>4, <1>5, <1>6 DEF Frame

(* Steps of the lookup, of the world and of nobody.                        *)
LEMMA QuietPreserves ==
  ASSUME RInv, UNCHANGED <<asked, response, stats, restarts>>,
         \A v \in Visits : pc'[v] # "idle" => pc[v] # "idle"
  PROVE  Frame' /\ CountsAreBeyond' /\ CountsAreVisits'
<1>1. RTypeOK'
  BY DEF RInv, RTypeOK, stats
<1>2. AnswersComeOnce'
  BY DEF RInv, AnswersComeOnce, stats
<1>3. OnlyCrashesLoseVisits'
  BY DEF RInv, OnlyCrashesLoseVisits
<1>4. CountsAreBeyond' /\ CountsAreVisits'
  BY CountsUntouched
<1> QED
  BY <1>1, <1>2, <1>3, <1>4 DEF Frame

LEMMA ResolvePreserves ==
  ASSUME RInv, NEW v \in Visits, Resolve(v)
  PROVE  Frame' /\ CountsAreBeyond' /\ CountsAreVisits'
<1>1. UNCHANGED <<asked, response, stats, restarts>>
  BY DEF Resolve
<1>2. pc[v] # "idle"
  BY DEF Resolve, LookupStep, TableAnswers, TableFails, Resume, CacheWriteFails
<1>3. PICK label : pc' = [pc EXCEPT ![v] = label]
  BY DEF Resolve, LookupStep, TableAnswers, TableFails, Resume, CacheWriteFails, Settle
<1>4. \A w \in Visits : pc'[w] # "idle" => pc[w] # "idle"
  BY <1>2, <1>3, PcType
<1> QED
  BY <1>1, <1>4, QuietPreserves

LEMMA NoRedirectPreserves ==
  ASSUME RInv, NEW v \in Visits, NotFound(v) \/ Rethrow(v)
  PROVE  Frame' /\ CountsAreBeyond' /\ CountsAreVisits'
<1>1. /\ pc[v] # "idle" /\ pc' = [pc EXCEPT ![v] = "idle"]
      /\ UNCHANGED <<asked, click, clickedAt, clickCount, lastClickedAt, restarts>>
  BY DEF NotFound, Rethrow, Respond, Delivered
<1>2. PICK with \in {"notFound", "error"} : response' = [response EXCEPT ![v] = with]
  BY DEF NotFound, Rethrow, Respond
<1>3. asked[v] \in Codes /\ response[v] = "none"
  BY <1>1 DEF RInv, AnswersComeOnce
<1>4. RTypeOK'
  BY <1>1, <1>2 DEF RInv, RTypeOK
<1>5. AnswersComeOnce'
  BY <1>1, <1>2, <1>3, PcType, VisitAssumption DEF RInv, RTypeOK, AnswersComeOnce
<1>6. OnlyCrashesLoseVisits'
  BY <1>1, <1>2 DEF RInv, RTypeOK, OnlyCrashesLoseVisits
<1>7. CountsAreBeyond' /\ CountsAreVisits'
  BY <1>1, <1>2, <1>3, CountsUntouched DEF stats, RInv, RTypeOK
<1> QED
  BY <1>4, <1>5, <1>6, <1>7 DEF Frame

LEMMA RedirectPreserves ==
  ASSUME RInv, NEW v \in Visits, RedirectAndClick(v)
  PROVE  Frame' /\ CountsAreBeyond' /\ CountsAreVisits'
<1>1. /\ pc[v] # "idle" /\ pc' = [pc EXCEPT ![v] = "idle"]
      /\ response' = [response EXCEPT ![v] = "redirect"]
      /\ click' = [click EXCEPT ![v] = "issued"]
      /\ clickedAt' = [clickedAt EXCEPT ![v] = DateNow]
      /\ UNCHANGED <<asked, clickCount, lastClickedAt, restarts>>
  BY DEF RedirectAndClick, Respond, Delivered, IssueClick
<1>2. asked[v] \in Codes /\ response[v] = "none"
  BY <1>1 DEF RInv, AnswersComeOnce
<1>3. DateNow \in (0 - MaxLag)..MaxTime
  BY CacheAssumption DEF DateNow, RInv, IInv, TypeOK
<1>4. RTypeOK'
  <2>1. clickedAt' \in [Visits -> (0 - MaxLag)..MaxTime]
    BY <1>1, <1>3 DEF RInv, RTypeOK
  <2>2. response' \in [Visits -> {"none", "redirect", "notFound", "error", "lost"}]
    BY <1>1 DEF RInv, RTypeOK
  <2>3. click' \in [Visits -> {"none", "issued", "committed", "recorded", "logged", "lost"}]
    BY <1>1 DEF RInv, RTypeOK
  <2> QED
    BY <1>1, <2>1, <2>2, <2>3 DEF RInv, RTypeOK
<1>5. AnswersComeOnce'
  BY <1>1, <1>2, PcType, VisitAssumption DEF RInv, RTypeOK, AnswersComeOnce
<1>6. OnlyCrashesLoseVisits'
  BY <1>1 DEF RInv, RTypeOK, OnlyCrashesLoseVisits
<1>7. ASSUME NEW c \in Codes
      PROVE  /\ Redirected(c) \subseteq Redirected(c)'
             /\ Beyond(c) \subseteq Beyond(c)'
             /\ Counted(c)' \subseteq Counted(c)
             /\ \A w \in Redirected(c) : clickedAt'[w] = clickedAt[w]
  <2>1. v \notin Redirected(c)
    BY <1>2 DEF Redirected
  <2>2. \A w \in Visits \ {v} : /\ response'[w] = response[w] /\ click'[w] = click[w]
                                /\ clickedAt'[w] = clickedAt[w]
    BY <1>1 DEF RInv, RTypeOK
  <2>3. click'[v] = "issued"
    BY <1>1 DEF RInv, RTypeOK
  <2> QED
    BY <1>1, <2>1, <2>2, <2>3 DEF Redirected, Beyond, Counted
<1>8. CountsAreBeyond' /\ CountsAreVisits'
  BY <1>1, <1>7, CountsKept
<1> QED
  BY <1>4, <1>5, <1>6, <1>8 DEF Frame

LEMMA ClickPreserves ==
  ASSUME RInv, NEW v \in Visits, ClickStep(v)
  PROVE  Frame' /\ CountsAreBeyond' /\ CountsAreVisits'
<1>1. UNCHANGED <<pc, asked, response, clickedAt, restarts>>
  BY DEF ClickStep, ClickCommits, ClickSucceeds, ClickFails, ClickUnchanged, vars, lookup
<1>2. PICK next \in {"committed", "recorded", "logged"} :
        click[v] # "none" /\ click' = [click EXCEPT ![v] = next]
  BY DEF ClickStep, ClickCommits, ClickSucceeds, ClickFails
<1>3. RTypeOK'
  <2>1. click' \in [Visits -> {"none", "issued", "committed", "recorded", "logged", "lost"}]
    BY <1>2 DEF RInv, RTypeOK
  <2>2. clickCount' \in [Codes -> Nat]
    BY DEF ClickStep, ClickCommits, ClickSucceeds, ClickFails, RInv, RTypeOK
  <2>3. lastClickedAt' \in [Codes -> ((0 - MaxLag)..MaxTime) \cup {None}]
    BY DEF ClickStep, ClickCommits, ClickSucceeds, ClickFails, RInv, RTypeOK
  <2> QED
    BY <1>1, <2>1, <2>2, <2>3 DEF RInv, RTypeOK
<1>4. AnswersComeOnce'
  BY <1>1, <1>2 DEF RInv, RTypeOK, AnswersComeOnce
<1>5. OnlyCrashesLoseVisits'
  BY <1>1 DEF RInv, OnlyCrashesLoseVisits
<1>6. CASE ClickCommits(v)
  BY <1>3, <1>4, <1>5, <1>6, CommitCounts DEF Frame
<1>7. CASE ClickSucceeds(v) \/ ClickFails(v)
  <2>1. clickCount' = clickCount /\ lastClickedAt' = lastClickedAt
    BY <1>7 DEF ClickSucceeds, ClickFails
  <2>2. \/ click'[v] = "logged"
        \/ (click[v] = "committed" /\ click'[v] = "recorded")
    BY <1>7 DEF ClickSucceeds, ClickFails, RInv, RTypeOK
  <2>3. \A w \in Visits \ {v} : click'[w] = click[w]
    BY <1>7 DEF ClickSucceeds, ClickFails, RInv, RTypeOK
  <2>4. ASSUME NEW c \in Codes
        PROVE  /\ Redirected(c) \subseteq Redirected(c)'
               /\ Beyond(c) \subseteq Beyond(c)'
               /\ Counted(c)' \subseteq Counted(c)
               /\ \A w \in Redirected(c) : clickedAt'[w] = clickedAt[w]
    BY <1>1, <2>2, <2>3 DEF Redirected, Beyond, Counted
  <2>5. CountsAreBeyond' /\ CountsAreVisits'
    BY <2>1, <2>4, CountsKept
  <2> QED
    BY <1>3, <1>4, <1>5, <2>5 DEF Frame
<1> QED
  BY <1>6, <1>7 DEF ClickStep

LEMMA CrashPreserves ==
  ASSUME RInv, Crash
  PROVE  Frame' /\ CountsAreBeyond' /\ CountsAreVisits'
<1>1. /\ restarts < MaxRestarts /\ restarts' = restarts + 1
      /\ \A v \in Visits : pc'[v] = "idle"
      /\ UNCHANGED <<asked, clickedAt, clickCount, lastClickedAt>>
  BY DEF Crash, Restart, Visits
<1>2. \A v \in Visits : /\ response'[v] = response[v] \/ response'[v] = "lost"
                        /\ response[v] # "none" => response'[v] = response[v]
                        /\ asked[v] = None => response'[v] = response[v]
  BY DEF Crash
<1>3. \A v \in Visits : \/ click[v] \in {"issued", "committed"} /\ click'[v] = "lost"
                        \/ click[v] \notin {"issued", "committed"} /\ click'[v] = click[v]
  BY DEF Crash
<1>4. RTypeOK'
  <2>1. response' \in [Visits -> {"none", "redirect", "notFound", "error", "lost"}]
    BY DEF Crash, RInv, RTypeOK
  <2>2. click' \in [Visits -> {"none", "issued", "committed", "recorded", "logged", "lost"}]
    BY DEF Crash, RInv, RTypeOK
  <2>3. restarts' \in 0..MaxRestarts
    BY <1>1, VisitAssumption DEF RInv, RTypeOK
  <2> QED
    BY <1>1, <2>1, <2>2, <2>3 DEF RInv, RTypeOK
<1>5. \A v \in Visits : response'[v] = "redirect" <=> response[v] = "redirect"
  BY <1>2
<1>6. AnswersComeOnce'
  BY <1>1, <1>2, <1>3, <1>5 DEF RInv, AnswersComeOnce
<1>7. OnlyCrashesLoseVisits'
  BY <1>1 DEF RInv, RTypeOK, OnlyCrashesLoseVisits
<1>8. ASSUME NEW c \in Codes
      PROVE  /\ Redirected(c) \subseteq Redirected(c)'
             /\ Beyond(c) \subseteq Beyond(c)'
             /\ Counted(c)' \subseteq Counted(c)
             /\ \A w \in Redirected(c) : clickedAt'[w] = clickedAt[w]
  BY <1>1, <1>3, <1>5 DEF Redirected, Beyond, Counted
<1>9. CountsAreBeyond' /\ CountsAreVisits'
  BY <1>1, <1>8, CountsKept
<1> QED
  BY <1>4, <1>6, <1>7, <1>9 DEF Frame

LEMMA InitRInv == RInit => RInv
<1> SUFFICES ASSUME RInit PROVE RInv
  OBVIOUS
<1>1. IInv
  BY InitEstablishes DEF RInit
<1>2. RTypeOK
  BY CacheAssumption, VisitAssumption DEF RInit, RTypeOK
<1>3. AnswersComeOnce /\ OnlyCrashesLoseVisits
  BY DEF RInit, Init, AnswersComeOnce, OnlyCrashesLoseVisits, Visits
<1>4. \A c \in Codes : Redirected(c) = {} /\ Beyond(c) = {} /\ Counted(c) = {}
  BY DEF RInit, Redirected, Beyond, Counted
<1>5. CountsAreBeyond /\ CountsAreVisits
  BY <1>4, FS_EmptySet DEF RInit, CountsAreBeyond, CountsAreVisits
<1> QED
  BY <1>1, <1>2, <1>3, <1>5 DEF RInv

LEMMA NextRInv == RInv /\ [RNext]_rvars => RInv'
<1> SUFFICES ASSUME RInv, [RNext]_rvars PROVE RInv'
  OBVIOUS
<1>1. IInv'
  BY StepUsesCache, StepPreserves DEF RInv
<1>2. CASE Meanwhile
  <2>1. UNCHANGED <<asked, response, stats, restarts>> /\ pc' = pc
    BY <1>2 DEF Meanwhile, Change, Tick, SetBack, lookup
  <2> QED
    BY <1>1, <2>1, QuietPreserves DEF Frame, RInv
<1>3. CASE UNCHANGED rvars
  <2>1. UNCHANGED <<asked, response, stats, restarts>> /\ pc' = pc
    BY <1>3 DEF rvars, vars, lookup
  <2> QED
    BY <1>1, <2>1, QuietPreserves DEF Frame, RInv
<1>4. CASE RNext /\ ~Meanwhile
  BY <1>1, <1>4, VisitPreserves, MalformedPreserves, ResolvePreserves, NoRedirectPreserves,
     RedirectPreserves, ClickPreserves, CrashPreserves
  DEF RNext, VisitStep, Frame, RInv
<1> QED
  BY <1>2, <1>3, <1>4

(* The inductive invariant of visits, clicks, statistics and cache.        *)
THEOREM RedirectInvariance == RSafeSpec => []RInv
BY InitRInv, NextRInv, PTL DEF RSafeSpec

(* No click is counted twice or for a visit that got no redirect, no two   *)
(* overwrite each other, and the time kept is that of one of the visits.   *)
THEOREM StatisticsAreVisits == RSafeSpec => []CountsAreVisits
<1>1. RInv => CountsAreVisits
  BY DEF RInv
<1> QED
  BY <1>1, RedirectInvariance, PTL

(* A failing click costs no visit its answer; only a crash does.           *)
THEOREM VisitsAreNotLost == RSafeSpec => []OnlyCrashesLoseVisits
<1>1. RInv => OnlyCrashesLoseVisits
  BY DEF RInv
<1> QED
  BY <1>1, RedirectInvariance, PTL
=============================================================================
