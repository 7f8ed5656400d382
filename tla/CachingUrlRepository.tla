------------------------ MODULE CachingUrlRepository ------------------------
(***************************************************************************)
(* Concurrent calls of CachingUrlRepository.findByCode, an in-process      *)
(* cache of code -> longUrl in front of the Url table                      *)
(* (libs/engine/src/infra/caching-url-repository.ts, and the lru-cache it  *)
(* configures with max, ttl and perf: Date).                               *)
(*                                                                         *)
(* A lookup runs to its only await, the inner findByCode; the table is     *)
(* read some time later, and some time after that the call resumes and     *)
(* fills the cache with what may be an old value by then.  Rows appear     *)
(* when a URL is shortened and their target may be changed from outside;   *)
(* they are never deleted.                                                 *)
(***************************************************************************)
EXTENDS Integers, Sequences, SequencesExt

CONSTANTS
  Lookups,    \* calls of findByCode that may be under way together
  Codes,
  LongUrls,
  None,       \* JavaScript's null; also the entry of a code not cached
  MaxEntries, \* config.maxEntries; 0 for as many as there are codes
  Ttl,        \* config.ttlMs; 0 for entries that never expire
  MaxLatency, \* the time an inner findByCode takes at most
  MaxTime,    \* bound on the time
  MaxLag      \* by how much Date may be set back, 0 when it is monotonic

ASSUME CacheAssumption ==
  /\ MaxEntries \in Nat /\ Ttl \in Nat /\ MaxLatency \in Nat /\ MaxTime \in Nat
  /\ MaxLag \in Nat
  /\ None \notin LongUrls

Entry == [longUrl : LongUrls, start : (0 - MaxLag)..MaxTime]

(* An entry is no null.                                                    *)
ASSUME EntryAssumption == None \notin Entry

VARIABLES
  target,    \* target[c]: the longUrl of the row with code c, None without
  now,       \* the time
  lag,       \* by how much Date is behind it
  cache,     \* cache[c]: code c's entry, None when there is none
  recency,   \* the cached codes, the least recently used first
  pc,        \* pc[l]: where lookup l is
  code,      \* code[l]: its argument
  row,       \* row[l]: the longUrl it read, then the one it answers
  started,   \* started[l]: when it was called
  existed,   \* existed[l]: the row was there when it was called
  former     \* former[c]: the longUrls the row had before, and until when

lookup == <<pc, code, row, started, existed>>
store  == <<cache, recency>>
world  == <<target, now, lag, former>>
vars   == <<world, store, lookup>>

Url == LongUrls \cup {None}

Former == [url : LongUrls, until : 0..MaxTime]

Cached == {c \in Codes : cache[c] # None}

TypeOK ==
  /\ target \in [Codes -> Url]
  /\ now \in 0..MaxTime /\ lag \in 0..MaxLag
  /\ cache \in [Codes -> Entry \cup {None}]
  /\ pc \in [Lookups -> {"idle", "reading", "read", "found", "missing", "failed"}]
  /\ code \in [Lookups -> Codes \cup {None}]
  /\ row \in [Lookups -> Url]
  /\ started \in [Lookups -> 0..MaxTime]
  /\ existed \in [Lookups -> BOOLEAN]
  /\ former \in [Codes -> SUBSET Former]

Init ==
  /\ target \in [Codes -> Url]
  /\ now = 0 /\ lag = 0
  /\ former = [c \in Codes |-> {}]
  /\ cache = [c \in Codes |-> None]
  /\ recency = <<>>
  /\ pc = [l \in Lookups |-> "idle"]
  /\ code = [l \in Lookups |-> None]
  /\ row = [l \in Lookups |-> None]
  /\ started = [l \in Lookups |-> 0]
  /\ existed = [l \in Lookups |-> FALSE]

(***************************************************************************)
(* lru-cache: get takes a stale entry out and makes a fresh one the most   *)
(* recently used; set stores, restarts the entry's time to live and makes  *)
(* room when the cache is full.                                            *)
(***************************************************************************)
DateNow == now - lag

Stale(c) == Ttl # 0 /\ DateNow - cache[c].start > Ttl

Hit(c) == c \in Cached /\ ~Stale(c)

\* Mutant: the option updateAgeOnGet, a hit restarts the time to live.
UsedAndRenewed(c) ==
  /\ recency' = Append(RemoveFirst(recency, c), c)
  /\ cache' = [cache EXCEPT ![c].start = DateNow]

Used(c) ==
  /\ recency' = Append(RemoveFirst(recency, c), c)
  /\ UNCHANGED cache

GetHit(c) ==
  /\ Hit(c)
  /\ Used(c)

GetMiss(c) ==
  /\ ~Hit(c)
  /\ cache' = [cache EXCEPT ![c] = None]
  /\ recency' = RemoveFirst(recency, c)

\* Mutant: room is made only when the cache holds more than max entries.
EvictedLate(c) ==
  IF c \notin Cached /\ Len(recency) > MaxEntries THEN {Head(recency)} ELSE {}

Evicted(c) ==
  IF MaxEntries # 0 /\ c \notin Cached /\ Len(recency) >= MaxEntries
  THEN {Head(recency)} ELSE {}

Set(c, u) ==
  /\ cache' = [d \in Codes |->
                 IF d = c THEN [longUrl |-> u, start |-> DateNow]
                 ELSE IF d \in Evicted(c) THEN None ELSE cache[d]]
  /\ recency' = Append(IF Evicted(c) = {} THEN RemoveFirst(recency, c)
                       ELSE Tail(recency), c)

(***************************************************************************)
(* findByCode                                                              *)
(***************************************************************************)
Call(l, c, label, url) ==
  /\ pc[l] = "idle"
  /\ pc' = [pc EXCEPT ![l] = label]
  /\ code' = [code EXCEPT ![l] = c]
  /\ row' = [row EXCEPT ![l] = url]
  /\ started' = [started EXCEPT ![l] = now]
  /\ existed' = [existed EXCEPT ![l] = target[c] # None]
  /\ UNCHANGED world

(* A hit answers at once, with the cached target; a miss asks the table.   *)
FindByCode(l, c) ==
  \/ GetHit(c) /\ Call(l, c, "found", cache[c].longUrl)
  \/ GetMiss(c) /\ Call(l, c, "reading", None)

(* The cache throws on read: the call goes on as after a miss.             *)
CacheReadFails(l, c) ==
  /\ Call(l, c, "reading", None)
  /\ UNCHANGED store

(* The table answers the inner findByCode.                                 *)
TableAnswers(l) ==
  /\ pc[l] = "reading"
  /\ pc' = [pc EXCEPT ![l] = "read"]
  /\ row' = [row EXCEPT ![l] = target[code[l]]]
  /\ UNCHANGED <<world, store, code, started, existed>>

TableFails(l) ==
  /\ pc[l] = "reading"
  /\ pc' = [pc EXCEPT ![l] = "failed"]
  /\ UNCHANGED <<world, store, code, row, started, existed>>

Settle(l) == pc' = [pc EXCEPT ![l] = IF row[l] = None THEN "missing" ELSE "found"]

\* Mutant: a null is cached as well, so that hits answer null.
CacheNulls(l) ==
  /\ pc[l] = "read"
  /\ Settle(l)
  /\ Set(code[l], row[l])
  /\ UNCHANGED <<world, code, row, started, existed>>

(* The call resumes; only a row that was found is cached.                  *)
Resume(l) ==
  /\ pc[l] = "read"
  /\ Settle(l)
  /\ \/ row[l] # None /\ Set(code[l], row[l])
     \/ row[l] = None /\ UNCHANGED store
  /\ UNCHANGED <<world, code, row, started, existed>>

(* The cache throws on write: the call answers all the same.               *)
CacheWriteFails(l) ==
  /\ pc[l] = "read"
  /\ row[l] # None
  /\ Settle(l)
  /\ UNCHANGED <<world, store, code, row, started, existed>>

(***************************************************************************)
(* What goes on around the lookups                                         *)
(***************************************************************************)
(* The caller has its answer, and may call again.                          *)
Delivered(l) ==
  /\ pc[l] \in {"found", "missing", "failed"}
  /\ pc' = [pc EXCEPT ![l] = "idle"]
  /\ row' = [row EXCEPT ![l] = None]
  /\ code' = [code EXCEPT ![l] = None]
  /\ started' = [started EXCEPT ![l] = 0]
  /\ existed' = [existed EXCEPT ![l] = FALSE]
  /\ UNCHANGED <<world, store>>

Replaced(c) == IF target[c] = None THEN {} ELSE {[url |-> target[c], until |-> now]}

(* A row is created, which leaves the cache alone, or its target changed   *)
(* by somebody else.                                                       *)
Change(c, u) ==
  /\ target[c] # u
  /\ target' = [target EXCEPT ![c] = u]
  /\ former' = [former EXCEPT ![c] = {f \in @ : f.url \notin {u, target[c]}} \cup Replaced(c)]
  /\ UNCHANGED <<now, lag, store, lookup>>

InFlight(l) == pc[l] \in {"reading", "read"}

(* Time passes, but no inner findByCode takes longer than MaxLatency.      *)
Tick ==
  /\ now < MaxTime
  /\ \A l \in Lookups : InFlight(l) => now < started[l] + MaxLatency
  /\ now' = now + 1
  /\ UNCHANGED <<target, lag, former, store, lookup>>

(* Date, a wall clock, is set back.                                        *)
SetBack ==
  /\ lag < MaxLag
  /\ lag' = lag + 1
  /\ UNCHANGED <<target, now, former, store, lookup>>

(* The process starts anew, with an empty cache.                           *)
Restart ==
  /\ cache' = [c \in Codes |-> None]
  /\ recency' = <<>>
  /\ pc' = [l \in Lookups |-> "idle"]
  /\ code' = [l \in Lookups |-> None]
  /\ row' = [l \in Lookups |-> None]
  /\ started' = [l \in Lookups |-> 0]
  /\ existed' = [l \in Lookups |-> FALSE]
  /\ UNCHANGED world

LookupStep(l) ==
  \/ TableAnswers(l) \/ TableFails(l)
  \/ Resume(l) \/ CacheWriteFails(l)

Next ==
  \/ \E l \in Lookups : \/ \E c \in Codes : FindByCode(l, c) \/ CacheReadFails(l, c)
                        \/ LookupStep(l)
                        \/ Delivered(l)
  \/ \E c \in Codes, u \in LongUrls : Change(c, u)
  \/ Tick
  \/ SetBack
  \/ Restart

Spec == Init /\ [][Next]_vars

(***************************************************************************)
(* Properties                                                              *)
(***************************************************************************)
(* However many codes are asked for, at most maxEntries of them are kept   *)
(* if that is set, and the eviction order lists each of these once.        *)
Consistent ==
  /\ recency \in Seq(Codes)
  /\ MaxEntries # 0 => Len(recency) <= MaxEntries
  /\ ToSet(recency) = Cached
  /\ IsInjective(recency)

(* A code that has its row when a lookup is called is found: that it was   *)
(* asked for earlier, when it had none, is not remembered.                 *)
NoFalseNegatives ==
  \A l \in Lookups :
    pc[l] \in {"found", "missing"} /\ existed[l] => row[l] # None

(***************************************************************************)
(* The inductive invariant behind NoFalseNegatives and ResolutionSafety.   *)
(***************************************************************************)
(* u was the target of c at time t or later.                               *)
WasTarget(c, u, t) ==
  u = target[c] \/ \E f \in former[c] : f.url = u /\ t <= f.until

TimesArePast ==
  /\ \A l \in Lookups : started[l] <= now
  /\ \A c \in Codes : \A f \in former[c] : f.until <= now

(* A lookup under way is no older than MaxLatency, and what it read has    *)
(* been the target since it was called.                                    *)
ReadsAreRecent ==
  \A l \in Lookups :
    /\ InFlight(l) => code[l] \in Codes /\ now <= started[l] + MaxLatency
    /\ pc[l] = "read" /\ row[l] # None => WasTarget(code[l], row[l], started[l])

(* Rows do not go away.                                                    *)
RowsStay ==
  \A l \in Lookups : existed[l] =>
    /\ InFlight(l) => target[code[l]] # None
    /\ pc[l] \in {"read", "found", "missing"} => row[l] # None

(* An entry was the target at most MaxLatency before it was set, or since. *)
EntriesAreRecent ==
  \A c \in Cached :
    /\ cache[c].start <= now
    /\ WasTarget(c, cache[c].longUrl, cache[c].start - MaxLatency)

IInv == TypeOK /\ TimesArePast /\ ReadsAreRecent /\ RowsStay /\ EntriesAreRecent

(***************************************************************************)
(* The refinement: the cache, the moment the table is read and Date are    *)
(* hidden; what is left of them is how old an answer may be.               *)
(***************************************************************************)
StatusAt(label) ==
  IF label \in {"reading", "read"} THEN "pending"
  ELSE IF label \in {"found", "missing"} THEN "answered"
  ELSE label

Status == [l \in Lookups |-> StatusAt(pc[l])]

Answer == [l \in Lookups |-> IF pc[l] = "found" THEN row[l] ELSE None]

Resolution == INSTANCE UrlResolution
                WITH Expires <- Ttl # 0, slack <- Ttl + MaxLatency + lag,
                     status <- Status, answer <- Answer

(* What a lookup answers was its code's target when it was called, or      *)
(* until at most ttl, the latency of one read and the time Date was set    *)
(* back before that, whatever hits, refills, late reads and restarts come  *)
(* between; and null only where there was no row.                          *)
ResolutionSafety == Resolution!Spec
=============================================================================
