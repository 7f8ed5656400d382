--------------------------- MODULE UrlPagesProofs ---------------------------
(***************************************************************************)
(* Proofs about the repository in memory and the pages that show what it   *)
(* holds, for every number of codes and URLs, any clock and any PUBLIC_URL.*)
(***************************************************************************)
EXTENDS UrlPages, TLAPS, FiniteSetTheorems, FunctionTheorems

(***************************************************************************)
(* The two Maps hold the same records                                      *)
(***************************************************************************)
(* A record made or clicked is a record.                                   *)
LEMMA CreatedIsRecord ==
  ASSUME NEW c \in Codes, NEW u \in LongUrls, NEW t \in 0..MaxTime
  PROVE  /\ Port!Created(c, u, t) \in Record
         /\ Port!Created(c, u, t).code = c
         /\ Port!Created(c, u, t).longUrl = u
         /\ Port!Created(c, u, t).clickCount = 0
         /\ Port!Created(c, u, t).lastClickedAt = None
         /\ Port!Created(c, u, t) # None
BY MemoryAssumption DEF Port!Created, Record

LEMMA ClickedIsRecord ==
  ASSUME NEW r \in Record, NEW t \in 0..MaxTime
  PROVE  /\ Port!Clicked(r, t) \in Record
         /\ Port!Clicked(r, t).code = r.code
         /\ Port!Clicked(r, t).longUrl = r.longUrl
         /\ Port!Clicked(r, t).clickCount = r.clickCount + 1
         /\ Port!Clicked(r, t).lastClickedAt = t
         /\ Port!Clicked(r, t) # None
BY MemoryAssumption DEF Port!Clicked, Record

(* Keeping a record under its own code and hash, where the Maps held none  *)
(* or one of the same code and URL, leaves them in agreement.              *)
LEMMA KeepAgrees ==
  ASSUME IInv, NEW c \in Codes, NEW u \in LongUrls, NEW r \in Record,
         r.code = c, r.longUrl = u, Keep(c, u, r),
         \/ byCode[c] = None /\ byHash[u] = None
         \/ byCode[c] # None /\ byCode[c].longUrl = u
  PROVE  /\ byCode' \in [Codes -> Record \cup {None}]
         /\ byHash' \in [LongUrls -> Record \cup {None}]
         /\ MapsAgree'
<1>1. /\ byCode' \in [Codes -> Record \cup {None}]
      /\ byHash' \in [LongUrls -> Record \cup {None}]
  BY DEF IInv, TypeOK, Keep
<1>2. r # None
  BY MemoryAssumption
<1>3. ASSUME NEW d \in Codes, byCode'[d] # None
      PROVE  byCode'[d].code = d /\ byHash'[byCode'[d].longUrl] = byCode'[d]
  <2>1. CASE d = c
    BY <2>1 DEF IInv, TypeOK, Keep
  <2>2. CASE d # c
    <3>1. byCode'[d] = byCode[d] /\ byCode[d] \in Record
      BY <2>2, <1>3 DEF IInv, TypeOK, Keep
    <3>2. byCode[d].longUrl \in LongUrls /\ byCode[d].code = d
           /\ byHash[byCode[d].longUrl] = byCode[d]
      BY <3>1, <1>3 DEF IInv, MapsAgree, Record
    <3>3. byCode[d].longUrl # u
      BY <3>1, <3>2, <2>2, <1>3 DEF IInv, MapsAgree
    <3> QED
      BY <3>1, <3>2, <3>3 DEF IInv, TypeOK, Keep
  <2> QED
    BY <2>1, <2>2
<1>4. ASSUME NEW v \in LongUrls, byHash'[v] # None
      PROVE  byHash'[v].longUrl = v /\ byCode'[byHash'[v].code] = byHash'[v]
  <2>1. CASE v = u
    BY <2>1 DEF IInv, TypeOK, Keep
  <2>2. CASE v # u
    <3>1. byHash'[v] = byHash[v] /\ byHash[v] \in Record
      BY <2>2, <1>4 DEF IInv, TypeOK, Keep
    <3>2. byHash[v].code \in Codes /\ byHash[v].longUrl = v
           /\ byCode[byHash[v].code] = byHash[v]
      BY <3>1, <1>4 DEF IInv, MapsAgree, Record
    <3>3. byHash[v].code # c
      BY <3>1, <3>2, <2>2, <1>4 DEF IInv, MapsAgree
    <3> QED
      BY <3>1, <3>2, <3>3 DEF IInv, TypeOK, Keep
  <2> QED
    BY <2>1, <2>2
<1> QED
  BY <1>1, <1>3, <1>4 DEF MapsAgree

LEMMA CreateKeepsIInv ==
  ASSUME IInv, NEW c \in Codes, NEW u \in LongUrls, Create(c, u)
  PROVE  IInv'
<1>1. now' \in 0..MaxTime
  BY DEF IInv, TypeOK, Create
<1>2. CASE UNCHANGED maps
  BY <1>1, <1>2 DEF IInv, TypeOK, MapsAgree, maps
<1>3. CASE /\ byCode[c] = None /\ byHash[u] = None
           /\ Keep(c, u, Port!Created(c, u, now))
  <2>1. now \in 0..MaxTime
    BY DEF IInv, TypeOK
  <2> QED
    BY <1>1, <1>3, <2>1, CreatedIsRecord, KeepAgrees DEF IInv, TypeOK
<1> QED
  BY <1>2, <1>3 DEF Create

LEMMA IncrementKeepsIInv ==
  ASSUME IInv, NEW c \in Codes, IncrementClicks(c)
  PROVE  IInv'
<1>1. now' \in 0..MaxTime
  BY DEF IInv, TypeOK, IncrementClicks
<1>2. CASE UNCHANGED maps
  BY <1>1, <1>2 DEF IInv, TypeOK, MapsAgree, maps
<1>3. CASE /\ byCode[c] # None
           /\ Keep(c, byCode[c].longUrl, Port!Clicked(byCode[c], now))
  <2>1. now \in 0..MaxTime /\ byCode[c] \in Record
    BY <1>3 DEF IInv, TypeOK
  <2>2. byCode[c].code = c /\ byCode[c].longUrl \in LongUrls
    BY <1>3, <2>1 DEF IInv, MapsAgree, Record
  <2> QED
    BY <1>1, <1>3, <2>1, <2>2, ClickedIsRecord, KeepAgrees DEF IInv, TypeOK
<1> QED
  BY <1>2, <1>3 DEF IncrementClicks

LEMMA InitIInv == Init => IInv
BY MemoryAssumption DEF Init, IInv, TypeOK, MapsAgree

LEMMA NextIInv == IInv /\ [Next]_memory => IInv'
<1> SUFFICES ASSUME IInv, [Next]_memory PROVE IInv'
  OBVIOUS
<1>1. ASSUME NEW c \in Codes, FindByCode(c) \/ ExistsByCode(c) PROVE IInv'
  BY <1>1 DEF FindByCode, ExistsByCode, IInv, TypeOK, MapsAgree, maps
<1>2. ASSUME NEW u \in LongUrls, FindByHash(u) PROVE IInv'
  BY <1>2 DEF FindByHash, IInv, TypeOK, MapsAgree, maps
<1>3. CASE ListAll
  BY <1>3 DEF ListAll, IInv, TypeOK, MapsAgree, maps
<1>4. ASSUME NEW t \in 0..MaxTime, SetDate(t) PROVE IInv'
  BY <1>4 DEF SetDate, IInv, TypeOK, MapsAgree, maps
<1>5. CASE UNCHANGED memory
  BY <1>5 DEF memory, maps, IInv, TypeOK, MapsAgree
<1> QED
  BY <1>1, <1>2, <1>3, <1>4, <1>5, CreateKeepsIInv, IncrementKeepsIInv DEF Next

(* The Maps of the fake hold the same records, each under its own code and *)
(* hash, after any sequence of calls.                                      *)
THEOREM MapsAlwaysAgree == Spec => []IInv
BY InitIInv, NextIInv, PTL DEF Spec

(***************************************************************************)
(* The fake implements the port                                            *)
(***************************************************************************)
LEMMA InitRefines == Init => Port!RowInit
BY DEF Init, Port!RowInit

(* The Map by hash has what a search of all rows would find.               *)
LEMMA HashFinds ==
  ASSUME IInv, NEW u \in LongUrls
  PROVE  /\ byHash[u] # None => byHash[u] \in Records /\ byHash[u].longUrl = u
         /\ byHash[u] = None => \A r \in Records : r.longUrl # u
<1>1. ASSUME byHash[u] # None
      PROVE  byHash[u] \in Records /\ byHash[u].longUrl = u
  <2>1. byHash[u] \in Record
    BY <1>1 DEF IInv, TypeOK
  <2>2. byHash[u].code \in Codes
    BY <2>1 DEF Record
  <2>3. byCode[byHash[u].code] = byHash[u] /\ byHash[u].longUrl = u
    BY <1>1 DEF IInv, MapsAgree
  <2> QED
    BY <1>1, <2>2, <2>3 DEF Records, Port!Stored, IInv, TypeOK
<1>2. ASSUME byHash[u] = None, NEW r \in Records
      PROVE  r.longUrl # u
  <2>1. PICK c \in Codes : r = byCode[c] /\ byCode[c] # None
    BY DEF Records, Port!Stored, IInv, TypeOK
  <2> QED
    BY <1>2, <2>1 DEF IInv, MapsAgree
<1> QED
  BY <1>1, <1>2

LEMMA FindByHashRefines ==
  ASSUME IInv, NEW u \in LongUrls, FindByHash(u)
  PROVE  Port!FindByHash(u)
<1>1. Port!Finds("findByHash", u, byHash[u]) /\ UNCHANGED <<byCode, list>>
  BY DEF FindByHash, maps
<1>2. CASE byHash[u] = None
  BY <1>1, <1>2, HashFinds DEF Port!FindByHash, Records
<1>3. CASE byHash[u] # None
  BY <1>1, <1>3, HashFinds DEF Port!FindByHash, Records
<1> QED
  BY <1>2, <1>3

LEMMA CreateRefines ==
  ASSUME IInv, NEW c \in Codes, NEW u \in LongUrls, Create(c, u)
  PROVE  Port!Create(c, u)
<1>1. byHash[u] # None <=> \E r \in Port!Stored(byCode) : r.longUrl = u
  BY HashFinds DEF Records
<1>2. now \in 0..MaxTime
  BY DEF IInv, TypeOK
<1>3. CASE byCode[c] # None \/ byHash[u] # None
  <2>1. Port!Answers("create", c, "P2002", None) /\ UNCHANGED <<byCode, list>>
    BY <1>3 DEF Create, maps
  <2> QED
    BY <1>1, <1>3, <2>1 DEF Port!Create
<1>4. CASE byCode[c] = None /\ byHash[u] = None
  <2>1. /\ byCode' = [byCode EXCEPT ![c] = Port!Created(c, u, now)]
        /\ Port!Answers("create", c, "created", Port!Created(c, u, now))
        /\ UNCHANGED list
    BY <1>4 DEF Create, Keep
  <2> QED
    BY <1>1, <1>2, <1>4, <2>1 DEF Port!Create
<1> QED
  BY <1>3, <1>4

LEMMA IncrementRefines ==
  ASSUME IInv, NEW c \in Codes, IncrementClicks(c)
  PROVE  Port!IncrementClicks(c)
<1>1. now \in 0..MaxTime
  BY DEF IInv, TypeOK
<1>2. CASE byCode[c] = None
  BY <1>2 DEF IncrementClicks, Port!IncrementClicks, maps
<1>3. CASE byCode[c] # None
  <2>1. /\ byCode' = [byCode EXCEPT ![c] = Port!Clicked(byCode[c], now)]
        /\ Port!Answers("incrementClicks", c, "updated", None)
        /\ UNCHANGED list
    BY <1>3 DEF IncrementClicks, Keep
  <2> QED
    BY <1>1, <1>3, <2>1 DEF Port!IncrementClicks
<1> QED
  BY <1>2, <1>3

LEMMA NextRefines ==
  IInv /\ [Next]_memory => [Port!RowNext]_<<byCode, answer, list>>
<1> SUFFICES ASSUME IInv, [Next]_memory
             PROVE  [Port!RowNext]_<<byCode, answer, list>>
  OBVIOUS
<1>1. ASSUME NEW c \in Codes, FindByCode(c) PROVE Port!FindByCode(c)
  BY <1>1 DEF FindByCode, Port!FindByCode, maps
<1>2. ASSUME NEW c \in Codes, ExistsByCode(c) PROVE Port!ExistsByCode(c)
  BY <1>2 DEF ExistsByCode, Port!ExistsByCode, maps
<1>3. ASSUME ListAll PROVE Port!ListAll
  BY <1>3 DEF ListAll, Port!ListAll, Records, maps
<1>4. ASSUME NEW t \in 0..MaxTime, SetDate(t) PROVE UNCHANGED <<byCode, answer, list>>
  BY <1>4 DEF SetDate, maps
<1>5. CASE UNCHANGED memory
  BY <1>5 DEF memory, maps
<1>6. CASE Next
  BY <1>1, <1>2, <1>3, <1>4, <1>6, FindByHashRefines, CreateRefines, IncrementRefines
  DEF Next, Port!RowNext
<1> QED
  BY <1>5, <1>6

(* Whatever is called in whatever order, the fake answers as the port's    *)
(* contract allows: what holds of every repository that keeps the contract *)
(* holds of it.                                                            *)
THEOREM FakeImplementsPort == Spec => PortSpec
<1>1. Spec => []IInv
  BY MapsAlwaysAgree
<1> QED
  BY <1>1, InitRefines, NextRefines, PTL DEF Spec, PortSpec, Port!RowSpec

(***************************************************************************)
(* The pages                                                               *)
(***************************************************************************)
(* A record only says that it was never clicked when it was not, and every *)
(* record on a page is an earlier state of the one in the repository.      *)
NeverMeansZero(r) == r.lastClickedAt = None <=> r.clickCount = 0

OutdatedBy(map, r) ==
  /\ r \in Record /\ NeverMeansZero(r)
  /\ map[r.code] # None
  /\ map[r.code].longUrl = r.longUrl
  /\ map[r.code].clickCount >= r.clickCount

PInv ==
  /\ IInv
  /\ \A c \in Codes : byCode[c] # None => NeverMeansZero(byCode[c])
  /\ entries # None => \E n \in Nat : /\ DOMAIN entries = 1..n
                                      /\ \A i \in 1..n : OutdatedBy(byCode, entries[i])

LEMMA StoredAreOutdated ==
  ASSUME PInv, NEW r \in Records
  PROVE  OutdatedBy(byCode, r)
<1>1. PICK c \in Codes : r = byCode[c] /\ byCode[c] # None
  BY DEF Records, Port!Stored, PInv, IInv, TypeOK
<1>2. r \in Record /\ r.code = c
  BY <1>1 DEF PInv, IInv, TypeOK, MapsAgree
<1> QED
  BY <1>1, <1>2 DEF PInv, OutdatedBy, Record

(* A record stays under its code, with its URL and no fewer clicks.        *)
LEMMA RecordsStay ==
  ASSUME PInv, [Next]_memory
  PROVE  /\ \A c \in Codes : byCode[c] # None =>
              /\ byCode'[c] # None
              /\ byCode'[c].longUrl = byCode[c].longUrl
              /\ byCode'[c].clickCount >= byCode[c].clickCount
         /\ \A c \in Codes : byCode'[c] # None => NeverMeansZero(byCode'[c])
<1> DEFINE Stays == /\ \A c \in Codes : byCode[c] # None =>
                         /\ byCode'[c] # None
                         /\ byCode'[c].longUrl = byCode[c].longUrl
                         /\ byCode'[c].clickCount >= byCode[c].clickCount
                    /\ \A c \in Codes : byCode'[c] # None => NeverMeansZero(byCode'[c])
<1>1. \A c \in Codes : byCode[c] # None =>
        byCode[c] \in Record /\ byCode[c].clickCount \in Nat /\ NeverMeansZero(byCode[c])
  BY DEF PInv, IInv, TypeOK, Record
<1>2. now \in 0..MaxTime
  BY DEF PInv, IInv, TypeOK
<1>3. CASE UNCHANGED byCode
  BY <1>1, <1>3
<1>4. ASSUME NEW c \in Codes, NEW u \in LongUrls, Create(c, u), byCode' # byCode
      PROVE  Stays
  <2>1. byCode[c] = None /\ byCode' = [byCode EXCEPT ![c] = Port!Created(c, u, now)]
    BY <1>4 DEF Create, Keep, maps
  <2>2. NeverMeansZero(Port!Created(c, u, now))
    BY <1>2, CreatedIsRecord DEF NeverMeansZero
  <2> QED
    BY <1>1, <2>1, <2>2 DEF PInv, IInv, TypeOK
<1>5. ASSUME NEW c \in Codes, IncrementClicks(c), byCode' # byCode
      PROVE  Stays
  <2>1. byCode[c] # None /\ byCode' = [byCode EXCEPT ![c] = Port!Clicked(byCode[c], now)]
    BY <1>5 DEF IncrementClicks, Keep, maps
  <2>2. /\ Port!Clicked(byCode[c], now).longUrl = byCode[c].longUrl
        /\ Port!Clicked(byCode[c], now).clickCount = byCode[c].clickCount + 1
        /\ Port!Clicked(byCode[c], now).lastClickedAt = now
        /\ Port!Clicked(byCode[c], now) # None
    BY <1>1, <1>2, <2>1, ClickedIsRecord
  <2>3. now # None
    BY <1>2, MemoryAssumption
  <2>4. NeverMeansZero(Port!Clicked(byCode[c], now))
    BY <1>1, <2>1, <2>2, <2>3 DEF NeverMeansZero
  <2> QED
    BY <1>1, <2>1, <2>2, <2>4 DEF PInv, IInv, TypeOK
<1>6. ASSUME Next, byCode' # byCode
      PROVE  \/ \E c \in Codes : IncrementClicks(c)
             \/ \E u \in LongUrls : \E c \in Codes : Create(c, u)
  BY <1>6 DEF Next, FindByCode, ExistsByCode, FindByHash, ListAll, SetDate, maps
<1> QED
  BY <1>3, <1>4, <1>5, <1>6 DEF memory, maps

LEMMA OutdatedStays ==
  ASSUME PInv, [Next]_memory, NEW r, OutdatedBy(byCode, r)
  PROVE  OutdatedBy(byCode', r)
<1>1. r.code \in Codes /\ byCode[r.code] # None /\ r.clickCount \in Nat
  BY DEF OutdatedBy, Record
<1>2. byCode[r.code].clickCount \in Nat
  BY <1>1 DEF PInv, IInv, TypeOK, Record
<1>3. /\ byCode'[r.code] # None
      /\ byCode'[r.code].longUrl = byCode[r.code].longUrl
      /\ byCode'[r.code].clickCount >= byCode[r.code].clickCount
  BY <1>1, RecordsStay
<1>4. byCode'[r.code].clickCount \in Nat
  <2>1. IInv'
    BY NextIInv DEF PInv
  <2> QED
    BY <1>1, <1>3, <2>1 DEF IInv, TypeOK, Record
<1> QED
  BY <1>1, <1>2, <1>3, <1>4 DEF OutdatedBy

LEMMA InitPInv == PInit => PInv
BY InitIInv DEF PInit, PInv, Init

LEMMA StepIsNext ==
  ASSUME [PNext]_pages
  PROVE  [Next]_memory
BY DEF PNext, ShowsResult, Load, LoadFails, Next, pages

LEMMA NextPInv == PInv /\ [PNext]_pages => PInv'
<1> SUFFICES ASSUME PInv, [PNext]_pages PROVE PInv'
  OBVIOUS
<1>1. [Next]_memory
  BY StepIsNext
<1>2. IInv'
  BY <1>1, NextIInv DEF PInv
<1>3. \A c \in Codes : byCode'[c] # None => NeverMeansZero(byCode'[c])
  BY <1>1, RecordsStay
<1>4. CASE entries' = entries
  <2>1. ASSUME entries' # None
        PROVE  \E n \in Nat : /\ DOMAIN entries' = 1..n
                              /\ \A i \in 1..n : OutdatedBy(byCode', entries'[i])
    BY <1>1, <1>4, <2>1, OutdatedStays DEF PInv
  <2> QED
    BY <1>2, <1>3, <2>1 DEF PInv
<1>5. CASE Load
  <2>1. PICK n \in Nat : list' \in [1..n -> Records]
    BY <1>5 DEF Load, ListAll, Port!IsListing
  <2>2. \A i \in 1..n : OutdatedBy(byCode', entries'[i])
    BY <1>1, <1>5, <2>1, StoredAreOutdated, OutdatedStays DEF Load
  <2> QED
    BY <1>2, <1>3, <1>5, <2>1, <2>2 DEF Load, PInv
<1>6. CASE entries' = None
  BY <1>2, <1>3, <1>6 DEF PInv
<1> QED
  BY <1>4, <1>5, <1>6 DEF PNext, ShowsResult, LoadFails, pages

LEMMA VisibleAreEntries ==
  ASSUME PInv, entries # None, NEW i \in DOMAIN VisibleEntries
  PROVE  OutdatedBy(byCode, VisibleEntries[i])
<1>1. PICK n \in Nat : DOMAIN entries = 1..n /\ \A j \in 1..n : OutdatedBy(byCode, entries[j])
  BY DEF PInv
<1>2. Len(entries) = n
  BY <1>1
<1>3. PICK m \in 0..n : VisibleEntries = SubSeq(entries, 1, m)
  BY <1>2, PageAssumption DEF VisibleEntries
<1> QED
  BY <1>1, <1>3

(* However old the page: a card's code is still that of the URL it names,  *)
(* with no fewer clicks than it says.                                      *)
THEOREM CardsStayTrue == PSpec => []PagesAgeWell
<1>1. ASSUME PInv PROVE PagesAgeWell
  <2>1. ASSUME NEW card \in Cards
        PROVE  /\ byCode[card.code] # None
               /\ byCode[card.code].longUrl = card.longUrl
               /\ byCode[card.code].clickCount >= card.clicks
               /\ card.never <=> card.clicks = 0
    <3>1. entries # None
      BY DEF Cards
    <3>2. PICK i \in DOMAIN VisibleEntries : card = Card(VisibleEntries[i])
      BY <3>1 DEF Cards
    <3>3. OutdatedBy(byCode, VisibleEntries[i])
      BY <1>1, <3>1, VisibleAreEntries
    <3> QED
      BY <3>2, <3>3 DEF Card, OutdatedBy, NeverMeansZero
  <2> QED
    BY <2>1 DEF PagesAgeWell
<1> QED
  BY <1>1, InitPInv, NextPInv, PTL DEF PSpec

(***************************************************************************)
(* The cap                                                                 *)
(***************************************************************************)
(* What was loaded is in order, and no record is in it twice.              *)
InOrder ==
  entries # None =>
    \E n \in Nat :
      /\ DOMAIN entries = 1..n
      /\ \A i \in 1..n : entries[i].createdAt \in Nat
      /\ \A i, j \in 1..n : i < j =>
           entries[i] # entries[j] /\ entries[i].createdAt >= entries[j].createdAt

LEMMA NextInOrder == PInv /\ InOrder /\ [PNext]_pages => InOrder'
<1> SUFFICES ASSUME PInv, InOrder, [PNext]_pages PROVE InOrder'
  OBVIOUS
<1>1. CASE entries' = entries \/ entries' = None
  BY <1>1 DEF InOrder
<1>2. CASE Load
  <2>1. PICK n \in Nat : list' \in [1..n -> Records]
    BY <1>2 DEF Load, ListAll, Port!IsListing
  <2>2. Len(list') = n /\ entries' = list'
    BY <1>2, <2>1 DEF Load
  <2>3. \A i, j \in 1..n : i < j =>
          entries'[i] # entries'[j] /\ entries'[i].createdAt >= entries'[j].createdAt
    BY <1>2, <2>1, <2>2 DEF Load, ListAll, Port!IsListing
  <2>4. ASSUME NEW i \in 1..n PROVE entries'[i].createdAt \in Nat
    <3>1. entries'[i] \in Record
      BY <2>1, <2>2, StoredAreOutdated DEF OutdatedBy
    <3> QED
      BY <3>1 DEF Record
  <2> QED
    BY <2>1, <2>2, <2>3, <2>4 DEF InOrder
<1> QED
  BY <1>1, <1>2 DEF PNext, ShowsResult, LoadFails, pages

(* n different values make a set of n.                                     *)
LEMMA DifferentCount ==
  ASSUME NEW n \in Nat, NEW f, \A i, j \in 1..n : i < j => f[i] # f[j]
  PROVE  Cardinality({f[i] : i \in 1..n}) = n
<1> DEFINE S == {f[i] : i \in 1..n}
           g == [i \in 1..n |-> f[i]]
<1>1. g \in [1..n -> S]
  OBVIOUS
<1>2. ASSUME NEW i \in 1..n, NEW j \in 1..n, g[i] = g[j] PROVE i = j
  <2>1. ~(i < j) /\ ~(j < i)
    BY <1>2
  <2> QED
    BY <2>1
<1>3. \A s \in S : \E i \in 1..n : g[i] = s
  OBVIOUS
<1> HIDE DEF g, S
<1>4. g \in Bijection(1..n, S)
  BY <1>1, <1>2, <1>3, Fun_IsBij
<1>5. ExistsBijection(1..n, S)
  BY <1>4, Fun_ExistsBij
<1> QED
  BY <1>5, FS_CountingElements DEF S

(* When not every URL is shown, as many are as may be, and the newest.     *)
THEOREM NewestAlwaysShown == PSpec => []NewestAreShown
<1>1. ASSUME InOrder PROVE NewestAreShown
  <2> SUFFICES ASSUME entries # None
               PROVE  LET shown == {VisibleEntries[i] : i \in DOMAIN VisibleEntries}
                          hidden == {entries[i] : i \in DOMAIN entries} \ shown
                      IN  /\ hidden # {} => Cardinality(shown) = MAX_RENDERED_URLS
                          /\ \A r \in shown, h \in hidden : r.createdAt >= h.createdAt
    BY DEF NewestAreShown
  <2>1. PICK n \in Nat :
          /\ DOMAIN entries = 1..n
          /\ \A i \in 1..n : entries[i].createdAt \in Nat
          /\ \A i, j \in 1..n : i < j =>
               entries[i] # entries[j] /\ entries[i].createdAt >= entries[j].createdAt
    BY <1>1 DEF InOrder
  <2>2. Len(entries) = n
    BY <2>1
  <2>3. PICK m \in 0..n : /\ VisibleEntries = SubSeq(entries, 1, m)
                          /\ m = n \/ m = MAX_RENDERED_URLS
    BY <2>2, PageAssumption DEF VisibleEntries
  <2>4. DOMAIN VisibleEntries = 1..m /\ \A i \in 1..m : VisibleEntries[i] = entries[i]
    BY <2>1, <2>3
  <2> DEFINE shown == {VisibleEntries[i] : i \in DOMAIN VisibleEntries}
             hidden == {entries[i] : i \in DOMAIN entries} \ shown
  <2>5. Cardinality(shown) = m
    <3>1. \A i, j \in 1..m : i < j => entries[i] # entries[j]
      BY <2>1
    <3>2. Cardinality({entries[i] : i \in 1..m}) = m
      BY <3>1, DifferentCount
    <3>3. shown = {entries[i] : i \in 1..m}
      BY <2>4
    <3> QED
      BY <3>2, <3>3
  <2>6. ASSUME NEW h \in hidden
        PROVE  m # n /\ \A r \in shown : r.createdAt >= h.createdAt
    <3>1. PICK j \in 1..n : h = entries[j] /\ j \notin 1..m
      BY <2>1, <2>4
    <3>2. m < j
      BY <3>1
    <3>3. ASSUME NEW r \in shown PROVE r.createdAt >= h.createdAt
      BY <2>1, <2>4, <3>1, <3>2
    <3> QED
      BY <3>1, <3>3
  <2> QED
    BY <2>3, <2>5, <2>6
<1>2. PInit => InOrder
  BY DEF PInit, InOrder
<1> QED
  BY <1>1, <1>2, InitPInv, NextPInv, NextInOrder, PTL DEF PSpec
=============================================================================
