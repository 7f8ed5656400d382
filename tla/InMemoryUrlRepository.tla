----------------------- MODULE InMemoryUrlRepository ------------------------
(***************************************************************************)
(* The repository that tests inject into createEngine                      *)
(* (libs/engine/src/test-support): two Maps of the same records.  None of  *)
(* its methods awaits anything, so each runs in one step.                  *)
(***************************************************************************)
EXTENDS Naturals, Sequences, FiniteSets

CONSTANTS Codes, LongUrls, None,
          MaxTime,  \* bound on Date
          MaxClicks \* bound on the clicks of one code

(* ShortenedUrl, of libs/engine/src/domain.                                *)
Record ==
  [code : Codes, longUrl : LongUrls, clickCount : Nat,
   lastClickedAt : (0..MaxTime) \cup {None}, createdAt : 0..MaxTime]

ASSUME MemoryAssumption ==
  /\ MaxTime \in Nat /\ MaxClicks \in Nat
  /\ None \notin Record \cup (0..MaxTime)

VARIABLES now, byCode, byHash, answer, list

maps == <<byCode, byHash>>
memory == <<now, maps, answer, list>>

(* The port, with the rows the Map by code holds.                          *)
Port == INSTANCE UrlRepository WITH rows <- byCode, Times <- 0..MaxTime

Init ==
  /\ now = 0
  /\ byCode = [c \in Codes |-> None]
  /\ byHash = [u \in LongUrls |-> None]
  /\ answer = None
  /\ list = <<>>

FindByCode(c) ==
  /\ Port!Finds("findByCode", c, byCode[c])
  /\ UNCHANGED <<now, maps, list>>

FindByHash(u) ==
  /\ Port!Finds("findByHash", u, byHash[u])
  /\ UNCHANGED <<now, maps, list>>

ExistsByCode(c) ==
  /\ Port!Answers("existsByCode", c, IF byCode[c] = None THEN "false" ELSE "true", None)
  /\ UNCHANGED <<now, maps, list>>

Keep(c, u, record) ==
  /\ byCode' = [byCode EXCEPT ![c] = record]
  /\ byHash' = [byHash EXCEPT ![u] = record]

\* Mutant: the Map by code is not asked, and its record overwritten.
CreateUnlessHashed(c, u) ==
  /\ IF byHash[u] # None
     THEN Port!Answers("create", c, "P2002", None) /\ UNCHANGED maps
     ELSE /\ Keep(c, u, Port!Created(c, u, now))
          /\ Port!Answers("create", c, "created", Port!Created(c, u, now))
  /\ UNCHANGED <<now, list>>

Create(c, u) ==
  /\ IF byCode[c] # None \/ byHash[u] # None
     THEN Port!Answers("create", c, "P2002", None) /\ UNCHANGED maps
     ELSE /\ Keep(c, u, Port!Created(c, u, now))
          /\ Port!Answers("create", c, "created", Port!Created(c, u, now))
  /\ UNCHANGED <<now, list>>

\* Mutant: the record is replaced in one of the Maps only.
IncrementByCode(c) ==
  /\ IF byCode[c] = None
     THEN Port!Answers("incrementClicks", c, "P2025", None) /\ UNCHANGED maps
     ELSE /\ byCode[c].clickCount < MaxClicks
          /\ byCode' = [byCode EXCEPT ![c] = Port!Clicked(byCode[c], now)]
          /\ Port!Answers("incrementClicks", c, "updated", None) /\ UNCHANGED byHash
  /\ UNCHANGED <<now, list>>

IncrementClicks(c) ==
  /\ IF byCode[c] = None
     THEN Port!Answers("incrementClicks", c, "P2025", None) /\ UNCHANGED maps
     ELSE /\ byCode[c].clickCount < MaxClicks
          /\ Keep(c, byCode[c].longUrl, Port!Clicked(byCode[c], now))
          /\ Port!Answers("incrementClicks", c, "updated", None)
  /\ UNCHANGED <<now, list>>

Records == Port!Stored(byCode)

\* Mutant: the comparison is the other way round.
ListOldestFirst ==
  /\ list' \in [1..Cardinality(Records) -> Records]
  /\ \A r \in Records : \E i \in DOMAIN list' : list'[i] = r
  /\ \A i, j \in DOMAIN list' :
       i < j => list'[i] # list'[j] /\ list'[i].createdAt <= list'[j].createdAt
  /\ Port!Answers("listAll", None, "list", None)
  /\ UNCHANGED <<now, maps>>

(* The values of the Map by code, sorted.                                  *)
ListAll ==
  /\ list' \in [1..Cardinality(Records) -> Records]
  /\ Port!IsListing(list', Records)
  /\ Port!Answers("listAll", None, "list", None)
  /\ UNCHANGED <<now, maps>>

(* Date, a wall clock, goes on or is set back.                             *)
SetDate(t) == now' = t /\ UNCHANGED <<maps, answer, list>>

Next ==
  \/ \E c \in Codes : FindByCode(c) \/ ExistsByCode(c) \/ IncrementClicks(c)
  \/ \E u \in LongUrls : FindByHash(u) \/ \E c \in Codes : Create(c, u)
  \/ ListAll
  \/ \E t \in 0..MaxTime : SetDate(t)

Spec == Init /\ [][Next]_memory

(***************************************************************************)
(* Properties                                                              *)
(***************************************************************************)
TypeOK ==
  /\ now \in 0..MaxTime
  /\ byCode \in [Codes -> Record \cup {None}]
  /\ byHash \in [LongUrls -> Record \cup {None}]

(* The Maps hold the same records, each under its own code and hash: after *)
(* any sequence of calls a URL found by its hash has the statistics it has *)
(* by its code.                                                            *)
MapsAgree ==
  /\ \A c \in Codes : byCode[c] # None =>
       byCode[c].code = c /\ byHash[byCode[c].longUrl] = byCode[c]
  /\ \A u \in LongUrls : byHash[u] # None =>
       byHash[u].longUrl = u /\ byCode[byHash[u].code] = byHash[u]

IInv == TypeOK /\ MapsAgree

(* Whatever is called in whatever order, the fake answers what the port's  *)
(* contract allows for the rows it holds: the same look-ups, the same two  *)
(* errors, the same listing.  Tests against it speak of Prisma's adapter.  *)
PortSpec == Port!RowSpec
=============================================================================
