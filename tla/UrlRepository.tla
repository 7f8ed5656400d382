--------------------------- MODULE UrlRepository ----------------------------
(***************************************************************************)
(* What the port UrlRepository of libs/engine/src/domain promises its      *)
(* callers, as PrismaUrlRepository keeps it with one statement each over   *)
(* the Url table.  Hashes are injective: a row stands under its longUrl    *)
(* where the code has urlHash.                                             *)
(***************************************************************************)
EXTENDS Naturals, Sequences, FiniteSets

CONSTANTS Codes, LongUrls, Times,
          None \* JavaScript's null

VARIABLES
  rows,   \* rows[c]: the row with code c, None without
  answer, \* what the last statement was, and what it answered
  list    \* what listAll answered last

RowInit ==
  /\ rows = [c \in Codes |-> None]
  /\ answer = None
  /\ list = <<>>

Stored(map) == {map[x] : x \in DOMAIN map} \ {None}

Answers(op, of, result, row) ==
  answer' = [op |-> op, of |-> of, result |-> result, row |-> row]

Finds(op, of, row) == Answers(op, of, IF row = None THEN "null" ELSE "found", row)

(* A new row, and a row after a click.                                     *)
Created(c, u, t) ==
  [code |-> c, longUrl |-> u, clickCount |-> 0, lastClickedAt |-> None, createdAt |-> t]

Clicked(r, t) ==
  [code |-> r.code, longUrl |-> r.longUrl, clickCount |-> r.clickCount + 1,
   lastClickedAt |-> t, createdAt |-> r.createdAt]

FindByCode(c) == Finds("findByCode", c, rows[c]) /\ UNCHANGED <<rows, list>>

FindByHash(u) ==
  /\ \/ \E r \in Stored(rows) : r.longUrl = u /\ Finds("findByHash", u, r)
     \/ (\A r \in Stored(rows) : r.longUrl # u) /\ Finds("findByHash", u, None)
  /\ UNCHANGED <<rows, list>>

ExistsByCode(c) ==
  /\ Answers("existsByCode", c, IF rows[c] = None THEN "false" ELSE "true", None)
  /\ UNCHANGED <<rows, list>>

(* Both indices are unique: P2002.                                         *)
Create(c, u) ==
  /\ \/ /\ rows[c] # None \/ \E r \in Stored(rows) : r.longUrl = u
        /\ Answers("create", c, "P2002", None) /\ UNCHANGED rows
     \/ /\ rows[c] = None /\ \A r \in Stored(rows) : r.longUrl # u
        /\ \E t \in Times : /\ rows' = [rows EXCEPT ![c] = Created(c, u, t)]
                            /\ Answers("create", c, "created", Created(c, u, t))
  /\ UNCHANGED list

(* No row to update: P2025.                                                *)
IncrementClicks(c) ==
  /\ \/ /\ rows[c] = None
        /\ Answers("incrementClicks", c, "P2025", None) /\ UNCHANGED rows
     \/ /\ rows[c] # None
        /\ \E t \in Times : rows' = [rows EXCEPT ![c] = Clicked(rows[c], t)]
        /\ Answers("incrementClicks", c, "updated", None)
  /\ UNCHANGED list

(* Every row once, the newest first; those of one time in any order.       *)
IsListing(s, all) ==
  /\ s \in Seq(all)
  /\ \A r \in all : \E i \in 1..Len(s) : s[i] = r
  /\ \A i, j \in 1..Len(s) : i < j => s[i] # s[j] /\ s[i].createdAt >= s[j].createdAt

ListAll ==
  /\ IsListing(list', Stored(rows))
  /\ Answers("listAll", None, "list", None) /\ UNCHANGED rows

RowNext ==
  \/ \E c \in Codes : FindByCode(c) \/ ExistsByCode(c) \/ IncrementClicks(c)
  \/ \E u \in LongUrls : FindByHash(u) \/ \E c \in Codes : Create(c, u)
  \/ ListAll

RowSpec == RowInit /\ [][RowNext]_<<rows, answer, list>>
=============================================================================
