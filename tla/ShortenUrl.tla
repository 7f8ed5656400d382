----------------------------- MODULE ShortenUrl -----------------------------
(***************************************************************************)
(* Concurrent calls of ShortenUrlUseCase.execute, with the code generator  *)
(* it drives, over the Url table (libs/engine/src/application/             *)
(* shorten-url.ts and short-code-generator.ts, infra/                      *)
(* prisma-url-repository.ts, prisma/schema.prisma).                        *)
(*                                                                         *)
(* Every await of a repository call is one step: the database answers one  *)
(* statement atomically and the call runs on to its next await.  Calls     *)
(* interleave between their statements; a statement may be rejected with   *)
(* an error that is no unique violation; a write may be committed and its  *)
(* answer still be lost; the process may crash, and the table outlives it. *)
(***************************************************************************)
EXTENDS Naturals

CONSTANTS
  Requests,            \* the calls of execute; a retry is another request
  RawUrls,             \* what callers submit
  LongUrls,            \* the values a LongUrl can have
  Invalid,             \* in place of a LongUrl: LongUrl.create throws
  NormalizedOf,        \* [RawUrls -> LongUrls \cup {Invalid}], LongUrl.create
  Hashes,
  HashOf,              \* [LongUrls -> Hashes], the SHA-256 of a LongUrl
  Codes,               \* the base62 words of the configured length
  None,                \* JavaScript's null
  MAX_CREATE_ATTEMPTS, \* tries to insert a row
  MaxAttempts          \* candidates the generator tries in one generate()

ASSUME BoundsAssumption ==
  /\ MAX_CREATE_ATTEMPTS \in Nat \ {0}
  /\ MaxAttempts \in Nat \ {0}

ASSUME NormalizationAssumption ==
  /\ Invalid \notin LongUrls
  /\ NormalizedOf \in [RawUrls -> LongUrls \cup {Invalid}]

(* No two long URLs have one SHA-256.                                      *)
ASSUME HashAssumption ==
  /\ HashOf \in [LongUrls -> Hashes]
  /\ \A u, v \in LongUrls : HashOf[u] = HashOf[v] => u = v

ASSUME NoneAssumption == None \notin Codes \cup RawUrls

VARIABLES
  table,     \* the rows of table Url; a row's id names the call that made it
  pc,        \* pc[r]: the statement request r is at
  raw,       \* raw[r]: its argument rawUrl
  frame      \* frame[r]: its locals, dropped when it settles: the counters
             \* of execute's and of generate's loop, the code generate
             \* returned, and the row to return

vars == <<table, pc, raw, frame>>

Row == [id : Requests, code : Codes, longUrl : LongUrls, urlHash : Hashes]

Frame == [attempt : 0..MAX_CREATE_ATTEMPTS, probe : 0..MaxAttempts,
          candidate : Codes \cup {None}, row : Row \cup {None}]

Locals(attempt, probe, candidate, row) ==
  [attempt |-> attempt, probe |-> probe, candidate |-> candidate, row |-> row]

EmptyFrame == Locals(0, 0, None, None)

InFlight == {"findByHash", "existsByCode", "create", "findRaced", "return"}
Settled  == {"returned", "rejected", "exhausted", "failed", "lost"}

TypeOK ==
  /\ table \subseteq Row
  /\ pc \in [Requests -> {"idle"} \cup InFlight \cup Settled]
  /\ raw \in [Requests -> RawUrls \cup {None}]
  /\ frame \in [Requests -> Frame]

LongUrlOf(r) == NormalizedOf[raw[r]]

Init ==
  /\ table = {}
  /\ pc = [r \in Requests |-> "idle"]
  /\ raw = [r \in Requests |-> None]
  /\ frame = [r \in Requests |-> EmptyFrame]

Goto(r, label) == pc' = [pc EXCEPT ![r] = label]

(* The call throws: it settles and its locals are gone.                    *)
Throw(r, outcome) ==
  /\ Goto(r, outcome)
  /\ frame' = [frame EXCEPT ![r] = EmptyFrame]

(***************************************************************************)
(* The statements of the Url table.                                        *)
(***************************************************************************)
RowsWithHash(h) == {t \in table : t.urlHash = h}

CodeTaken(c) == \E t \in table : t.code = c

\* Mutants: a schema that lacks one of its unique indices.
ConflictOnCodeOnly(t) == CodeTaken(t.code)
ConflictOnHashOnly(t) == RowsWithHash(t.urlHash) # {}

(* The unique indices on code and on urlHash: what create answers P2002 to *)
UniqueViolation(t) == CodeTaken(t.code) \/ RowsWithHash(t.urlHash) # {}

NewRow(r) == [id |-> r, code |-> frame[r].candidate, longUrl |-> LongUrlOf(r),
              urlHash |-> HashOf[LongUrlOf(r)]]

(***************************************************************************)
(* execute                                                                 *)
(***************************************************************************)
(* LongUrl.create throws before the first await, or the lookup is issued.  *)
Execute(r, u) ==
  /\ pc[r] = "idle"
  /\ raw' = [raw EXCEPT ![r] = u]
  /\ Goto(r, IF NormalizedOf[u] = Invalid THEN "rejected" ELSE "findByHash")
  /\ UNCHANGED <<table, frame>>

ReturnRow(r, t) ==
  /\ frame' = [frame EXCEPT ![r] = Locals(0, 0, None, t)]
  /\ Goto(r, "return")

(* One turn of execute's loop, from its first statement.                   *)
Generate(r, n) ==
  /\ frame' = [frame EXCEPT ![r] = Locals(n, 0, None, None)]
  /\ Goto(r, "existsByCode")

\* Mutant: execute generates a code without looking for the URL first.
GenerateUnasked(r) ==
  /\ pc[r] = "findByHash"
  /\ Generate(r, 0)
  /\ UNCHANGED <<table, raw>>

(* A row with this URL's hash is the answer; without one, the loop starts. *)
FindByHash(r) ==
  /\ pc[r] = "findByHash"
  /\ \/ \E t \in RowsWithHash(HashOf[LongUrlOf(r)]) : ReturnRow(r, t)
     \/ RowsWithHash(HashOf[LongUrlOf(r)]) = {} /\ Generate(r, 0)
  /\ UNCHANGED <<table, raw>>

ToCreate(r, c) ==
  /\ frame' = [frame EXCEPT ![r] = Locals(@.attempt, 0, c, None)]
  /\ Goto(r, "create")

\* Mutant: generate does not count its candidates.
ProbeUncounted(r, c) ==
  /\ pc[r] = "existsByCode"
  /\ \/ CodeTaken(c) /\ UNCHANGED <<pc, frame>>
     \/ ~CodeTaken(c) /\ ToCreate(r, c)
  /\ UNCHANGED <<table, raw>>

(* One turn of generate's loop: a random candidate is probed.  When the    *)
(* last one is taken, CodeGenerationExhaustedError leaves execute as well. *)
ExistsByCode(r, c) ==
  /\ pc[r] = "existsByCode"
  /\ \/ /\ CodeTaken(c)
        /\ frame[r].probe + 1 < MaxAttempts
        /\ frame' = [frame EXCEPT
                       ![r] = Locals(@.attempt, @.probe + 1, None, None)]
        /\ UNCHANGED pc
     \/ /\ CodeTaken(c)
        /\ frame[r].probe + 1 = MaxAttempts
        /\ Throw(r, "exhausted")
     \/ ~CodeTaken(c) /\ ToCreate(r, c)
  /\ UNCHANGED <<table, raw>>

\* Mutant: `return` is missing, the loop goes on after the row is inserted.
CreateAndLoop(r) ==
  /\ pc[r] = "create"
  /\ ~UniqueViolation(NewRow(r))
  /\ table' = table \cup {NewRow(r)}
  /\ Generate(r, frame[r].attempt)
  /\ UNCHANGED raw

\* Mutant: an upsert, the row of a racing request is overwritten.
Upsert(r) ==
  /\ pc[r] = "create"
  /\ table' = {t \in table : t.urlHash # NewRow(r).urlHash} \cup {NewRow(r)}
  /\ ReturnRow(r, NewRow(r))
  /\ UNCHANGED raw

(* The insert commits, though the table may have changed since the probe.  *)
Create(r) ==
  /\ pc[r] = "create"
  /\ ~UniqueViolation(NewRow(r))
  /\ table' = table \cup {NewRow(r)}
  /\ ReturnRow(r, NewRow(r))
  /\ UNCHANGED raw

CreateConflicts(r) ==
  /\ pc[r] = "create"
  /\ UniqueViolation(NewRow(r))
  /\ frame' = [frame EXCEPT ![r] = Locals(@.attempt, 0, None, None)]
  /\ Goto(r, "findRaced")
  /\ UNCHANGED <<table, raw>>

\* Mutant: the loop runs while attempt <= MAX_CREATE_ATTEMPTS.
FindRacedOnceMore(r) ==
  /\ pc[r] = "findRaced"
  /\ \/ \E t \in RowsWithHash(HashOf[LongUrlOf(r)]) : ReturnRow(r, t)
     \/ /\ RowsWithHash(HashOf[LongUrlOf(r)]) = {}
        /\ frame[r].attempt < MAX_CREATE_ATTEMPTS
        /\ Generate(r, frame[r].attempt + 1)
  /\ UNCHANGED <<table, raw>>

(* The lookup after P2002: the URL was shortened meanwhile, or only the    *)
(* code was taken and the loop tries again with a new generate().          *)
FindRaced(r) ==
  /\ pc[r] = "findRaced"
  /\ \/ \E t \in RowsWithHash(HashOf[LongUrlOf(r)]) : ReturnRow(r, t)
     \/ /\ RowsWithHash(HashOf[LongUrlOf(r)]) = {}
        /\ \/ /\ frame[r].attempt + 1 < MAX_CREATE_ATTEMPTS
              /\ Generate(r, frame[r].attempt + 1)
           \/ /\ frame[r].attempt + 1 = MAX_CREATE_ATTEMPTS
              /\ Throw(r, "exhausted")
  /\ UNCHANGED <<table, raw>>

Return(r) ==
  /\ pc[r] = "return"
  /\ Goto(r, "returned")
  /\ UNCHANGED <<table, raw, frame>>

(* A statement is rejected with an error that is no unique violation, and  *)
(* execute rejects with it.                                                *)
DatabaseError(r) ==
  /\ pc[r] \in InFlight \ {"return"}
  /\ Throw(r, "failed")
  /\ UNCHANGED <<table, raw>>

(* The insert was committed, and its promise is rejected all the same.     *)
AnswerLost(r) ==
  /\ pc[r] = "return"
  /\ frame[r].row.id = r
  /\ Throw(r, "failed")
  /\ UNCHANGED <<table, raw>>

(* The process dies with every call in flight; what is committed stays.    *)
Crash ==
  /\ \E r \in Requests : pc[r] \in InFlight
  /\ pc' = [r \in Requests |-> IF pc[r] \in InFlight THEN "lost" ELSE pc[r]]
  /\ frame' = [r \in Requests |->
                 IF pc[r] \in InFlight THEN EmptyFrame ELSE frame[r]]
  /\ UNCHANGED <<table, raw>>

(* What the call does when its statement is answered.                      *)
Advance(r) ==
  \/ FindByHash(r)
  \/ \E c \in Codes : ExistsByCode(r, c)
  \/ Create(r)
  \/ CreateConflicts(r)
  \/ FindRaced(r)
  \/ Return(r)

Step(r) == Advance(r) \/ DatabaseError(r) \/ AnswerLost(r)

Next ==
  \/ \E r \in Requests : (\E u \in RawUrls : Execute(r, u)) \/ Step(r)
  \/ Crash

SafeSpec == Init /\ [][Next]_vars

(* The event loop runs every call on, and every statement is answered.     *)
Fairness == \A r \in Requests : WF_vars(Advance(r))

Spec == SafeSpec /\ Fairness

(***************************************************************************)
(* Properties                                                              *)
(***************************************************************************)
HasRow(r) == pc[r] \in {"return", "returned"}

(* Two calls that shorten the same URL, however written, return the same   *)
(* code, whatever the order of their statements, and two URLs never get    *)
(* one code (ShortenUrlUseCase.execute and the unique indices together).   *)
SameUrlSameCode ==
  \A r, s \in Requests : pc[r] = "returned" /\ pc[s] = "returned" =>
    (LongUrlOf(r) = LongUrlOf(s) <=> frame[r].row.code = frame[s].row.code)

(* What a call returns is committed, holds the URL the caller submitted,   *)
(* and stays the only row of its code, so that a redirect from the code    *)
(* leads to that URL after any later call, failure or crash.               *)
AnswersStand ==
  \A r \in Requests : HasRow(r) =>
    /\ frame[r].row \in table
    /\ frame[r].row.longUrl = LongUrlOf(r)
    /\ \A t \in table : t.code = frame[r].row.code => t = frame[r].row

(* A call that tells its caller that the URL is refused, or that no code   *)
(* could be found, has inserted no row; and no call inserts two.           *)
RefusalsPersistNothing ==
  /\ \A t \in table : pc[t.id] \notin {"rejected", "exhausted"}
  /\ \A t, w \in table : t.id = w.id => t = w

(* A call that starts when its URL has a row never answers that no code    *)
(* could be found, however full the code space is.                         *)
KnownUrlNeverExhausts ==
  \A r \in Requests :
    []( pc[r] = "findByHash" /\ RowsWithHash(HashOf[LongUrlOf(r)]) # {}
        => [](pc[r] # "exhausted") )

(***************************************************************************)
(* The refinement: a URL has a code once a row holds it, a request is      *)
(* answered when execute returns.                                          *)
(***************************************************************************)
RowsOf(u) == {t \in table : t.longUrl = u}

CodeIn(rows) == IF rows = {} THEN None ELSE (CHOOSE t \in rows : TRUE).code

CodeOf == [u \in LongUrls |-> CodeIn(RowsOf(u))]

Asked == [r \in Requests |->
            IF pc[r] \in {"idle", "rejected"} THEN None ELSE LongUrlOf(r)]

StatusAt(label) ==
  IF label \in InFlight THEN "pending"
  ELSE IF label = "returned" THEN "answered"
  ELSE IF label \in {"rejected", "exhausted", "failed"} THEN "refused"
  ELSE label

Status == [r \in Requests |-> StatusAt(pc[r])]

Answered == [r \in Requests |->
               IF pc[r] = "returned" THEN frame[r].row.code ELSE None]

Service == INSTANCE ShortenService
             WITH codeOf <- CodeOf, asked <- Asked, status <- Status,
                  answer <- Answered, NoCode <- None, NoUrl <- None

(* Every step of the use case, with its races and retries, is a step of    *)
(* the service or changes nothing the service shows.                       *)
ServiceSafety == Service!SafeSpec

(* And no caller waits for ever: both loops are bounded, and no statement  *)
(* waits for another call.                                                 *)
ServiceSpec == Service!Spec

(***************************************************************************)
(* The inductive invariant behind the safety properties.                   *)
(***************************************************************************)
UniqueRows ==
  \A t, w \in table : t.code = w.code \/ t.urlHash = w.urlHash => t = w

(* A row holds the URL of the call that made it and that URL's hash, and   *)
(* its call is past its insert.                                            *)
RowsHaveCalls ==
  \A t \in table : /\ pc[t.id] \in {"return", "returned", "failed", "lost"}
                   /\ raw[t.id] \in RawUrls
                   /\ t.longUrl = LongUrlOf(t.id)
                   /\ t.urlHash = HashOf[t.longUrl]

(* A call that runs has a valid URL.                                       *)
CallsHaveUrls ==
  \A r \in Requests : pc[r] \notin {"idle", "rejected"} =>
    raw[r] \in RawUrls /\ LongUrlOf(r) \in LongUrls

CreateHasCandidate ==
  \A r \in Requests : pc[r] = "create" => frame[r].candidate \in Codes

RowsAreMine ==
  \A r \in Requests : HasRow(r) => /\ frame[r].row \in table
                                      /\ frame[r].row.urlHash = HashOf[LongUrlOf(r)]

CallsMadeOneRow == \A t, w \in table : t.id = w.id => t = w

CountersBelowBounds ==
  \A r \in Requests :
    /\ pc[r] = "existsByCode" => frame[r].probe < MaxAttempts
    /\ pc[r] \in {"existsByCode", "create", "findRaced"}
         => frame[r].attempt < MAX_CREATE_ATTEMPTS

IInv ==
  /\ TypeOK
  /\ UniqueRows
  /\ RowsHaveCalls
  /\ CallsHaveUrls
  /\ CreateHasCandidate
  /\ RowsAreMine
  /\ CallsMadeOneRow
  /\ CountersBelowBounds
=============================================================================
