-------------------------- MODULE ShortenUrlProofs --------------------------
(***************************************************************************)
(* Proofs about ShortenUrl: the inductive invariant, the safety properties *)
(* it implies, and that every step is a step of ShortenService.            *)
(***************************************************************************)
EXTENDS ShortenUrl, TLAPS

USE BoundsAssumption, NormalizationAssumption, HashAssumption, NoneAssumption

LEMMA InitIInv == Init => IInv
<1> SUFFICES ASSUME Init PROVE IInv
  OBVIOUS
<1>1. TypeOK
  BY DEF Init, TypeOK, Frame, EmptyFrame, Locals
<1>2. UniqueRows /\ RowsHaveCalls /\ CallsMadeOneRow
  BY DEF Init, UniqueRows, RowsHaveCalls, CallsMadeOneRow
<1>3. CallsHaveUrls /\ CreateHasCandidate /\ RowsAreMine /\ CountersBelowBounds
  BY DEF Init, CallsHaveUrls, CreateHasCandidate, RowsAreMine, HasRow, CountersBelowBounds
<1>4. QED
  BY <1>1, <1>2, <1>3 DEF IInv

(* A statement that leaves the table alone and moves call r from a label   *)
(* past which it has inserted nothing to another such label, or to one     *)
(* where it may have, keeps what is known of the rows.                     *)
LEMMA TableUnchanged ==
  ASSUME IInv, NEW r \in Requests, NEW label,
         table' = table, raw' = raw, pc' = [pc EXCEPT ![r] = label],
         label \in {"return", "returned", "failed", "lost"}
           \/ pc[r] \in {"findByHash", "existsByCode", "create", "findRaced"}
  PROVE  UniqueRows' /\ RowsHaveCalls' /\ CallsMadeOneRow'
<1>1. UniqueRows' /\ CallsMadeOneRow'
  BY DEF IInv, UniqueRows, CallsMadeOneRow
<1>2. RowsHaveCalls'
  <2> SUFFICES ASSUME NEW t \in table
               PROVE  /\ pc'[t.id] \in {"return", "returned", "failed", "lost"}
                      /\ raw'[t.id] \in RawUrls
                      /\ t.longUrl = LongUrlOf(t.id)'
                      /\ t.urlHash = HashOf[t.longUrl]
    BY DEF RowsHaveCalls
  <2>1. /\ pc[t.id] \in {"return", "returned", "failed", "lost"}
        /\ raw[t.id] \in RawUrls
        /\ t.longUrl = LongUrlOf(t.id)
        /\ t.urlHash = HashOf[t.longUrl]
        /\ t.id \in Requests
    BY DEF IInv, RowsHaveCalls, TypeOK, Row
  <2>2. QED
    BY <2>1 DEF LongUrlOf, IInv, TypeOK
<1>3. QED
  BY <1>1, <1>2

(* A call moves to a label with locals that fit that label.                *)
LEMMA CallMoves ==
  ASSUME IInv, NEW r \in Requests, pc[r] \in InFlight,
         NEW label \in InFlight \cup (Settled \ {"rejected"}), NEW locals \in Frame,
         label = "create" => locals.candidate \in Codes,
         label = "existsByCode" => locals.probe < MaxAttempts,
         label \in {"existsByCode", "create", "findRaced"}
           => locals.attempt < MAX_CREATE_ATTEMPTS,
         table' \subseteq Row, raw' = raw,
         pc' = [pc EXCEPT ![r] = label], frame' = [frame EXCEPT ![r] = locals]
  PROVE  /\ TypeOK'
         /\ CallsHaveUrls'
         /\ CreateHasCandidate'
         /\ CountersBelowBounds'
<1> USE DEF IInv, TypeOK, InFlight, Settled
<1>1. TypeOK'
  OBVIOUS
<1>2. CallsHaveUrls'
  BY DEF CallsHaveUrls, LongUrlOf
<1>3. CreateHasCandidate' /\ CountersBelowBounds'
  BY DEF CreateHasCandidate, CountersBelowBounds
<1>4. QED
  BY <1>1, <1>2, <1>3

LEMMA LocalsType ==
  ASSUME NEW n \in 0..MAX_CREATE_ATTEMPTS, NEW p \in 0..MaxAttempts,
         NEW c \in Codes \cup {None}, NEW t \in Row \cup {None}
  PROVE  /\ Locals(n, p, c, t) \in Frame
         /\ Locals(n, p, c, t).attempt = n
         /\ Locals(n, p, c, t).probe = p
         /\ Locals(n, p, c, t).candidate = c
         /\ Locals(n, p, c, t).row = t
BY DEF Locals, Frame

LEMMA CallMovesTo ==
  ASSUME IInv, NEW r \in Requests, pc[r] \in InFlight,
         NEW label \in InFlight \cup (Settled \ {"rejected"}),
         NEW n \in 0..MAX_CREATE_ATTEMPTS, NEW p \in 0..MaxAttempts,
         NEW c \in Codes \cup {None}, NEW t \in Row \cup {None},
         label = "create" => c \in Codes,
         label = "existsByCode" => p < MaxAttempts,
         label \in {"existsByCode", "create", "findRaced"} => n < MAX_CREATE_ATTEMPTS,
         table' \subseteq Row, raw' = raw,
         pc' = [pc EXCEPT ![r] = label],
         frame' = [frame EXCEPT ![r] = Locals(n, p, c, t)]
  PROVE  /\ TypeOK'
         /\ CallsHaveUrls'
         /\ CreateHasCandidate'
         /\ CountersBelowBounds'
<1> DEFINE locals == Locals(n, p, c, t)
<1>1. locals \in Frame /\ locals.attempt = n /\ locals.probe = p /\ locals.candidate = c
  BY LocalsType
<1>2. frame' = [frame EXCEPT ![r] = locals]
  OBVIOUS
<1> HIDE DEF locals
<1>3. QED
  BY CallMoves, <1>1, <1>2

(* What one call's step does to the facts that concern a single call.      *)
LEMMA CallStep ==
  ASSUME IInv, NEW r \in Requests, Step(r)
  PROVE  /\ TypeOK'
         /\ CallsHaveUrls'
         /\ CreateHasCandidate'
         /\ CountersBelowBounds'
<1> DEFINE Kept == TypeOK' /\ CallsHaveUrls' /\ CreateHasCandidate' /\ CountersBelowBounds'
<1>1. /\ raw' = raw /\ LongUrlOf(r) \in LongUrls /\ raw[r] \in RawUrls
      /\ pc[r] \in InFlight
      /\ table \subseteq Row
      /\ frame[r] \in Frame
      /\ frame[r].attempt \in 0..MAX_CREATE_ATTEMPTS
      /\ frame[r].probe \in 0..MaxAttempts
  <2>1. raw' = raw /\ pc[r] \in InFlight
    BY DEF Step, Advance, FindByHash, ExistsByCode, Create, CreateConflicts, FindRaced,
           Return, DatabaseError, AnswerLost, InFlight
  <2>2. QED
    BY <2>1 DEF CallsHaveUrls, IInv, TypeOK, InFlight, Frame
<1>3. /\ EmptyFrame \in Frame
      /\ 0 \in 0..MAX_CREATE_ATTEMPTS /\ 0 \in 0..MaxAttempts
      /\ 0 < MAX_CREATE_ATTEMPTS /\ 0 < MaxAttempts
  BY LocalsType DEF EmptyFrame
<1>4. ASSUME NEW n \in 0..MAX_CREATE_ATTEMPTS, n < MAX_CREATE_ATTEMPTS, table' = table,
             Generate(r, n)
      PROVE  Kept
  BY CallMovesTo, <1>1, <1>3, <1>4 DEF Generate, Goto, InFlight
<1>5. ASSUME NEW t \in Row, table' \subseteq Row, ReturnRow(r, t)
      PROVE  Kept
  BY CallMovesTo, <1>1, <1>3, <1>5 DEF ReturnRow, Goto, InFlight
<1>6. ASSUME NEW outcome \in {"exhausted", "failed"}, table' = table, Throw(r, outcome)
      PROVE  Kept
  BY CallMoves, <1>1, <1>3, <1>6 DEF Throw, Goto, Settled
<1>7. CASE FindByHash(r)
  BY <1>1, <1>3, <1>4, <1>5, <1>7 DEF FindByHash, RowsWithHash
<1>8. ASSUME NEW c \in Codes, ExistsByCode(r, c)
      PROVE  Kept
  <2>1. table' = table /\ frame[r].attempt < MAX_CREATE_ATTEMPTS /\ frame[r].probe < MaxAttempts
    BY <1>8 DEF ExistsByCode, IInv, CountersBelowBounds
  <2>2. CASE UNCHANGED pc /\ frame[r].probe + 1 < MaxAttempts
               /\ frame' = [frame EXCEPT ![r] = Locals(frame[r].attempt, frame[r].probe + 1, None, None)]
    <3>1. frame[r].probe + 1 \in 0..MaxAttempts
      BY <1>1, <2>2
    <3>2. pc' = [pc EXCEPT ![r] = "existsByCode"]
      BY <1>8, <2>2 DEF ExistsByCode, IInv, TypeOK
    <3>3. QED
      BY CallMovesTo, <1>1, <2>1, <2>2, <3>1, <3>2 DEF InFlight
  <2>3. CASE Throw(r, "exhausted")
    BY <1>6, <2>1, <2>3
  <2>4. CASE ToCreate(r, c)
    BY CallMovesTo, <1>1, <1>3, <2>1, <2>4 DEF ToCreate, Goto, InFlight
  <2>5. QED
    BY <1>8, <2>2, <2>3, <2>4 DEF ExistsByCode
<1>9. CASE Create(r)
  <2>1. NewRow(r) \in Row
    BY <1>1, <1>9 DEF Create, NewRow, Row, IInv, CreateHasCandidate
  <2>2. QED
    BY <1>1, <1>5, <1>9, <2>1 DEF Create
<1>10. CASE CreateConflicts(r)
  <2>1. frame[r].attempt < MAX_CREATE_ATTEMPTS
    BY <1>10 DEF CreateConflicts, IInv, CountersBelowBounds
  <2>2. QED
    BY CallMovesTo, <1>1, <1>3, <1>10, <2>1 DEF CreateConflicts, Goto, InFlight
<1>11. CASE FindRaced(r)
  <2>1. ASSUME frame[r].attempt + 1 < MAX_CREATE_ATTEMPTS, Generate(r, frame[r].attempt + 1)
        PROVE  Kept
    <3>1. frame[r].attempt + 1 \in 0..MAX_CREATE_ATTEMPTS /\ table' = table
      BY <1>1, <1>11, <2>1 DEF FindRaced
    <3>2. QED
      BY <1>4, <2>1, <3>1
  <2>2. QED
    BY <1>1, <1>5, <1>6, <1>11, <2>1 DEF FindRaced, RowsWithHash
<1>12. CASE Return(r)
  <2>1. frame' = [frame EXCEPT ![r] = frame[r]] /\ table' = table
    BY <1>12 DEF Return, IInv, TypeOK
  <2>2. QED
    BY CallMoves, <1>1, <1>12, <2>1 DEF Return, Goto, Settled
<1>13. CASE DatabaseError(r) \/ AnswerLost(r)
  BY <1>6, <1>13 DEF DatabaseError, AnswerLost
<1>14. QED
  BY <1>7, <1>8, <1>9, <1>10, <1>11, <1>12, <1>13 DEF Step, Advance

(* The insert of create: the indices keep the rows unique, and the row is  *)
(* the first of its call.                                                  *)
LEMMA RowInserted ==
  ASSUME IInv, NEW r \in Requests, Create(r)
  PROVE  UniqueRows' /\ RowsHaveCalls' /\ CallsMadeOneRow'
<1> DEFINE new == NewRow(r)
<1>1. /\ pc[r] = "create" /\ pc' = [pc EXCEPT ![r] = "return"] /\ raw' = raw
      /\ table' = table \cup {new}
      /\ \A t \in table : t.code # new.code /\ t.urlHash # new.urlHash
  BY DEF Create, ReturnRow, Goto, UniqueViolation, CodeTaken, RowsWithHash
<1>2. /\ new.id = r
      /\ new.longUrl = LongUrlOf(r) /\ new.urlHash = HashOf[new.longUrl]
      /\ raw[r] \in RawUrls
  BY <1>1 DEF NewRow, IInv, CallsHaveUrls
<1> HIDE DEF new
<1>3. \A t \in table : /\ pc[t.id] \in {"return", "returned", "failed", "lost"}
                       /\ raw[t.id] \in RawUrls
                       /\ t.longUrl = LongUrlOf(t.id)
                       /\ t.urlHash = HashOf[t.longUrl]
                       /\ t.id \in Requests /\ t.id # r
  BY <1>1 DEF IInv, RowsHaveCalls, TypeOK, Row
<1>4. UniqueRows'
  BY <1>1 DEF IInv, UniqueRows
<1>5. CallsMadeOneRow'
  BY <1>1, <1>2, <1>3 DEF IInv, CallsMadeOneRow
<1>6. RowsHaveCalls'
  <2>1. pc \in [Requests -> {"idle"} \cup InFlight \cup Settled]
    BY DEF IInv, TypeOK
  <2>2. ASSUME NEW t \in table'
        PROVE  /\ pc'[t.id] \in {"return", "returned", "failed", "lost"}
               /\ raw'[t.id] \in RawUrls
               /\ t.longUrl = LongUrlOf(t.id)'
               /\ t.urlHash = HashOf[t.longUrl]
    BY <1>1, <1>2, <1>3, <2>1 DEF LongUrlOf
  <2>3. QED
    BY <2>2 DEF RowsHaveCalls
<1>7. QED
  BY <1>4, <1>5, <1>6

(* What one call's step does to the rows.                                  *)
LEMMA RowsStep ==
  ASSUME IInv, NEW r \in Requests, Step(r)
  PROVE  UniqueRows' /\ RowsHaveCalls' /\ CallsMadeOneRow'
<1> USE TableUnchanged DEF Goto, Throw, Generate, ReturnRow, ToCreate
<1>1. CASE FindByHash(r) \/ FindRaced(r)
  BY <1>1 DEF FindByHash, FindRaced
<1>2. CASE \E c \in Codes : ExistsByCode(r, c)
  <2>1. PICK label : pc' = [pc EXCEPT ![r] = label]
    BY <1>2 DEF ExistsByCode, IInv, TypeOK
  <2>2. QED
    BY <1>2, <2>1 DEF ExistsByCode
<1>3. CASE Create(r)
  BY <1>3, RowInserted
<1>4. CASE CreateConflicts(r) \/ Return(r) \/ AnswerLost(r) \/ DatabaseError(r)
  BY <1>4 DEF CreateConflicts, Return, AnswerLost, DatabaseError
<1>5. QED
  BY <1>1, <1>2, <1>3, <1>4 DEF Step, Advance

(* A row a call is about to return was read from the table or just put     *)
(* there, and rows stay.                                                   *)
LEMMA ReturnedRowStep ==
  ASSUME IInv, NEW r \in Requests, Step(r)
  PROVE  RowsAreMine'
<1>1. /\ table \subseteq table' /\ raw' = raw
      /\ \A s \in Requests \ {r} : pc'[s] = pc[s] /\ frame'[s] = frame[s]
  BY DEF Step, Advance, FindByHash, FindRaced, ExistsByCode, Create, CreateConflicts, Return,
     DatabaseError, AnswerLost, Goto, Throw, Generate, ReturnRow, ToCreate, IInv, TypeOK
<1>2. ASSUME NEW t \in table', t.urlHash = HashOf[LongUrlOf(r)], ReturnRow(r, t)
      PROVE  frame'[r].row \in table' /\ frame'[r].row.urlHash = HashOf[LongUrlOf(r)]
  BY <1>2 DEF ReturnRow, Locals, IInv, TypeOK
<1>3. ASSUME HasRow(r)'
      PROVE  frame'[r].row \in table' /\ frame'[r].row.urlHash = HashOf[LongUrlOf(r)]
  <2>1. pc'[r] \in {"return", "returned"} /\ r \in DOMAIN pc /\ r \in DOMAIN frame
    BY <1>3 DEF HasRow, IInv, TypeOK
  <2>2. CASE FindByHash(r) \/ FindRaced(r)
    BY <1>1, <1>2, <2>1, <2>2 DEF FindByHash, FindRaced, Generate, Throw, Goto, RowsWithHash
  <2>3. CASE \E c \in Codes : ExistsByCode(r, c)
    BY <2>1, <2>3 DEF ExistsByCode, ToCreate, Throw, Goto
  <2>4. CASE Create(r)
    BY <1>2, <2>4 DEF Create, NewRow
  <2>5. CASE CreateConflicts(r) \/ DatabaseError(r) \/ AnswerLost(r)
    BY <2>1, <2>5 DEF CreateConflicts, DatabaseError, AnswerLost, Throw, Goto
  <2>6. CASE Return(r)
    BY <2>6 DEF Return, IInv, RowsAreMine, HasRow
  <2>7. QED
    BY <2>2, <2>3, <2>4, <2>5, <2>6 DEF Step, Advance
<1>4. QED
  BY <1>1, <1>3 DEF RowsAreMine, HasRow, LongUrlOf, IInv

(* The start of a call, and a crash.                                       *)
LEMMA ExecuteIInv ==
  ASSUME IInv, NEW r \in Requests, NEW u \in RawUrls, Execute(r, u)
  PROVE  IInv'
<1> DEFINE label == IF NormalizedOf[u] = Invalid THEN "rejected" ELSE "findByHash"
<1>1. /\ pc[r] = "idle" /\ pc' = [pc EXCEPT ![r] = label]
      /\ raw' = [raw EXCEPT ![r] = u]
      /\ table' = table /\ frame' = frame
  BY DEF Execute, Goto
<1>2. /\ label \in {"rejected", "findByHash"}
      /\ label = "findByHash" => NormalizedOf[u] \in LongUrls
  OBVIOUS
<1> HIDE DEF label
<1>3. /\ TypeOK
      /\ pc \in [Requests -> {"idle"} \cup InFlight \cup Settled]
      /\ raw \in [Requests -> RawUrls \cup {None}]
      /\ \A t \in table : t.id \in Requests
  BY DEF IInv, TypeOK, Row
<1>4. TypeOK'
  BY <1>1, <1>2, <1>3 DEF TypeOK, InFlight, Settled
<1>5. UniqueRows' /\ CallsMadeOneRow'
  BY <1>1 DEF IInv, UniqueRows, CallsMadeOneRow
<1>6. RowsHaveCalls'
  <2>1. \A t \in table : pc[t.id] # "idle" /\ t.id # r
    BY <1>1 DEF IInv, RowsHaveCalls
  <2>2. \A t \in table : pc'[t.id] = pc[t.id] /\ raw'[t.id] = raw[t.id]
    BY <1>1, <1>3, <2>1
  <2>3. QED
    BY <1>1, <2>2 DEF IInv, RowsHaveCalls, LongUrlOf
<1>7. CallsHaveUrls'
  BY <1>1, <1>2, <1>3 DEF IInv, CallsHaveUrls, LongUrlOf
<1>8. CreateHasCandidate' /\ CountersBelowBounds'
  BY <1>1, <1>2, <1>3 DEF IInv, CreateHasCandidate, CountersBelowBounds
<1>9. RowsAreMine'
  BY <1>1, <1>2, <1>3 DEF IInv, RowsAreMine, HasRow, LongUrlOf
<1>10. QED
  BY <1>4, <1>5, <1>6, <1>7, <1>8, <1>9 DEF IInv

LEMMA CrashIInv == ASSUME IInv, Crash PROVE IInv'
<1>1. /\ pc' = [r \in Requests |-> IF pc[r] \in InFlight THEN "lost" ELSE pc[r]]
      /\ frame' = [r \in Requests |-> IF pc[r] \in InFlight THEN EmptyFrame ELSE frame[r]]
      /\ table' = table /\ raw' = raw
  BY DEF Crash
<1>2. EmptyFrame \in Frame
  BY LocalsType DEF EmptyFrame
<1>3. TypeOK'
  BY <1>1, <1>2 DEF IInv, TypeOK, InFlight, Settled
<1>4. UniqueRows' /\ CallsMadeOneRow'
  BY <1>1 DEF IInv, UniqueRows, CallsMadeOneRow
<1>5. RowsHaveCalls'
  BY <1>1 DEF IInv, TypeOK, Row, RowsHaveCalls, LongUrlOf, InFlight
<1>6. CallsHaveUrls' /\ CreateHasCandidate' /\ CountersBelowBounds'
  BY <1>1 DEF IInv, CallsHaveUrls, CreateHasCandidate, CountersBelowBounds, LongUrlOf, InFlight
<1>7. RowsAreMine'
  BY <1>1 DEF IInv, RowsAreMine, HasRow, LongUrlOf, InFlight
<1>8. QED
  BY <1>3, <1>4, <1>5, <1>6, <1>7 DEF IInv

LEMMA NextIInv == IInv /\ [Next]_vars => IInv'
<1> SUFFICES ASSUME IInv, [Next]_vars PROVE IInv'
  OBVIOUS
<1>1. ASSUME NEW r \in Requests, NEW u \in RawUrls, Execute(r, u)
      PROVE  IInv'
  BY <1>1, ExecuteIInv
<1>2. ASSUME NEW r \in Requests, Step(r)
      PROVE  IInv'
  BY <1>2, CallStep, RowsStep, ReturnedRowStep DEF IInv
<1>3. CASE Crash
  BY <1>3, CrashIInv
<1>4. CASE UNCHANGED vars
  BY <1>4 DEF vars, IInv, TypeOK, UniqueRows, RowsHaveCalls, CallsHaveUrls, HasRow,
     CreateHasCandidate, RowsAreMine, CallsMadeOneRow, CountersBelowBounds, LongUrlOf
<1>5. QED
  BY <1>1, <1>2, <1>3, <1>4 DEF Next

(* The invariant, and with it the types, holds in every reachable state,   *)
(* for any number of calls, URLs and codes and any retry budgets.          *)
THEOREM Invariance == SafeSpec => []IInv
<1>1. QED
  BY InitIInv, NextIInv, PTL DEF SafeSpec

(***************************************************************************)
(* What the invariant implies.                                             *)
(***************************************************************************)
LEMMA IInvAnswersStand == IInv => AnswersStand
<1> SUFFICES ASSUME IInv, NEW r \in Requests, HasRow(r)
             PROVE  /\ frame[r].row \in table
                    /\ frame[r].row.longUrl = LongUrlOf(r)
                    /\ \A t \in table : t.code = frame[r].row.code => t = frame[r].row
  BY DEF AnswersStand
<1> DEFINE mine == frame[r].row
<1>1. mine \in table /\ mine.urlHash = HashOf[LongUrlOf(r)]
  BY DEF IInv, RowsAreMine
<1>2. LongUrlOf(r) \in LongUrls
  BY DEF IInv, CallsHaveUrls, HasRow
<1>3. mine.longUrl \in LongUrls /\ mine.urlHash = HashOf[mine.longUrl]
  BY <1>1 DEF IInv, TypeOK, Row, RowsHaveCalls
<1>4. mine.longUrl = LongUrlOf(r)
  BY <1>1, <1>2, <1>3
<1>5. \A t \in table : t.code = mine.code => t = mine
  BY <1>1 DEF IInv, UniqueRows
<1>6. QED
  BY <1>1, <1>4, <1>5

LEMMA IInvSameUrlSameCode == IInv => SameUrlSameCode
<1> SUFFICES ASSUME IInv, NEW r \in Requests, NEW s \in Requests,
                    pc[r] = "returned", pc[s] = "returned"
             PROVE  LongUrlOf(r) = LongUrlOf(s) <=> frame[r].row.code = frame[s].row.code
  BY DEF SameUrlSameCode
<1>1. /\ frame[r].row \in table /\ frame[s].row \in table
      /\ frame[r].row.longUrl = LongUrlOf(r) /\ frame[s].row.longUrl = LongUrlOf(s)
  BY IInvAnswersStand DEF AnswersStand, HasRow
<1>2. /\ frame[r].row.urlHash = HashOf[frame[r].row.longUrl]
      /\ frame[s].row.urlHash = HashOf[frame[s].row.longUrl]
  BY <1>1 DEF IInv, RowsHaveCalls
<1>3. QED
  BY <1>1, <1>2 DEF IInv, UniqueRows

(* Two calls that shorten one URL return one code, and two URLs never get  *)
(* the same code, in every interleaving, failure and crash.                *)
THEOREM SameCode == SafeSpec => []SameUrlSameCode
<1>1. QED
  BY Invariance, IInvSameUrlSameCode, PTL

(* What a call returns is the committed row of the URL it was asked for.   *)
THEOREM Standing == SafeSpec => []AnswersStand
<1>1. QED
  BY Invariance, IInvAnswersStand, PTL

(* A refusal leaves no row behind, and no call inserts two.                *)
THEOREM NothingPersisted == SafeSpec => []RefusalsPersistNothing
<1>1. IInv => RefusalsPersistNothing
  BY DEF IInv, RowsHaveCalls, CallsMadeOneRow, RefusalsPersistNothing
<1>2. QED
  BY Invariance, <1>1, PTL

(***************************************************************************)
(* A URL that has a row.                                                   *)
(***************************************************************************)
Known(r) == RowsWithHash(HashOf[LongUrlOf(r)]) # {}

(* A call that found its URL's row, or is still to find it.                *)
Finds(r) ==
  /\ pc[r] \notin {"idle", "existsByCode", "create", "findRaced", "exhausted"}
  /\ pc[r] = "findByHash" => Known(r)

(* Rows are never removed and a call's argument never changes.             *)
LEMMA KnownStays ==
  ASSUME IInv, [Next]_vars, NEW r \in Requests, pc[r] # "idle", Known(r)
  PROVE  Known(r)'
<1>1. table \subseteq table'
  BY DEF Next, Step, Advance, Execute, FindByHash, ExistsByCode, Create, CreateConflicts,
         FindRaced, Return, DatabaseError, AnswerLost, Crash, vars
<1>2. raw'[r] = raw[r]
  <2>1. ASSUME NEW s \in Requests, NEW u \in RawUrls, Execute(s, u) PROVE raw'[r] = raw[r]
    BY <2>1 DEF Execute, IInv, TypeOK
  <2>2. CASE UNCHANGED raw
    BY <2>2
  <2>3. QED
    BY <2>1, <2>2 DEF Next, Step, Advance, FindByHash, ExistsByCode, Create, CreateConflicts,
           FindRaced, Return, DatabaseError, AnswerLost, Crash, vars
<1>3. QED
  BY <1>1, <1>2 DEF Known, RowsWithHash, LongUrlOf

LEMMA FindsStays ==
  ASSUME IInv, [Next]_vars, NEW r \in Requests, Finds(r)
  PROVE  Finds(r)'
<1>1. pc[r] = "findByHash" => Known(r)'
  BY KnownStays DEF Finds
<1>2. ASSUME pc'[r] = pc[r] PROVE Finds(r)'
  BY <1>1, <1>2 DEF Finds
<1>3. ASSUME NEW s \in Requests, s # r, \E label : pc' = [pc EXCEPT ![s] = label]
      PROVE  Finds(r)'
  BY <1>2, <1>3 DEF IInv, TypeOK
<1>4. ASSUME NEW s \in Requests, NEW u \in RawUrls, Execute(s, u)
      PROVE  Finds(r)'
  <2>1. s # r
    BY <1>4 DEF Execute, Finds
  <2>2. QED
    BY <1>3, <1>4, <2>1 DEF Execute, Goto
<1>5. ASSUME NEW s \in Requests, Step(s)
      PROVE  Finds(r)'
  <2>1. CASE s = r
    <3>1. pc'[r] \in {"return", "returned", "failed"}
      <4>1. pc \in [Requests -> {"idle"} \cup InFlight \cup Settled]
        BY DEF IInv, TypeOK
      <4>2. CASE FindByHash(r)
        BY <4>1, <4>2 DEF FindByHash, Finds, Known, ReturnRow, Goto
      <4>3. CASE Return(r) \/ DatabaseError(r) \/ AnswerLost(r)
        BY <4>1, <4>3 DEF Return, DatabaseError, AnswerLost, Throw, Goto
      <4>4. QED
        BY <1>5, <2>1, <4>2, <4>3 DEF Step, Advance, ExistsByCode, Create, CreateConflicts,
               FindRaced, Finds
    <3>2. QED
      BY <3>1 DEF Finds
  <2>2. CASE s # r
    <3>1. (\E label : pc' = [pc EXCEPT ![s] = label]) \/ pc' = pc
      BY <1>5 DEF Step, Advance, FindByHash, ExistsByCode, Create, CreateConflicts, FindRaced,
             Return, DatabaseError, AnswerLost, ReturnRow, Generate, ToCreate, Throw, Goto
    <3>2. QED
      BY <1>2, <1>3, <2>2, <3>1
  <2>3. QED
    BY <2>1, <2>2
<1>6. CASE Crash
  <2>1. pc'[r] \in {"lost", pc[r]}
    BY <1>6 DEF Crash
  <2>2. QED
    BY <1>2, <2>1 DEF Finds
<1>7. CASE UNCHANGED vars
  BY <1>2, <1>7 DEF vars
<1>8. QED
  BY <1>4, <1>5, <1>6, <1>7 DEF Next

(* A URL that is there when a call starts gets its code, however full the  *)
(* code space is.                                                          *)
THEOREM KnownUrls == SafeSpec => KnownUrlNeverExhausts
<1>1. ASSUME NEW r \in Requests
      PROVE  SafeSpec => [](pc[r] = "findByHash" /\ RowsWithHash(HashOf[LongUrlOf(r)]) # {}
                              => [](pc[r] # "exhausted"))
  <2>1. pc[r] = "findByHash" /\ RowsWithHash(HashOf[LongUrlOf(r)]) # {} => Finds(r)
    BY DEF Finds, Known
  <2>2. IInv /\ [Next]_vars /\ Finds(r) => Finds(r)'
    BY FindsStays
  <2>3. Finds(r) => pc[r] # "exhausted"
    BY DEF Finds
  <2>4. QED
    BY <2>1, <2>2, <2>3, Invariance, PTL DEF SafeSpec
<1>2. QED
  BY <1>1 DEF KnownUrlNeverExhausts

(***************************************************************************)
(* The refinement.                                                         *)
(***************************************************************************)
(* The code of a URL in terms of its row.                                  *)
LEMMA CodeOfRow ==
  ASSUME IInv
  PROVE  /\ \A t \in table : CodeOf[t.longUrl] = t.code /\ t.code # None
         /\ \A u \in LongUrls : CodeOf[u] # None
              => \E t \in table : t.longUrl = u /\ t.code = CodeOf[u]
<1>1. \A t, w \in table : t.longUrl = w.longUrl => t = w
  BY DEF IInv, UniqueRows, RowsHaveCalls
<1>2. \A t \in table : t.longUrl \in LongUrls /\ t.code \in Codes
  BY DEF IInv, TypeOK, Row
<1>3. ASSUME NEW t \in table
      PROVE  CodeOf[t.longUrl] = t.code /\ t.code # None
  <2>1. RowsOf(t.longUrl) = {t}
    BY <1>1 DEF RowsOf
  <2>2. CodeIn({t}) = t.code
    BY DEF CodeIn
  <2>3. QED
    BY <1>2, <2>1, <2>2 DEF CodeOf
<1>4. ASSUME NEW u \in LongUrls, CodeOf[u] # None
      PROVE  \E t \in table : t.longUrl = u /\ t.code = CodeOf[u]
  <2>1. PICK t \in RowsOf(u) : TRUE
    BY <1>4 DEF CodeOf, CodeIn
  <2>2. QED
    BY <1>3, <2>1 DEF RowsOf
<1>5. QED
  BY <1>3, <1>4

LEMMA RefinesInit == Init => Service!Init
<1> SUFFICES ASSUME Init PROVE Service!Init
  OBVIOUS
<1>1. CodeOf = [u \in LongUrls |-> None]
  BY DEF Init, CodeOf, CodeIn, RowsOf
<1>2. Asked = [r \in Requests |-> None] /\ Answered = [r \in Requests |-> None]
  BY DEF Init, Asked, Answered
<1>3. Status = [r \in Requests |-> "idle"]
  BY DEF Init, Status, StatusAt, InFlight
<1>4. QED
  BY <1>1, <1>2, <1>3 DEF Service!Init


(* Where table and arguments stay, URLs keep their codes and calls their   *)
(* questions.                                                              *)
LEMMA CodesKept == table' = table => CodeOf' = CodeOf
BY DEF CodeOf, RowsOf

(* A call that settles or goes on changes its own status and answer only.  *)
LEMMA OthersKeep ==
  ASSUME IInv, NEW r \in Requests, NEW label, NEW locals,
         pc[r] \in InFlight, label \in InFlight \cup {"returned", "exhausted", "failed"},
         raw' = raw, pc' = [pc EXCEPT ![r] = label],
         frame' = [frame EXCEPT ![r] = locals]
  PROVE  /\ Asked' = Asked
         /\ label \in InFlight => Status' = Status /\ Answered' = Answered
         /\ label \in {"exhausted", "failed"}
              => Status' = [Status EXCEPT ![r] = "refused"] /\ Answered' = Answered
         /\ label = "returned"
              => /\ Status' = [Status EXCEPT ![r] = "answered"]
                 /\ Answered' = [Answered EXCEPT ![r] = locals.row.code]
<1>1. /\ pc \in [Requests -> {"idle"} \cup InFlight \cup Settled]
      /\ pc' \in [Requests -> {"idle"} \cup InFlight \cup Settled]
      /\ frame \in [Requests -> Frame]
  BY DEF IInv, TypeOK, Settled
<1>2. Asked' = Asked
  <2>1. \A s \in Requests : pc'[s] \in {"idle", "rejected"} <=> pc[s] \in {"idle", "rejected"}
    BY <1>1 DEF InFlight
  <2>2. \A s \in Requests : LongUrlOf(s)' = LongUrlOf(s)
    BY DEF LongUrlOf
  <2>3. QED
    BY <2>1, <2>2 DEF Asked
<1>3. \A s \in Requests \ {r} : Status'[s] = Status[s] /\ Answered'[s] = Answered[s]
  BY <1>1 DEF Status, Answered
<1>4. /\ Status = [s \in Requests |-> Status[s]] /\ Status' = [s \in Requests |-> Status'[s]]
      /\ Answered = [s \in Requests |-> Answered[s]]
      /\ Answered' = [s \in Requests |-> Answered'[s]]
  BY DEF Status, Answered
<1>5. pc'[r] = label /\ frame'[r] = locals
  BY <1>1
<1>6. /\ Status[r] = "pending" /\ Answered[r] = None
      /\ label \in InFlight => Status'[r] = "pending" /\ Answered'[r] = None
      /\ label \in {"exhausted", "failed"} => Status'[r] = "refused" /\ Answered'[r] = None
      /\ label = "returned" => Status'[r] = "answered" /\ Answered'[r] = locals.row.code
  BY <1>1, <1>5 DEF Status, StatusAt, Answered, InFlight
<1>7. QED
  BY <1>2, <1>3, <1>4, <1>6

LEMMA CallGoesOn ==
  ASSUME IInv, NEW r \in Requests, NEW label \in InFlight, NEW locals,
         pc[r] \in InFlight, raw' = raw,
         pc' = [pc EXCEPT ![r] = label], frame' = [frame EXCEPT ![r] = locals]
  PROVE  Asked' = Asked /\ Status' = Status /\ Answered' = Answered
BY OthersKeep

LEMMA CodeAssigned ==
  ASSUME NEW u \in LongUrls, NEW new, new.longUrl = u,
         table' = table \cup {new}, \A t \in table : t.longUrl # u
  PROVE  CodeOf[u] = None /\ CodeOf' = [CodeOf EXCEPT ![u] = new.code]
<1>1. \A v \in LongUrls \ {u} : RowsOf(v)' = RowsOf(v)
  BY DEF RowsOf
<1>2. RowsOf(u) = {} /\ RowsOf(u)' = {new}
  <2>1. \A t : t \in RowsOf(u)' <=> t = new
    BY DEF RowsOf
  <2>2. \A t : t \notin RowsOf(u)
    BY DEF RowsOf
  <2>3. QED
    BY <2>1, <2>2
<1>3. CodeIn({}) = None /\ CodeIn({new}) = new.code
  BY DEF CodeIn
<1>4. CodeOf[u] = None /\ CodeOf'[u] = new.code
  BY <1>2, <1>3 DEF CodeOf
<1>5. \A v \in LongUrls \ {u} : CodeOf'[v] = CodeOf[v]
  BY <1>1 DEF CodeOf
<1>6. CodeOf = [v \in LongUrls |-> CodeOf[v]] /\ CodeOf' = [v \in LongUrls |-> CodeOf'[v]]
  BY DEF CodeOf
<1>7. QED
  BY <1>4, <1>5, <1>6

(* A statement that reads: the service stands still.                       *)
LEMMA ReadsStutter ==
  ASSUME IInv, NEW r \in Requests,
         \/ FindByHash(r)
         \/ FindRaced(r) /\ pc'[r] # "exhausted"
         \/ \E c \in Codes : ExistsByCode(r, c) /\ pc'[r] # "exhausted"
         \/ CreateConflicts(r)
  PROVE  UNCHANGED Service!vars
<1>1. /\ table' = table /\ raw' = raw /\ pc[r] \in InFlight
      /\ pc \in [Requests -> {"idle"} \cup InFlight \cup Settled]
      /\ frame \in [Requests -> Frame]
  BY DEF FindByHash, FindRaced, ExistsByCode, CreateConflicts, InFlight, IInv, TypeOK
<1>2. \E label \in InFlight : \E locals : /\ pc' = [pc EXCEPT ![r] = label]
                                          /\ frame' = [frame EXCEPT ![r] = locals]
  <2>1. CASE FindByHash(r) \/ CreateConflicts(r)
    BY <2>1 DEF FindByHash, CreateConflicts, ReturnRow, Generate, Goto, InFlight
  <2>2. CASE FindRaced(r) /\ pc'[r] # "exhausted"
    BY <1>1, <2>2 DEF FindRaced, ReturnRow, Generate, Throw, Goto, InFlight
  <2>3. CASE \E c \in Codes : ExistsByCode(r, c) /\ pc'[r] # "exhausted"
    <3>1. PICK c \in Codes : ExistsByCode(r, c) /\ pc'[r] # "exhausted"
      BY <2>3
    <3>2. CASE UNCHANGED pc /\ \E locals : frame' = [frame EXCEPT ![r] = locals]
      BY <1>1, <3>2
    <3>3. CASE ToCreate(r, c)
      BY <3>3 DEF ToCreate, Goto, InFlight
    <3>4. QED
      BY <1>1, <3>1, <3>2, <3>3 DEF ExistsByCode, Throw, Goto
  <2>4. QED
    BY <2>1, <2>2, <2>3
<1>3. PICK label \in InFlight : \E locals : /\ pc' = [pc EXCEPT ![r] = label]
                                           /\ frame' = [frame EXCEPT ![r] = locals]
  BY <1>2
<1>4. QED
  BY <1>1, <1>3, OthersKeep, CodesKept DEF Service!vars

(* An error that execute throws: the service refuses.                      *)
LEMMA ThrowsRefuse ==
  ASSUME IInv, NEW r \in Requests, NEW outcome \in {"exhausted", "failed"},
         pc[r] \in InFlight, table' = table, raw' = raw, Throw(r, outcome)
  PROVE  Service!Refuse(r)
<1>1. /\ Status' = [Status EXCEPT ![r] = "refused"] /\ Answered' = Answered
      /\ Asked' = Asked /\ CodeOf' = CodeOf
  BY OthersKeep, CodesKept DEF Throw, Goto
<1>2. Status[r] = "pending"
  BY DEF Status, StatusAt
<1>3. QED
  BY <1>1, <1>2 DEF Service!Refuse

(* The insert: the service assigns the URL its code.                       *)
LEMMA CreateAssigns ==
  ASSUME IInv, NEW r \in Requests, Create(r)
  PROVE  Service!Assign(LongUrlOf(r), frame[r].candidate)
<1> DEFINE u == LongUrlOf(r)
           c == frame[r].candidate
           new == NewRow(r)
<1>1. /\ pc[r] = "create" /\ u \in LongUrls /\ c \in Codes
      /\ new.longUrl = u /\ new.code = c /\ new.urlHash = HashOf[u]
      /\ table' = table \cup {new} /\ raw' = raw
      /\ \A t \in table : t.code # c /\ t.urlHash # HashOf[u]
  BY DEF Create, IInv, CallsHaveUrls, CreateHasCandidate, NewRow, UniqueViolation,
         CodeTaken, RowsWithHash
<1>2. Status' = Status /\ Answered' = Answered /\ Asked' = Asked
  <2>1. /\ pc' = [pc EXCEPT ![r] = "return"]
        /\ frame' = [frame EXCEPT ![r] = Locals(0, 0, None, new)]
    BY DEF Create, ReturnRow, Goto
  <2>2. pc[r] \in InFlight /\ "return" \in InFlight
    BY <1>1 DEF InFlight
  <2>3. QED
    BY <1>1, <2>1, <2>2, CallGoesOn
<1>3. Status[r] = "pending" /\ Asked[r] = u
  BY <1>1 DEF Status, StatusAt, Asked, InFlight
<1>4. \A t \in table : t.longUrl # u
  BY <1>1 DEF IInv, RowsHaveCalls
<1>5. CodeOf[u] = None /\ CodeOf' = [CodeOf EXCEPT ![u] = c]
  BY <1>1, <1>4, CodeAssigned
<1>6. \A v \in LongUrls : CodeOf[v] # c
  BY <1>1, CodeOfRow
<1>7. QED
  BY <1>2, <1>3, <1>5, <1>6 DEF Service!Assign

(* The return: the service answers with the code the table holds.          *)
LEMMA ReturnAnswers ==
  ASSUME IInv, NEW r \in Requests, Return(r)
  PROVE  Service!Answer(r)
<1>1. /\ pc[r] = "return" /\ pc' = [pc EXCEPT ![r] = "returned"]
      /\ frame' = frame /\ raw' = raw /\ table' = table
  BY DEF Return, Goto
<1>2. frame' = [frame EXCEPT ![r] = frame[r]]
  BY <1>1 DEF IInv, TypeOK
<1>3. /\ Status' = [Status EXCEPT ![r] = "answered"]
      /\ Answered' = [Answered EXCEPT ![r] = frame[r].row.code]
      /\ Asked' = Asked /\ CodeOf' = CodeOf
  <2>1. pc[r] \in InFlight
    BY <1>1 DEF InFlight
  <2>2. QED
    BY <1>1, <1>2, <2>1, OthersKeep, CodesKept
<1>4. frame[r].row \in table /\ frame[r].row.longUrl = LongUrlOf(r)
  BY <1>1, IInvAnswersStand DEF AnswersStand, HasRow
<1>5. Status[r] = "pending" /\ Asked[r] = LongUrlOf(r)
  BY <1>1 DEF Status, StatusAt, Asked, InFlight
<1>6. CodeOf[Asked[r]] = frame[r].row.code /\ CodeOf[Asked[r]] # None
  BY <1>4, <1>5, CodeOfRow
<1>7. QED
  BY <1>3, <1>5, <1>6 DEF Service!Answer

LEMMA StepRefines ==
  ASSUME IInv, NEW r \in Requests, Step(r)
  PROVE  [Service!Next]_(Service!vars)
<1>1. pc[r] \in InFlight /\ LongUrlOf(r) \in LongUrls
  <2>1. pc[r] \in InFlight
    BY DEF Step, Advance, FindByHash, ExistsByCode, Create, CreateConflicts, FindRaced, Return,
           DatabaseError, AnswerLost, InFlight
  <2>2. QED
    BY <2>1 DEF InFlight, IInv, CallsHaveUrls
<1>2. CASE FindByHash(r) \/ CreateConflicts(r)
  BY <1>2, ReadsStutter
<1>3. ASSUME NEW outcome \in {"exhausted", "failed"}, Throw(r, outcome),
             table' = table, raw' = raw
      PROVE  Service!Next
  <2>1. Service!Refuse(r)
    BY <1>1, <1>3, ThrowsRefuse
  <2>2. QED
    BY <2>1 DEF Service!Next
<1>4. CASE FindRaced(r)
  <2>1. CASE Throw(r, "exhausted")
    BY <1>3, <1>4, <2>1 DEF FindRaced
  <2>2. CASE ~Throw(r, "exhausted")
    <3>1. pc'[r] # "exhausted"
      BY <1>4, <2>2 DEF FindRaced, ReturnRow, Generate, Goto, IInv, TypeOK
    <3>2. QED
      BY <1>4, <3>1, ReadsStutter
  <2>3. QED
    BY <2>1, <2>2
<1>5. CASE Create(r)
  <2>1. LongUrlOf(r) \in LongUrls /\ frame[r].candidate \in Codes
    BY <1>1, <1>5 DEF Create, IInv, CreateHasCandidate
  <2>2. QED
    BY <1>5, <2>1, CreateAssigns DEF Service!Next
<1>6. CASE Return(r)
  BY <1>6, ReturnAnswers DEF Service!Next
<1>7. CASE DatabaseError(r) \/ AnswerLost(r)
  BY <1>3, <1>7 DEF DatabaseError, AnswerLost
<1>8. CASE \E c \in Codes : ExistsByCode(r, c)
  <2>1. PICK c \in Codes : ExistsByCode(r, c)
    BY <1>8
  <2>2. CASE Throw(r, "exhausted")
    BY <1>3, <2>1, <2>2 DEF ExistsByCode
  <2>3. CASE ~Throw(r, "exhausted")
    <3>1. pc'[r] # "exhausted"
      BY <2>1, <2>3 DEF ExistsByCode, ToCreate, Goto, IInv, TypeOK
    <3>2. QED
      BY <2>1, <3>1, ReadsStutter
  <2>4. QED
    BY <2>2, <2>3
<1>9. QED
  BY <1>2, <1>4, <1>5, <1>6, <1>7, <1>8 DEF Step, Advance

LEMMA ExecuteRefines ==
  ASSUME IInv, NEW r \in Requests, NEW u \in RawUrls, Execute(r, u)
  PROVE  Service!Next
<1>1. /\ pc[r] = "idle" /\ raw' = [raw EXCEPT ![r] = u] /\ table' = table /\ frame' = frame
      /\ pc' = [pc EXCEPT ![r] = IF NormalizedOf[u] = Invalid THEN "rejected" ELSE "findByHash"]
      /\ pc \in [Requests -> {"idle"} \cup InFlight \cup Settled]
      /\ raw \in [Requests -> RawUrls \cup {None}]
  BY DEF Execute, Goto, IInv, TypeOK
<1>2. /\ CodeOf' = CodeOf
      /\ \A s \in Requests \ {r} :
           Status'[s] = Status[s] /\ Asked'[s] = Asked[s] /\ Answered'[s] = Answered[s]
      /\ Status[r] = "idle" /\ Asked[r] = None /\ Answered[r] = None /\ Answered'[r] = None
  BY <1>1, CodesKept DEF Status, StatusAt, Asked, Answered, LongUrlOf, InFlight
<1>3. /\ Status = [s \in Requests |-> Status[s]] /\ Status' = [s \in Requests |-> Status'[s]]
      /\ Asked = [s \in Requests |-> Asked[s]] /\ Asked' = [s \in Requests |-> Asked'[s]]
      /\ Answered = [s \in Requests |-> Answered[s]]
      /\ Answered' = [s \in Requests |-> Answered'[s]]
  BY DEF Status, Asked, Answered
<1>4. CASE NormalizedOf[u] = Invalid
  <2>1. Status'[r] = "refused" /\ Asked'[r] = None
    BY <1>1, <1>4 DEF Status, StatusAt, Asked, InFlight
  <2>2. Service!Refuse(r)
    BY <1>2, <1>3, <2>1 DEF Service!Refuse
  <2>3. QED
    BY <2>2 DEF Service!Next
<1>5. CASE NormalizedOf[u] # Invalid
  <2>1. Status'[r] = "pending" /\ Asked'[r] = NormalizedOf[u]
    BY <1>1, <1>5 DEF Status, StatusAt, Asked, LongUrlOf, InFlight
  <2>2. Service!Ask(r, NormalizedOf[u])
    BY <1>2, <1>3, <2>1 DEF Service!Ask
  <2>3. NormalizedOf[u] \in LongUrls
    BY <1>5
  <2>4. QED
    BY <2>2, <2>3 DEF Service!Next
<1>6. QED
  BY <1>4, <1>5

LEMMA CrashRefines == ASSUME IInv, Crash PROVE Service!Next
<1>1. /\ pc' = [r \in Requests |-> IF pc[r] \in InFlight THEN "lost" ELSE pc[r]]
      /\ frame' = [r \in Requests |-> IF pc[r] \in InFlight THEN EmptyFrame ELSE frame[r]]
      /\ table' = table /\ raw' = raw
      /\ pc \in [Requests -> {"idle"} \cup InFlight \cup Settled]
  BY DEF Crash, IInv, TypeOK
<1>2. Asked' = Asked /\ Answered' = Answered /\ CodeOf' = CodeOf
  BY <1>1, CodesKept DEF Asked, Answered, LongUrlOf, InFlight
<1>3. \A r \in Requests : Status[r] = "pending" <=> pc[r] \in InFlight
  BY <1>1 DEF Status, StatusAt, InFlight, Settled
<1>4. Status' = [r \in Requests |-> IF Status[r] = "pending" THEN "lost" ELSE Status[r]]
  BY <1>1, <1>3 DEF Status, StatusAt, InFlight
<1>5. QED
  BY <1>2, <1>4 DEF Service!Next, Service!Crash

(* Every behaviour of the use case is one of the service.                  *)
THEOREM Refinement == SafeSpec => ServiceSafety
<1>1. IInv /\ [Next]_vars => [Service!Next]_(Service!vars)
  <2> SUFFICES ASSUME IInv, [Next]_vars PROVE [Service!Next]_(Service!vars)
    OBVIOUS
  <2>1. CASE UNCHANGED vars
    BY <2>1 DEF vars, Service!vars, CodeOf, RowsOf, Asked, Status, Answered, LongUrlOf
  <2>2. QED
    BY <2>1, StepRefines, ExecuteRefines, CrashRefines DEF Next
<1>2. QED
  BY RefinesInit, Invariance, <1>1, PTL DEF SafeSpec, ServiceSafety, Service!SafeSpec
=============================================================================
