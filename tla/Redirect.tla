------------------------------ MODULE Redirect ------------------------------
(***************************************************************************)
(* Visits of /s/:code: the loader of applications/web/app/routes/s.$code   *)
(* resolves the code through the cache, answers, and leaves a click behind *)
(* that nobody waits for.                                                  *)
(*                                                                         *)
(* The time of a click is taken when the update is issued; the database    *)
(* runs concurrent updates in any order, and may reject one, or reject it  *)
(* though it was committed.  The rows' statistics outlive a crash of the   *)
(* server; visits and clicks under way do not.                             *)
(***************************************************************************)
EXTENDS CachingUrlRepository

CONSTANTS
  Malformed,  \* path parameters that ShortCode.create refuses
  MaxRestarts \* bound on the number of crashes

ASSUME VisitAssumption ==
  /\ Malformed \cap Codes = {} /\ None \notin Malformed \cup Codes \cup Int
  /\ MaxRestarts \in Nat /\ IsFiniteSet(Lookups)

Visits == Lookups

VARIABLES
  asked,         \* asked[v]: the path parameter of visit v, None before
  response,      \* response[v]: "none", "redirect", "notFound", "error" or "lost"
  click,         \* click[v]: "none", "issued", "committed", "recorded",
                 \* "logged" or "lost"
  clickedAt,     \* clickedAt[v]: new Date() when its click was issued
  clickCount,    \* column clickCount of the row with each code
  lastClickedAt, \* column lastClickedAt
  restarts       \* number of crashes

stats == <<click, clickedAt, clickCount, lastClickedAt>>
rvars == <<vars, asked, response, stats, restarts>>

RInit ==
  /\ Init
  /\ asked = [v \in Visits |-> None]
  /\ response = [v \in Visits |-> "none"]
  /\ click = [v \in Visits |-> "none"]
  /\ clickedAt = [v \in Visits |-> 0]
  /\ clickCount = [c \in Codes |-> 0]
  /\ lastClickedAt = [c \in Codes |-> None]
  /\ restarts = 0

(***************************************************************************)
(* loader                                                                  *)
(***************************************************************************)
Begin(v, word) ==
  /\ asked[v] = None
  /\ asked' = [asked EXCEPT ![v] = word]
  /\ UNCHANGED <<clickCount, lastClickedAt, restarts>>

IssueClick(v) ==
  /\ click' = [click EXCEPT ![v] = "issued"]
  /\ clickedAt' = [clickedAt EXCEPT ![v] = DateNow]

\* Mutant: the click is recorded before the code is resolved.
VisitClicksFirst(v, c) ==
  /\ Begin(v, c)
  /\ FindByCode(v, c) \/ CacheReadFails(v, c)
  /\ IssueClick(v)
  /\ UNCHANGED response

(* ResolveUrlUseCase.execute with a well-formed code: findByCode is called *)
Visit(v, c) ==
  /\ Begin(v, c)
  /\ FindByCode(v, c) \/ CacheReadFails(v, c)
  /\ UNCHANGED <<response, click, clickedAt>>

(* A malformed code is not found, without asking the repository.           *)
VisitMalformed(v, word) ==
  /\ Begin(v, word)
  /\ response' = [response EXCEPT ![v] = "notFound"]
  /\ UNCHANGED <<vars, click, clickedAt>>

Resolve(v) ==
  /\ LookupStep(v)
  /\ UNCHANGED <<asked, response, stats, restarts>>

Respond(v, label, with) ==
  /\ pc[v] = label
  /\ Delivered(v)
  /\ response' = [response EXCEPT ![v] = with]
  /\ UNCHANGED <<asked, clickCount, lastClickedAt, restarts>>

\* Mutant: the loader awaits the click before it answers.
RedirectAfterClick(v) ==
  \/ /\ pc[v] = "found" /\ click[v] = "none"
     /\ IssueClick(v)
     /\ UNCHANGED <<vars, asked, response, clickCount, lastClickedAt, restarts>>
  \/ /\ click[v] \in {"recorded", "logged"}
     /\ Respond(v, "found", "redirect")
     /\ UNCHANGED <<click, clickedAt>>

(* The redirect is built and the click left to itself.                     *)
RedirectAndClick(v) ==
  /\ Respond(v, "found", "redirect")
  /\ IssueClick(v)

NotFound(v) ==
  /\ Respond(v, "missing", "notFound")
  /\ UNCHANGED <<click, clickedAt>>

Rethrow(v) ==
  /\ Respond(v, "failed", "error")
  /\ UNCHANGED <<click, clickedAt>>

(***************************************************************************)
(* incrementClicks                                                         *)
(***************************************************************************)
ClickUnchanged ==
  UNCHANGED <<vars, asked, clickedAt, restarts>>

(* One UPDATE adds one to the count and stores the time it was given.      *)
ClickCommits(v) ==
  /\ click[v] = "issued"
  /\ click' = [click EXCEPT ![v] = "committed"]
  /\ clickCount' = [clickCount EXCEPT ![asked[v]] = @ + 1]
  /\ lastClickedAt' = [lastClickedAt EXCEPT ![asked[v]] = clickedAt[v]]
  /\ ClickUnchanged /\ UNCHANGED response

\* Mutant: an update whose answer is lost is issued again.
ClickRetried(v) ==
  /\ click[v] = "committed"
  /\ \E next \in {"recorded", "issued"} : click' = [click EXCEPT ![v] = next]
  /\ ClickUnchanged /\ UNCHANGED <<response, clickCount, lastClickedAt>>

ClickSucceeds(v) ==
  /\ click[v] = "committed"
  /\ click' = [click EXCEPT ![v] = "recorded"]
  /\ ClickUnchanged /\ UNCHANGED <<response, clickCount, lastClickedAt>>

\* Mutant: without .catch, the rejection ends the process.
ClickUncaught(v) ==
  /\ click[v] \in {"issued", "committed"}
  /\ click' = [click EXCEPT ![v] = "logged"]
  /\ response' = [w \in Visits |->
                    IF asked[w] # None /\ response[w] = "none" THEN "lost"
                    ELSE response[w]]
  /\ ClickUnchanged /\ UNCHANGED <<clickCount, lastClickedAt>>

(* The update is rejected, committed or not, and the rejection is logged.  *)
ClickFails(v) ==
  /\ click[v] \in {"issued", "committed"}
  /\ click' = [click EXCEPT ![v] = "logged"]
  /\ ClickUnchanged /\ UNCHANGED <<response, clickCount, lastClickedAt>>

(***************************************************************************)
(* Around the visits                                                       *)
(***************************************************************************)
(* The server crashes and starts again.                                    *)
Crash ==
  /\ restarts < MaxRestarts
  /\ Restart
  /\ restarts' = restarts + 1
  /\ response' = [v \in Visits |->
                    IF asked[v] # None /\ response[v] = "none" THEN "lost"
                    ELSE response[v]]
  /\ click' = [v \in Visits |->
                 IF click[v] \in {"issued", "committed"} THEN "lost"
                 ELSE click[v]]
  /\ UNCHANGED <<asked, clickedAt, clickCount, lastClickedAt>>

Meanwhile ==
  /\ \/ \E c \in Codes, u \in LongUrls : Change(c, u)
     \/ Tick
     \/ SetBack
  /\ UNCHANGED <<asked, response, stats, restarts>>

(* What a visit does once it has begun.                                    *)
VisitStep(v) == Resolve(v) \/ RedirectAndClick(v) \/ NotFound(v) \/ Rethrow(v)

ClickStep(v) == ClickCommits(v) \/ ClickSucceeds(v) \/ ClickFails(v)

RNext ==
  \/ \E v \in Visits : \/ \E c \in Codes : Visit(v, c)
                       \/ \E word \in Malformed : VisitMalformed(v, word)
                       \/ VisitStep(v)
                       \/ ClickStep(v)
  \/ Crash
  \/ Meanwhile

RSafeSpec == RInit /\ [][RNext]_rvars

(* The table answers every lookup and the event loop runs every visit on.  *)
(* Nothing is assumed of the updates: a click may hang for ever.           *)
RSpec == RSafeSpec /\ \A v \in Visits : WF_rvars(VisitStep(v))

(***************************************************************************)
(* Properties                                                              *)
(***************************************************************************)
RTypeOK ==
  /\ asked \in [Visits -> Codes \cup Malformed \cup {None}]
  /\ response \in [Visits -> {"none", "redirect", "notFound", "error", "lost"}]
  /\ click \in [Visits -> {"none", "issued", "committed", "recorded", "logged", "lost"}]
  /\ clickedAt \in [Visits -> (0 - MaxLag)..MaxTime]
  /\ clickCount \in [Codes -> Nat]
  /\ lastClickedAt \in [Codes -> ((0 - MaxLag)..MaxTime) \cup {None}]
  /\ restarts \in 0..MaxRestarts

Redirected(c) == {v \in Visits : asked[v] = c /\ response[v] = "redirect"}

Counted(c) == {v \in Redirected(c) : click[v] \in {"committed", "recorded"}}

(* A code's count lies between the clicks known to be committed and the    *)
(* redirects that were answered: no visit counts twice, none counts that   *)
(* got no redirect, and concurrent clicks do not overwrite each other.     *)
(* The time of the last click is the time of one of the redirects, or null *)
(* exactly when the count is 0.                                            *)
CountsAreVisits ==
  \A c \in Codes :
    /\ Cardinality(Counted(c)) <= clickCount[c]
    /\ clickCount[c] <= Cardinality(Redirected(c))
    /\ clickCount[c] = 0 <=> lastClickedAt[c] = None
    /\ clickCount[c] # 0 => \E v \in Redirected(c) : lastClickedAt[c] = clickedAt[v]

(* A click that fails costs no other visit its answer.                     *)
OnlyCrashesLoseVisits ==
  restarts = 0 => \A v \in Visits : response[v] # "lost"

(* Behind the two: who is on its way has no answer yet, who has a click    *)
(* its redirect, and a click that is issued is yet to count.               *)
AnswersComeOnce ==
  \A v \in Visits :
    /\ pc[v] # "idle" => asked[v] \in Codes /\ response[v] = "none"
    /\ response[v] = "redirect" => asked[v] \in Codes
    /\ asked[v] = None => response[v] = "none"
    /\ response[v] = "redirect" <=> click[v] # "none"

Beyond(c) == {v \in Redirected(c) : click[v] # "issued"}

CountsAreBeyond ==
  \A c \in Codes : clickCount[c] <= Cardinality(Beyond(c))

RInv ==
  /\ IInv /\ RTypeOK /\ AnswersComeOnce /\ CountsAreBeyond
  /\ CountsAreVisits /\ OnlyCrashesLoseVisits

(* Every visit is answered, however long its click or any other takes.     *)
VisitsAreAnswered ==
  \A v \in Visits : asked[v] # None ~> response[v] # "none"

(* Of the clicks that were counted, the latest is the one remembered.      *)
LastClickIsLatest ==
  \A c \in Codes : \A v \in Counted(c) :
    lastClickedAt[c] # None /\ lastClickedAt[c] >= clickedAt[v]
=============================================================================
