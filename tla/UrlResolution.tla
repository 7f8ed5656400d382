--------------------------- MODULE UrlResolution ----------------------------
(***************************************************************************)
(* What resolving a code promises, with no cache, eviction, read or clock  *)
(* in sight: a table whose rows stay and may be retargeted, and lookups    *)
(* that are each answered with what their code's row held when they were   *)
(* called or, if answers expire, no longer than `slack` before that; with  *)
(* null only if there was no row; or with an error.                        *)
(***************************************************************************)
EXTENDS Integers

CONSTANTS Lookups, Codes, LongUrls, None,
          Expires \* whether there is a bound on the age of answers

VARIABLES
  target,   \* target[c]: the URL of the row with code c, None without
  former,   \* former[c]: the URLs it had before, and until when
  now,      \* the time
  slack,    \* the bound on the age of answers
  status,   \* status[l]: "idle", "pending", "answered" or "failed"
  code, started, existed, \* its argument, when it was called, and whether
                          \* the row was there then
  answer    \* answer[l]: the URL it was given, or None

vars == <<target, former, now, slack, status, code, started, existed, answer>>

(* u was the target of c at time t or later.                               *)
WasTarget(c, u, t) ==
  u = target[c] \/ \E f \in former[c] : f.url = u /\ t <= f.until

MayAnswer(c, u, t) == WasTarget(c, u, IF Expires THEN t - slack ELSE 0)

Init ==
  /\ target \in [Codes -> LongUrls \cup {None}]
  /\ former = [c \in Codes |-> {}]
  /\ now = 0 /\ slack \in Nat
  /\ status = [l \in Lookups |-> "idle"]
  /\ code = [l \in Lookups |-> None]
  /\ started = [l \in Lookups |-> 0]
  /\ existed = [l \in Lookups |-> FALSE]
  /\ answer = [l \in Lookups |-> None]

AnsweredWith(l, u) ==
  /\ status' = [status EXCEPT ![l] = "answered"]
  /\ answer' = [answer EXCEPT ![l] = u]

(* The answer may come at once, or later.                                  *)
Ask(l, c) ==
  /\ status[l] = "idle"
  /\ code' = [code EXCEPT ![l] = c]
  /\ started' = [started EXCEPT ![l] = now]
  /\ existed' = [existed EXCEPT ![l] = target[c] # None]
  /\ \/ status' = [status EXCEPT ![l] = "pending"] /\ UNCHANGED answer
     \/ \E u \in LongUrls : MayAnswer(c, u, now) /\ AnsweredWith(l, u)
  /\ UNCHANGED <<target, former, now, slack>>

Settle(l) ==
  /\ status[l] = "pending"
  /\ \/ \E u \in LongUrls : MayAnswer(code[l], u, started[l]) /\ AnsweredWith(l, u)
     \/ ~existed[l] /\ AnsweredWith(l, None)
     \/ status' = [status EXCEPT ![l] = "failed"] /\ UNCHANGED answer
  /\ UNCHANGED <<target, former, now, slack, code, started, existed>>

(* The caller takes the answer.                                            *)
Deliver(l) ==
  /\ status[l] \in {"answered", "failed"}
  /\ status' = [status EXCEPT ![l] = "idle"]
  /\ code' = [code EXCEPT ![l] = None]
  /\ started' = [started EXCEPT ![l] = 0]
  /\ existed' = [existed EXCEPT ![l] = FALSE]
  /\ answer' = [answer EXCEPT ![l] = None]
  /\ UNCHANGED <<target, former, now, slack>>

Replaced(c) == IF target[c] = None THEN {} ELSE {[url |-> target[c], until |-> now]}

(* A row gets its first or another target.                                 *)
Change(c, u) ==
  /\ target[c] # u
  /\ target' = [target EXCEPT ![c] = u]
  /\ former' = [former EXCEPT ![c] = {f \in @ : f.url \notin {u, target[c]}} \cup Replaced(c)]
  /\ UNCHANGED <<now, slack, status, code, started, existed, answer>>

TimePasses ==
  /\ now' = now + 1
  /\ UNCHANGED <<target, former, slack, status, code, started, existed, answer>>

(* The slack has to cover more.                                            *)
Loosen ==
  /\ slack' = slack + 1
  /\ UNCHANGED <<target, former, now, status, code, started, existed, answer>>

Restart ==
  /\ status' = [l \in Lookups |-> "idle"]
  /\ code' = [l \in Lookups |-> None]
  /\ started' = [l \in Lookups |-> 0]
  /\ existed' = [l \in Lookups |-> FALSE]
  /\ answer' = [l \in Lookups |-> None]
  /\ UNCHANGED <<target, former, now, slack>>

Next ==
  \/ TimePasses \/ Loosen
  \/ \E l \in Lookups : Settle(l) \/ Deliver(l) \/ \E c \in Codes : Ask(l, c)
  \/ \E c \in Codes, u \in LongUrls : Change(c, u)
  \/ Restart

Spec == Init /\ [][Next]_vars
=============================================================================
