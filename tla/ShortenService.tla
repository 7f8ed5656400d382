--------------------------- MODULE ShortenService ---------------------------
(***************************************************************************)
(* What shortening promises, with no generator, retry, index or race in    *)
(* sight: a table from long URLs to short codes that only grows and never  *)
(* gives one code to two URLs, and requests that are each answered from    *)
(* that table, refused, or cut off by a crash of the server.               *)
(***************************************************************************)
CONSTANTS Requests, LongUrls, Codes, NoCode, NoUrl

VARIABLES
  codeOf,   \* codeOf[u]: the code of long URL u, NoCode until it has one
  asked,    \* asked[r]: the URL request r wants shortened, NoUrl before
  status,   \* status[r]: "idle", "pending", "answered", "refused" or "lost"
  answer    \* answer[r]: the code request r was given

vars == <<codeOf, asked, status, answer>>

Init ==
  /\ codeOf = [u \in LongUrls |-> NoCode]
  /\ asked  = [r \in Requests |-> NoUrl]
  /\ status = [r \in Requests |-> "idle"]
  /\ answer = [r \in Requests |-> NoCode]

Ask(r, u) ==
  /\ status[r] = "idle"
  /\ asked'  = [asked EXCEPT ![r] = u]
  /\ status' = [status EXCEPT ![r] = "pending"]
  /\ UNCHANGED <<codeOf, answer>>

(* A URL gets its code once, while somebody waits for it, and the code is  *)
(* one that no other URL has.                                              *)
Assign(u, c) ==
  /\ \E r \in Requests : status[r] = "pending" /\ asked[r] = u
  /\ codeOf[u] = NoCode
  /\ \A v \in LongUrls : codeOf[v] # c
  /\ codeOf' = [codeOf EXCEPT ![u] = c]
  /\ UNCHANGED <<asked, status, answer>>

Answer(r) ==
  /\ status[r] = "pending"
  /\ codeOf[asked[r]] # NoCode
  /\ answer' = [answer EXCEPT ![r] = codeOf[asked[r]]]
  /\ status' = [status EXCEPT ![r] = "answered"]
  /\ UNCHANGED <<codeOf, asked>>

Refuse(r) ==
  /\ status[r] \in {"idle", "pending"}
  /\ status' = [status EXCEPT ![r] = "refused"]
  /\ UNCHANGED <<codeOf, asked, answer>>

(* A crash cuts off everyone who waits; the table survives.                *)
Crash ==
  /\ status' = [r \in Requests |->
                  IF status[r] = "pending" THEN "lost" ELSE status[r]]
  /\ UNCHANGED <<codeOf, asked, answer>>

Next ==
  \/ \E r \in Requests : \/ \E u \in LongUrls : Ask(r, u)
                         \/ Answer(r)
                         \/ Refuse(r)
  \/ \E u \in LongUrls, c \in Codes : Assign(u, c)
  \/ Crash

SafeSpec == Init /\ [][Next]_vars

(* Nobody waits for ever.                                                  *)
Settles == \A r \in Requests :
             WF_vars(status[r] = "pending" /\ (Answer(r) \/ Refuse(r)))

Spec == SafeSpec /\ Settles
=============================================================================
