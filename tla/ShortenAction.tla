--------------------------- MODULE ShortenAction ----------------------------
(***************************************************************************)
(* The action of applications/web/app/routes/_index.tsx: a POST passes the *)
(* rate limiter, its form is read and validated, its URL is normalised and *)
(* shortened, and each outcome is answered with a status of its own.       *)
(*                                                                         *)
(* The use case is the abstract service of ShortenService, which           *)
(* ShortenUrl implements; its URLs are the values of LongUrl.create.       *)
(***************************************************************************)
EXTENDS RateLimiter, LongUrl, TrustProxy, FiniteSets

CONSTANTS
  Posts,  \* the number of POST requests
  Forms,  \* the values of the form's url field that are submitted
  NoIp,   \* in place of the address of a request that has none
  NoForm, \* in place of a form that has not come
  Codes, LengthOf, \* short codes and their lengths
  NoCode, NoUrl,
  Environments,    \* what the process may be started with, and the
                   \* addresses of the proxies that then stand before it
  ProxyAddresses,
  Forwarders       \* the addresses that clients' own proxies may add

(* Calls are numbered in the order in which they come.                     *)
Calls == 1..Posts

(* What could be shortened, the blocked ones too.                          *)
Values == {Normalized(raw) : raw \in Forms \ {Malformed}}

ASSUME FormAssumption ==
  /\ Posts \in Nat
  /\ Forms \subseteq RawUrls
  /\ LengthOf \in [Codes -> Nat]
  /\ NoForm \notin Forms /\ NoIp \notin Keys /\ NoCode \notin Codes /\ NoUrl \notin Values

(* TRUST_PROXY counts or lists the proxies there are.                      *)
ASSUME DeploymentAssumption ==
  \A env \in Environments :
    /\ env.proxies \in Seq(ProxyAddresses)
    /\ \/ env.TRUST_PROXY \in {Unset, Blank} /\ env.proxies = <<>>
       \/ env.TRUST_PROXY \in Int /\ env.TRUST_PROXY = Len(env.proxies)
       \/ /\ env.TRUST_PROXY \in Lists /\ Keys \cap Listed[env.TRUST_PROXY] = {}
          /\ \A i \in 1..Len(env.proxies) : env.proxies[i] \in Listed[env.TRUST_PROXY]

VARIABLES
  codeLength, \* of the process's generator
  setting,    \* of Express: trust proxy
  proxies,    \* the proxies' addresses, the one that connects first
  form,   \* form[q]: the url field of call q
  stage,  \* stage[q]: "idle", "reading", "shortening", "settled" or "cut"
  reply,  \* reply[q]: the status it was answered with, 0 before
  made,   \* made[k]: the calls k has made since its bucket was created
  since   \* since[k]: the clock when that was

VARIABLES codeOf, asked, status, answer

Service == INSTANCE ShortenService WITH Requests <- Calls, LongUrls <- Values

limiter == <<now, buckets, order>>
config  == <<codeLength, setting, proxies>>
served  == <<codeOf, asked, status, answer>>
calls   == <<form, stage, reply>>
history == <<made, since>>
all     == <<config, limiter, served, calls, history>>

(* The process was started with env.                                       *)
StartedWith(env) ==
  /\ codeLength = ShortCodeLength(env)
  /\ setting = ParseTrustProxy(env.TRUST_PROXY)
  /\ proxies = env.proxies

AInit ==
  /\ Init
  /\ Service!Init
  /\ \E env \in Environments : StartedWith(env)
  /\ form = [q \in Calls |-> NoForm]
  /\ stage = [q \in Calls |-> "idle"]
  /\ reply = [q \in Calls |-> 0]
  /\ made = [k \in Keys |-> {}]
  /\ since = [k \in Keys |-> 0]

Moves(q, to) == stage' = [stage EXCEPT ![q] = to]

Replies(q, http) ==
  /\ Moves(q, "settled")
  /\ reply' = [reply EXCEPT ![q] = http]

(***************************************************************************)
(* Up to the form                                                          *)
(***************************************************************************)
Arrives(q, raw) ==
  /\ stage[q] = "idle" /\ \A p \in 1..(q - 1) : stage[p] # "idle"
  /\ form' = [form EXCEPT ![q] = raw]
  /\ UNCHANGED <<config, served>>

(* clientIpFrom found no address: the limiter is not asked.                *)
FailsOpen(q) ==
  /\ Moves(q, "reading")
  /\ UNCHANGED <<config, limiter, history, reply>>

Counted(q, k) ==
  /\ made' = [made EXCEPT ![k] = {q} \cup (IF buckets[k] = Absent THEN {} ELSE @)]
  /\ since' = [since EXCEPT ![k] = IF buckets[k] = Absent THEN now ELSE @]

(* shortenRateLimiter.take(clientIp)                                       *)
Limited(q, clientIp) ==
  /\ Take(clientIp)
  /\ IF Admits(clientIp) THEN Moves(q, "reading") /\ UNCHANGED reply ELSE Replies(q, 429)

(* A call of client k, whose request has come by the forwarders its own    *)
(* proxies named and then by those that stand before the server; or of     *)
(* nobody known, from a socket without an address.                         *)
Post(q, k, forwarded, raw) ==
  /\ Arrives(q, raw)
  /\ IF k = NoIp THEN FailsOpen(q)
     ELSE /\ Limited(q, ReqIp(setting, proxies \o <<k>> \o forwarded))
          /\ Counted(q, k)

(***************************************************************************)
(* Once the form is there                                                  *)
(***************************************************************************)
(* shortenSchema: a URL, of an allowed scheme.                             *)
PassesSchema(raw) == raw # Malformed /\ LowerCase[raw.scheme] \in ALLOWED_SCHEMES

Asks(q) ==
  /\ Moves(q, "shortening")
  /\ Service!Ask(q, Create(form[q]))
  /\ UNCHANGED reply

\* Mutant: the use case is called before the schema is looked at.
FormReadTooLate(q) ==
  /\ stage[q] = "reading"
  /\ form[q] # Malformed
  /\ IF PassesSchema(form[q]) /\ Accepts(form[q]) THEN Asks(q)
     ELSE Replies(q, 400) /\ Service!Ask(q, Normalized(form[q]))
  /\ UNCHANGED <<config, limiter, history, form>>

(* request.formData resolves.  LongUrl.create runs before the use case     *)
(* waits for anything; its two errors are answered alike.                  *)
FormRead(q) ==
  /\ stage[q] = "reading"
  /\ IF PassesSchema(form[q]) /\ Accepts(form[q]) THEN Asks(q)
     ELSE Replies(q, 400) /\ UNCHANGED served
  /\ UNCHANGED <<config, limiter, history, form>>

(* request.formData rejects, and the action with it.                       *)
FormFails(q) ==
  /\ stage[q] = "reading"
  /\ Replies(q, 500)
  /\ UNCHANGED <<config, limiter, history, form, served>>

(***************************************************************************)
(* engine.shortenUrl                                                       *)
(***************************************************************************)
(* The use case inserts a row with a code of its generator.                *)
Inserts(u, c) ==
  /\ LengthOf[c] = codeLength
  /\ Service!Assign(u, c)
  /\ UNCHANGED <<config, limiter, history, calls>>

Shortened(q) ==
  /\ stage[q] = "shortening"
  /\ Service!Answer(q)
  /\ Replies(q, 200)
  /\ UNCHANGED <<config, limiter, history, form>>

\* Mutant: only exhaustion is ever reported.
FailsIfExhausted(q) ==
  /\ stage[q] = "shortening"
  /\ \A c \in Codes : \E u \in Values : codeOf[u] = c
  /\ Service!Refuse(q)
  /\ Replies(q, 503)
  /\ UNCHANGED <<config, limiter, history, form>>

(* CodeGenerationExhaustedError is answered 503, any other error thrown.   *)
Fails(q) ==
  /\ stage[q] = "shortening"
  /\ Service!Refuse(q)
  /\ \E http \in {500, 503} : Replies(q, http)
  /\ UNCHANGED <<config, limiter, history, form>>

(***************************************************************************)
(* The process and the clock                                               *)
(***************************************************************************)
(* The process dies and starts again: the Map is empty, the table as it    *)
(* was, and createEngine reads another environment.                        *)
Crash(env) ==
  /\ Service!Crash
  /\ codeLength' = ShortCodeLength(env)
  /\ setting' = ParseTrustProxy(env.TRUST_PROXY) /\ proxies' = env.proxies
  /\ buckets' = [k \in Keys |-> Absent]
  /\ order' = <<>>
  /\ stage' = [q \in Calls |-> IF stage[q] \in {"reading", "shortening"}
                               THEN "cut" ELSE stage[q]]
  /\ UNCHANGED <<now, history, form, reply>>

ClockIsSet(t) ==
  /\ SetClock(t)
  /\ UNCHANGED <<config, history, calls, served>>

Advance(q) == FormRead(q) \/ FormFails(q) \/ Shortened(q) \/ Fails(q)

ANext ==
  \/ \E q \in Calls : \/ \E k \in Keys \cup {NoIp}, raw \in Forms :
                           \E forwarded \in {<<>>} \cup {<<f>> : f \in Forwarders} :
                             Post(q, k, forwarded, raw)
                      \/ Advance(q)
  \/ \E u \in Values, c \in Codes : Inserts(u, c)
  \/ \E env \in Environments : Crash(env)
  \/ \E t \in 0..MaxTime : ClockIsSet(t)

ASafeSpec == AInit /\ [][ANext]_all

(* Node ends a request whose body does not come, and the use case settles. *)
ASpec == ASafeSpec /\ \A q \in Calls : WF_all(Advance(q))

(***************************************************************************)
(* Properties                                                              *)
(***************************************************************************)
ATypeOK ==
  /\ codeLength \in Nat
  /\ form \in [Calls -> Forms \cup {NoForm}]
  /\ stage \in [Calls -> {"idle", "reading", "shortening", "settled", "cut"}]
  /\ reply \in [Calls -> {0, 200, 400, 429, 500, 503}]
  /\ made \in [Keys -> SUBSET Calls] /\ since \in [Keys -> 0..MaxTime]

(* What the call is told and what the service knows of it agree: a code    *)
(* was given exactly to the calls answered 200, nobody waits for a process *)
(* that is gone, and those turned away never reached the use case.         *)
StagesMatch ==
  \A q \in Calls :
    /\ stage[q] = "shortening" <=> status[q] = "pending"
    /\ reply[q] = 200 <=> status[q] = "answered"
    /\ reply[q] \in {400, 429} => status[q] = "idle"
    /\ reply[q] # 0 <=> stage[q] = "settled"

(* Every code has a character, so that /s/:code can name it, whatever      *)
(* environments the process was started with.                              *)
CodesAreUsable ==
  \A u \in Values : codeOf[u] # NoCode => LengthOf[codeOf[u]] > 0

(* Two answered calls were given one code exactly when the strings they    *)
(* submitted mean the same URL, however they spell it, whichever of them   *)
(* came first and however often the process was restarted in between.      *)
SpellingsShareACode ==
  \A p, q \in Calls :
    reply[p] = 200 /\ reply[q] = 200 =>
      (answer[p] = answer[q] <=> Meaning(form[p]) = Meaning(form[q]))

Granted(k) == {q \in made[k] : reply[q] # 429}

(* While a client's bucket is kept, no more of its calls get past the      *)
(* limiter, to a form and a use case, than a full bucket and the clock     *)
(* allow: every POST costs a token, of the client's own bucket whatever it *)
(* is forwarded by, and a 429 ends it.                                     *)
QuotaHolds ==
  \A k \in Tracked :
    Cardinality(Granted(k)) * TokenCost <= Full + (buckets[k].lastRefill - since[k])

(* Every row was inserted for a call that was not answered 400 or 429.     *)
RowsHaveSponsors ==
  \A u \in Values :
    codeOf[u] # NoCode =>
      \E q \in Calls : asked[q] = u /\ reply[q] \notin {400, 429}

(***************************************************************************)
(* The inductive invariant behind these                                    *)
(***************************************************************************)
ServiceTypeOK ==
  /\ codeOf \in [Values -> Codes \cup {NoCode}]
  /\ asked \in [Calls -> Values \cup {NoUrl}]
  /\ status \in [Calls -> {"idle", "pending", "answered", "refused", "lost"}]
  /\ answer \in [Calls -> Codes \cup {NoCode}]

(* The use case is asked once, for what a form that is accepted normalises *)
(* to, and what it answers is in the table.                                *)
FormsAreAsked ==
  \A q \in Calls :
    /\ stage[q] # "idle" => form[q] \in Forms
    /\ stage[q] \in {"idle", "reading"} => status[q] = "idle"
    /\ status[q] # "idle" => Accepts(form[q]) /\ asked[q] = Create(form[q])
    /\ status[q] = "answered" => answer[q] = codeOf[asked[q]] /\ answer[q] # NoCode

(* No two URLs have one code, and each that has one was asked for.         *)
CodesAreAssigned ==
  \A u \in Values : codeOf[u] # NoCode =>
    /\ \A v \in Values : codeOf[v] = codeOf[u] => v = u
    /\ \E q \in Calls : asked[q] = u /\ status[q] # "idle"

(* What was granted and what is left never exceed what there was.          *)
TokensAreKept ==
  /\ \A k \in Keys : \A q \in made[k] : stage[q] # "idle"
  /\ \A k \in Tracked :
       /\ since[k] <= buckets[k].lastRefill
       /\ Cardinality(Granted(k)) * TokenCost + buckets[k].tokens
            <= Full + (buckets[k].lastRefill - since[k])

AInv ==
  /\ ATypeOK /\ StagesMatch /\ CodesAreUsable
  /\ \E env \in Environments : StartedWith(env)
  /\ IInv /\ ServiceTypeOK /\ FormsAreAsked /\ CodesAreAssigned /\ TokensAreKept

(* Every POST is answered, unless the process dies.                        *)
CallsAreSettled ==
  \A q \in Calls : stage[q] = "reading" ~> stage[q] \in {"settled", "cut"}
=============================================================================
