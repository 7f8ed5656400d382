# Verification of the URL shortener

TLA+ modules that model this repository's server and the scripts of its pages, TLC configurations
that check them on small instances, and TLAPS proofs of the properties that
matter most for instances of any size. `PROJECT.json` lists components, runs,
mutants, the source lines each definition models, hazards, findings and
theorems.

## The system

| component | state it keeps | operations | talks to |
|---|---|---|---|
| Shortening: `ShortenUrlUseCase`, `ShortCodeGenerator`, `PrismaUrlRepository`, the `Url` table | rows with unique `code` and `urlHash`; the locals of each call | `execute(rawUrl)` | LongUrl, the table; called by the shorten action |
| Rate limiter: `createRateLimiter` | a Map of token buckets with an insertion order | `take(key)` | `Date.now`; called by the shorten action |
| Redirect cache: `CachingUrlRepository` over lru-cache | entries with their age and recency | `findByCode`, the rest delegates | the table, `Date`; called by `ResolveUrlUseCase` |
| Redirect and clicks: the loader of `/s/:code`, `ResolveUrlUseCase`, `RecordClickUseCase` | `clickCount`, `lastClickedAt`; clicks under way | `loader`, `incrementClicks` | the cache, the table |
| Server lifecycle: `server.ts`, `prisma-client.ts` | open connections, timers, the Prisma client | the signal handler, `disconnectPrismaClient` | `node:http`, the process |
| URL normalisation: `LongUrl` | none | `create` | WHATWG URL, ipaddr.js |
| Engine configuration: `composition-root.ts` | none after the start | `createEngine` | the environment |
| Shorten action: `_index.tsx` | the limiter | `action` | limiter, zod, engine |
| Proxy trust: `trust-proxy.server.ts`, `load-context.server.ts` | none after the start | `parseTrustProxy`, `clientIpFrom` | Express; gives the limiter its key |
| Security headers: `security-headers.server.ts`, `createApp`, `root.tsx` | a nonce per response | the middleware, `buildLoadContext`, the root loader | Express, the document |
| Streaming render: `entry.server.tsx` | a promise, a timer, a stream per request | `handleRequest` | React DOM |
| Copy button, theme toggle | component state, timers, `localStorage` | clicks | the browser |
| Listing: `urls.tsx`, `url-card.tsx` | what a page that stays shows | the loader, the cards, the error boundary | the table |
| In-memory repository: the fake the tests inject | two Maps of the same records | the port's six operations | used in place of the table |
| Markup, schema and migrations | the table's columns and indices | | |

Everything runs in one Node process over one SQLite file. Concurrency is that
of the event loop: calls interleave at their `await`s, and the database runs
the statements of several connections one at a time, in an order nobody
controls. The process may be killed at any time and only the table survives.

What is hard in it: races between the look-ups and the inserts of concurrent
shortenings; retry loops inside retry loops; a unique violation that does not
say which index it was; cached values that were read before they changed;
clicks nobody waits for; pages that stay while the table changes; two Maps that
must agree; nonces of requests that overlap; wall clocks used as if they were monotonic; a shutdown
that must wait, but not for ever.

## Modules

| module | models |
|---|---|
| `ShortenService` | what shortening promises: a table from URLs to codes that only grows; each request answered from it, refused, or cut off by a crash |
| `ShortenUrl` | concurrent `execute` calls, one action per repository statement |
| `MCShortenUrl` | the instance checked |
| `ShortenUrlProofs` | its invariants and its refinement of `ShortenService`, proved |
| `RateLimiter` | the limiter: `Take` is `take`, `SetClock` is `Date.now` moving either way |
| `RateLimiterPromise` | one client's history beside the limiter, compared with a bucket nobody evicts |
| `RateLimiterProofs` | the invariants of both, proved |
| `UrlResolution` | what resolving a code promises: answers of a bounded age, null only where there was no row |
| `CachingUrlRepository` | concurrent `findByCode` calls, lru-cache, rows created and retargeted |
| `MCCachingUrlRepository` | the instance checked, with its symmetries |
| `Redirect` | the loader and the click path, composed with `CachingUrlRepository` |
| `RedirectProofs` | proved of the cache: its invariant, the absence of negative caching, the bound on its size, and its refinement of `UrlResolution`; proved of `Redirect`: that visits use the cache and are resolved as it promises, their statistics and answers |
| `UrlRepository` | what the port promises: one table of rows, six operations, two errors |
| `InMemoryUrlRepository` | the fake's two Maps, one action per method |
| `UrlPages` | the form's result and `/urls`, in pages that stay |
| `UrlPagesProofs` | the fake's invariant, its refinement of the port, and what pages show, proved |
| `GracefulShutdown` | the process from its first request to its exit |
| `GracefulShutdownProofs` | its safety properties, proved |
| `LongUrl` | `LongUrl.create` as a function of a URL's written parts |
| `Normalization` | strings submitted side by side, stored values submitted again |
| `MCLongUrl` | the instance checked, with the four forms that embed IPv4 in IPv6 |
| `NormalizationProofs` | spellings, stability and embedded addresses, proved |
| `EngineConfig` | what `createEngine` reads from the environment |
| `TrustProxy` | `TRUST_PROXY`, and `req.ip` under it |
| `ShortenAction` | the POST: `RateLimiter`, `LongUrl`, `EngineConfig`, `TrustProxy` and an instance of `ShortenService` composed |
| `MCShortenAction` | the instance checked |
| `ShortenActionProofs` | its invariant and safety properties, and that it uses the service as that allows, proved |
| `Document` | a request up to its render: middleware, load context, root loader |
| `StreamRender` | one request through `handleRequest` and `handleError` |
| `ThemeToggle` | the stored theme, the displayed one and the button's |
| `CopyButton` | overlapping clicks, writes and timers |
| `Page` | visits of one tab: `Document`, `StreamRender`, then `ThemeToggle` and `CopyButton` in the page they sent |
| `PageProofs` | its safety properties, proved |

### Shortening

`pc[r]` is the statement request `r` waits for, `frame[r]` its locals; the
action that models a statement does everything the code does from the answer to
that statement to the next `await` (`FindByHash`, `ExistsByCode`, `Create` or
`CreateConflicts`, `FindRaced`, `Return`). `ExistsByCode` is one turn of the
generator's loop. `DatabaseError` rejects any statement with something other
than P2002; `AnswerLost` rejects an insert that was committed; `Crash` ends the
calls and keeps the table. `LongUrl.create` is the constant `NormalizedOf` here
(`LongUrl` models it), and SHA-256 is injective by assumption
(`HashAssumption`).

`ServiceSafety` and `ServiceSpec` are the refinement: a URL has a code once a
row holds it. Under the mapping `Create` is `Assign`, `Return` is `Answer`,
every failure is `Refuse`, and the rest stutters.

Fairness: `WF(Advance(r))`, the steps without an error. The event loop resumes every call whose statement is
answered, and every statement is answered or rejected. Nothing makes a random
candidate free, so liveness rests on the two bounds alone.

### Rate limiter

One token is `TokenCost` ticks of refill, so the code's floating point becomes
integers; rounding is abstracted away. `RateLimiterPromise` watches one
arbitrary client: `NeverBehind` (it was admitted at least as often as a bucket
of its own would have admitted it, whatever is evicted and however the clock is
set) and `RateHolds` (while its bucket is kept, it was granted at most a full
bucket plus the ticks since). Eviction does grant a client a new full bucket,
which is why `RateHolds` speaks of the bucket's lifetime.

### Redirect cache

A lookup has up to three steps: `FindByCode` (the cache's `get`, then either the
answer or the inner call), `TableAnswers` (the moment the database reads) and
`Resume` (the cache's `set` and the answer). `lag` is by how much `Date` has
been set back. `former[c]` is history: the URLs that row `c` had before, and
until when.

`ResolutionSafety` is the refinement of `UrlResolution`, which knows no cache,
eviction, read or clock of the process. It gives the exact age of an answer: the
code's target when the lookup was called, or one it had until at most ttl, plus
the latency of one inner read, plus the setback of `Date` before the call. The
comment at `caching-url-repository.ts:66-70` takes that setback for zero. Under
the mapping a hit is `Ask` with its answer, a miss `Ask` without it, `Resume`
is `Settle`, `Tick` is `TimePasses`, `SetBack` is `Loosen`, and `TableAnswers`
stutters: a lookup that reads or has read is pending. `MaxEntries` or
`Ttl` may be 0, as a blank environment value makes them: lru-cache then never
evicts, or never expires (an answer was then the target at some time). The
theorems cover both. The lru-cache
operators are external: modelled from the options and calls in the source.

### Redirect and clicks

`Redirect` extends the cache module with what the loader does around a lookup.
`RedirectAndClick` answers and issues the click in one step, as the loader does
without an `await` between; `ClickCommits` is the database running the update,
`ClickSucceeds` and `ClickFails` what the process hears of it.
`CountsAreVisits` brackets each count by what is known committed and what was
redirected, and says that the time kept is that of a visit. `RInv` is what it
needs to be inductive. Fairness (`RSpec`) is assumed of the visits' steps only: clicks may
hang, and visits must be answered all the same.

### Server lifecycle

Each delivered signal has its own handler, timer and close callback
(`handler[d]`, `deadline[d]`). A connection may be served, kept alive and used
again after the server stopped listening, or be stuck. `shared` says whether
`server.ts` and the engine use one copy of `prisma-client.ts`; both are checked.
Fairness is assumed of the clock and of due timers only. The timer is unref'd:
that the process could end earlier because nothing else keeps the event loop
alive is not modelled.

### URL normalisation

A URL is a record of its parts as they are written: scheme, host, port, path
(with user info and query, which `normalize` leaves to the parser), and the
length of its fragment. `LowerCase`, `HostOf` and `PathOf` say what the WHATWG
parser makes of a part; all that is assumed of them is that they leave their own
output alone (`ParserAssumption`). Lengths are functions of the parts, so that
encoding may lengthen a path and dot segments shorten it. An address is the
sequence of its bytes and `RangeOf` the range ipaddr.js names for it: the
classification is external, what the code does with it is modelled. Of the
classification it is assumed that the prefix of an IPv6 form decides the range
(`AddressAssumption`); the prefixes are those of the RFCs (`EmbeddingPrefix`). The
hash is left out.

`SpellingsAgree` compares `Create` with `Meaning`, a definition of what a URL
stands for that knows nothing of `normalize`'s steps.

### Listing and the fake repository

`UrlRepository` is the contract: `rows` and the answer of the last call, where
`create` is refused with P2002 when the code or the URL is taken and
`incrementClicks` with P2025 when there is no row. `listAll` is any order of
the rows in which `createdAt` does not increase: neither adapter breaks ties by
contract. `InMemoryUrlRepository` keeps `byCode` and `byHash`; none of its
methods awaits anything, so each is one step. Hashes stand for their URLs.
`Date` is set to any value at any time. `PortSpec` is the refinement, with the
rows read off `byCode`.

`UrlPages` keeps what a page was loaded with: `result` in the form, `entries`
in `/urls`. Nothing refreshes them, so `PagesAgeWell` compares what is shown
with rows of any later time. A short URL is a pair of base and code; the base
is `PUBLIC_URL` or what each route makes of its absence.

### Shorten action

`Post` is the action up to its first `await`: `clientIpFrom`, which takes
`req.ip` from the chain of addresses the request came by (`ReqIp`), the limiter, and
either a 429 or the wait for the form. `FormRead` is what follows up to the wait
for the use case; `Shortened` and `Fails` its two ways to end. The use case is
the abstract service, which `ShortenUrl` implements (run `shorten`, theorem
`Refinement`), so that here its retries and races need not be explored again.
`Crash` empties the limiter's Map, cuts the calls off, keeps the table and reads
another environment. `made` and `since` are history, kept by client and not by
the address that was counted: `QuotaHolds` therefore also says that `TRUST_PROXY`
leads to the client's own bucket. It is assumed that the setting counts or lists
the proxies that stand before the server (`DeploymentAssumption`); with another
value the code counts another address, and nothing is claimed.

`AInv` is an inductive invariant; it contains the limiter's own (`IInv`).
`ASafeSpec` is the specification without fairness, which is what the theorems
are about.

Fairness (`ASpec`): each call's `Advance`. Node ends a request whose body does not come
(`requestTimeout`), and the use case settles (`ServiceSpec`).

### Pages

`Document` takes a request from `securityHeaders` to the root loader.
`OtherRequest` is another one's middleware, which may run whenever this request
waits; `latest` is what a nonce kept beside the requests would hold, and only
the mutant reads it. `Route` is the router's choice of what to run. If no route
matches, no loader runs. If an action throws, or there is none for a submission,
the loaders run only above the boundary that shows the error, so that root's
does not if that boundary is its own (`thrown`): it is for a submission to `/`
or `/s/:code`, while `/urls` has a boundary. In both cases `Layout` finds no
nonce. A loader that throws leaves the root loader's data as they are.

React is external to `StreamRender`: parts of a page render or fail in any
order, and it makes the calls its API documents. `OnError`, `OnReady` and
`OnShellError` are the code's callbacks, `TimerFires`, `BodyEnds` its timer and
the stream's `final`. A client that leaves closes the stream under React
(`BodyCloses`), which does not clear the timer. The router passes a rejection to
`handleError`. An error below a boundary before the head is answered with
500 and not logged: `NoErrorIsLost` counts that as told.

`Page` runs the browser's side in a page whose shell was sent, its scripts if
the nonce in the markup is the policy's. `ChoiceIsKept` is claimed of pages
whose loaders ran: finding 6 is about the others. A reload waits
for the last render's end, since renders share nothing. Fairness is assumed of
timers only, on both sides.

## Runs

| run | checks | bounds, and why they are enough |
|---|---|---|
| `shorten` | `IInv`, `SameUrlSameCode`, `AnswersStand`, `RefusalsPersistNothing`, `ServiceSafety`, `KnownUrlNeverExhausts`, `ServiceSpec` | three requests (a race, a collision and a bystander at once), three URLs in two codes so that the space can be full, an invalid string, both budgets 2 |
| `rate_limiter` | `IInv`, `NeverBehind`, `RateHolds` | three clients for two buckets, so that the watched one is evicted; capacity 2, two ticks a token; `MaxLead` bounds the lead evictions can give |
| `cache` | `IInv`, `Consistent`, `NoFalseNegatives`, `ResolutionSafety` | two lookups, two codes, room for one; time 4 is one more than ttl, latency and setback together; symmetric in lookups, codes and URLs |
| `redirect` | `RInv`, `CountsAreVisits`, `OnlyCrashesLoseVisits`, `VisitsAreAnswered` | two visits of one code or of two, room for one in the cache, one crash |
| `redirect_last_click` | `LastClickIsLatest` is violated | two clicks applied out of order |
| `shutdown` | `IInv`, `CleanExitIsDrained`, `ForcedInTime`, `ReleasedOrLogged`, `SignalsEndTheProcess` | two connections, two signals, both wirings |
| `shutdown_pool` | `CleanExitReleases` is violated | the production wiring |
| `long_url` | `SpellingsAgree`, `ValuesAreStable`, `EmbeddingsAreSeen` | two spellings of most parts, a port that is one scheme's default and not the other's, a cap that parts can pass both ways, a public and a loopback address in all four IPv6 forms |
| `shorten_action` | `AInv`, `SpellingsShareACode`, `QuotaHolds`, `RowsHaveSponsors`, `CallsAreSettled` | two POSTs (the properties compare two), two clients with buckets of one token, five strings, code lengths 0 to 2; no proxy, one that is counted and one that is listed, with or without a forwarder that is itself a client; calls are numbered as they come, which loses nothing since their numbers mean nothing else |
| `page` | `NoErrorIsLost`, `ClicksSwitch`, `RendersEnd`, `ChoiceIsKept`, `ConfirmationsEnd` | two boundaries (one can fail before the head and one after it), two writes or timers at a time, pages of a route, of none and of a failed submission |
| `listing` | `IInv`, `NewestAreShown`, `PagesAgeWell`, `PortSpec` | two codes and two URLs, so that either may be taken alone; two times, a cap of one, so that a URL is hidden |
| `short_links` | `LinksLead` is violated | a process started without `PUBLIC_URL` |

`cache` takes its limits from `EngineConfig`, as a process started with
`CACHE_MAX_ENTRIES=1` and `CACHE_TTL_MS=1` does.

Deadlock checking is off where calls are one-shot or time is bounded: those
models do come to an end.

## Findings

1. `lastClickedAt` may go back: the time is taken before the update is queued
   (`prisma-url-repository.ts:50`), against `click-tracking/spec.md:26`
   (`redirect_last_click`).
2. The graceful shutdown disconnects nothing in production: Vite bundles one
   copy of `prisma-client.ts` (`vite.config.ts:11`) and `server.ts:8` loads
   another, whose client is always undefined; the log still says "prisma
   disconnected", which is what `server.shutdown.test.ts` looks for
   (`shutdown_pool`).
3. Without `PUBLIC_URL` the form shows `undefined/s/<code>`: the action lacks
   the fallback that the two loaders have and `config.server.ts:9` says every
   caller has (`short_links`).

Met while modelling, and not the subject of a run:

4. A click under way at a clean exit is neither counted nor logged, against
   `click-tracking/spec.md:37`: `ExitWith` in `GracefulShutdown` drops it.
5. The early length check refuses URLs that would be short enough once
   normalised, against the comment at `long-url.ts:128-130`: normalising
   removes fragments and dot segments. `Create` in `LongUrl` has both checks.
6. Two kinds of documents carry no nonce, so that the policy blocks their
   scripts and they come up light whatever was chosen, though `root.tsx:32` says
   of the root loader that it "runs on every request": that of a URL that no
   route matches, and root's error page for a submission made before hydration or without JavaScript
   whose action throws (`_index.tsx:90` or `:120`) or that has no action. `Route`
   in `Document` has both, and is why `ChoiceIsKept` has its condition.

## Theorems

All of them hold for every value of the constants the named assumptions admit;
TLC evaluates those assumptions in every run.

| module | theorems | assumptions |
|---|---|---|
| `ShortenUrlProofs` | `Invariance` (`IInv`), `SameCode` (`SameUrlSameCode`), `Standing` (`AnswersStand`), `NothingPersisted` (`RefusalsPersistNothing`), `KnownUrls` (`KnownUrlNeverExhausts`), `Refinement` (`ServiceSafety`) | `BoundsAssumption`, `NormalizationAssumption`, `HashAssumption`, `NoneAssumption` |
| `RateLimiterProofs` | `MapInvariance` (`IInv`), `NeverBehindHolds` (`NeverBehind`), `RateHoldsAlways` (`RateHolds`) | `RateAssumption`, `AbsentAssumption`, `ClientAssumption` |
| `NormalizationProofs` | `Spellings` (`SpellingsAgree`), `Stability` (`ValuesAreStable`), `EmbeddedAddresses` (`EmbeddingsAreSeen`) | `ParserAssumption`, `LengthAssumption`, `ErrorAssumption`, `AddressAssumption` |
| `ShortenActionProofs` | `ActionInvariance` (`AInv`), `OneCodePerMeaning` (`SpellingsShareACode`), `QuotaAlwaysHolds` (`QuotaHolds`), `SponsorsAlways` (`RowsHaveSponsors`), `RowsStayAccepted`, `ActionUsesService` | those of `NormalizationProofs` and `RateLimiter` (`RateAssumption`, `AbsentAssumption`), `FormAssumption`, `DeploymentAssumption`, `ListAssumption`, `DefaultsAssumption` |
| `RedirectProofs` | `Invariance` (`IInv`), `NoNegativeCaching` (`NoFalseNegatives`), `CacheBounded` (`Consistent`), `CacheResolves` and `VisitsResolve` (`ResolutionSafety`), `VisitsUseTheCache`, `RedirectInvariance` (`RInv`), `StatisticsAreVisits` (`CountsAreVisits`), `VisitsAreNotLost` (`OnlyCrashesLoseVisits`) | `CacheAssumption`, `EntryAssumption`, `VisitAssumption` |
| `UrlPagesProofs` | `MapsAlwaysAgree` (`IInv`), `FakeImplementsPort` (`PortSpec`), `CardsStayTrue` (`PagesAgeWell`), `NewestAlwaysShown` (`NewestAreShown`) | `MemoryAssumption`, `PageAssumption` |
| `PageProofs` | `PageInvariance`, `ErrorsAreSeen` (`NoErrorIsLost`), `EveryClickSwitches` (`ClicksSwitch`), `ChoiceSurvives` (`ChoiceIsKept`) | none: any set of boundaries and of statuses |
| `GracefulShutdownProofs` | `Invariance` (`IInv`), `CleanExit` (`CleanExitIsDrained`), `Forced` (`ForcedInTime`), `Released` (`ReleasedOrLogged`) | `ShutdownAssumption` |

Shortening. `SameUrlSameCode` speaks of calls that returned; it is inductive
only together with what makes it true: rows are unique in code and in hash
(`UniqueRows`), each holds the URL of the call that made it, which is past its
insert (`RowsHaveCalls`), and a call about to return holds a row of the table
with its own URL's hash (`RowsAreMine`). The proof has one lemma for what a step does to the
calls, one for the rows, one for the row a call holds. Injective hashes are
used where a row found by its hash is taken for the row of the URL. The
refinement then maps each action to `Ask`, `Assign`, `Answer`, `Refuse`,
`Crash` or a stutter; `CodeOfRow` says that the mapping's choice of a URL's row
is no choice.

`KnownUrlNeverExhausts` has a box inside a box; what is stable is that the call
is at none of the labels from which a loop can be exhausted, and that its URL
has a row as long as it still has to look (`Finds`): rows are never removed and
a call's argument never changes (`KnownStays`).

Rate limiter. That a client is never behind a bucket of its own is not
inductive: what is needed is that its lead pays for the tokens its kept bucket
lacks (`LeadPaysForTokens`), since an eviction gives it tokens the own bucket
does not have, which it spends before the own bucket refills.

Redirect cache. Answers are bounded in age because entries are
(`EntriesAreRecent`), entries because the reads behind them are
(`ReadsAreRecent`): a lookup under way is at most `MaxLatency` old, and what it
read is the target or was replaced after it was called. Both are said with
`WasTarget`, which a change keeps (`ChangeKeepsTargets`) and an earlier time
weakens (`EarlierToo`); `FreshEntry` and `FreshRead` turn them into what
`UrlResolution` allows of a hit and of a miss. `LookupRefines`, `CallRefines`
and `DeliveredRefines` map the steps of one lookup, `CacheStepResolves` all of
them; as each step of `Redirect` is one of the cache's, `VisitsResolve` follows
for visits, whatever their clicks do. `NoFalseNegatives`
rests on `RowsStay`. `Consistent` is inductive as it stands, given the types. The work is in four
lemmas about sequences without repetitions: what appending a new element
(`AppendedIsLast`), removing one (`RemovedAt`, `RemovedFirst`) and dropping the
first (`HeadRemoved`) make of their elements and length. `Evicted` takes the head
exactly when the map is full, so that each of lru-cache's three operations is a
composition of these.

Shutdown. A clean exit is drained because a handler past its close callback
implies drained connections and no listener to bring new ones
(`ClosedAfterSignal`); it is in time because the first signal's timer is armed
and no handler clears it (`FirstTimerArmed`).

Normalisation. What is submitted is always a string of `RawUrls`, since an
accepted value is again one (`SubmissionsAreRaw`); the rest is about `Create`
alone. A value is stable because each part is (`StrippedTwice` for the port) and
because both caps were checked of it (`StableValue`). Two URLs mean the same
exactly when their values are equal because dropping the default port loses
only whether it was written (`PortsAgree`).

An embedded address is judged by its IPv4 part because the form's prefix
decides the range, no form is a refused range of its own, and the extraction
begins where that prefix ends (`ExtractedIpv4`).

Shorten action. `AInv` has what none of the parts can know alone: which stage of
a call goes with which status of the service (`StagesMatch`), that whatever the
service was asked is what an accepted form normalises to (`FormsAreAsked`), that
every code was assigned to one URL which a call asked for (`CodesAreAssigned`),
and that what a client was granted and what its bucket still holds never exceed
a full bucket and the clock (`TokensAreKept`). `SpellingsShareACode` then follows from
`NormalizationProofs`: codes are equal when values are, values when meanings are.
`QuotaHolds` is not inductive without `TokensAreKept`, whose step rests on three
lemmas: a refill does not exceed the time that passed (`RefillIsKept`), an admitted
call takes its token and is one more element of a finite set (`TakeKeepsTokens`),
and under every environment the address that is counted is the client's own,
since each proxy in front is trusted and the client is not (`OwnAddress`). That
the process's settings are those of some environment is an invariant too, as a
restart may change them. `RowsStayAccepted` says of the table what
`ResolveUrlUseCase` takes for granted when it redirects. `ActionUsesService` makes
the action a user of the service that `Refinement` shows `ShortenUrl` to
implement.

Redirect. Every step of a visit, a click or a crash is one of the cache's or
leaves it alone (`StepUsesCache`), so the cache's theorems hold of the
composition. A count is not bounded by the redirects inductively: the click
that commits next must not be among those counted, so what is kept is that the
count is at most the redirects whose click is past "issued" (`CountsAreBeyond`),
together with who is on its way having no answer yet (`AnswersComeOnce`). One
lemma (`CountsKept`) serves every step that changes no count; `CommitCounts` adds
one element to two finite sets and one to the count.

Listing. `MapsAgree` is inductive with the types. Each method then is the port's
operation of the same name. A card stays true because rows are never deleted
nor retargeted and their statistics only grow: the invariant relates each entry
of the page to the row its code has now. `NewestAreShown` holds because the list
has no repetitions, so that its first `MAX_RENDERED_URLS` elements are as many
rows.

Page. Until the promise is settled there is no head, so an error so far has set
the status the head will have; once it is, a head exists or the shell has
failed: `RenderInv` states this and `CallbacksPreserve` proves it of whatever set of
parts fails at one time, one part or all that abort finds pending. `ThemeInv` has what
a load needs (storage that works holds what was chosen) and `DocumentInv` that
the markup's nonce is the response's where the root loader ran. `PageInv` is their conjunction; only
`Visits` moves more than one of the three.

Only model-checked: liveness (`ServiceSpec`, `VisitsAreAnswered`,
`SignalsEndTheProcess`, `CallsAreSettled`, `RendersEnd`, `ConfirmationsEnd`), which
needs fairness and ENABLED. Every safety property that a passing run checks is
a theorem.

## Plan

Done, in this order: shortening (the system's core) and its refinement; the rate
limiter; the redirect cache; redirects and clicks; the server's lifecycle; URL
normalisation; the shorten action, which composes limiter, normalisation, proxy trust and
service; the pages, with their documents; the listing and the fake repository.

Next:

`UrlRepository` as the specification of `PrismaUrlRepository` too, with the
statements of `ShortenUrl` as its operations.

## Not modelled

- The text of the security headers, compression, caching headers of static
  files: they depend on nothing that changes.
- The markup and classes of pages and UI primitives.
- Migrations and the container's start: Prisma and Docker run them.
- SHA-256, the WHATWG parser, ipaddr.js, lru-cache, Express, React and the
  browser are external: what the source relies on is modelled, not how they
  work.
- Floating-point rounding in the limiter's refill.
- `Retry-After`: that a refused client is admitted a minute later is false
  when the clock is set back meanwhile, and the modules have no other clock
  beside `Date.now` to say it by.
