------------------------------ MODULE UrlPages ------------------------------
(***************************************************************************)
(* The pages that show short URLs: the form's, with the URL its action     *)
(* made (routes/_index.tsx), and /urls with all of them (routes/urls.tsx). *)
(* What they show stays while URLs are shortened and visited elsewhere.    *)
(*                                                                         *)
(* A short URL is its base and its code.                                   *)
(***************************************************************************)
EXTENDS InMemoryUrlRepository

CONSTANTS
  MAX_RENDERED_URLS,
  Origin,     \* where the application is reached
  Unset,      \* in place of an environment variable that is not set
  PublicUrls  \* the values of PUBLIC_URL the process may be started with

ASSUME PageAssumption == MAX_RENDERED_URLS \in Nat
ASSUME UrlAssumption == PublicUrls \subseteq {Origin, "", Unset}

VARIABLES
  publicUrl, \* config.server.ts
  result,    \* the code of the short URL the form shows, None without
  entries    \* the entries /urls shows, None before and when they could not be loaded

pages == <<memory, publicUrl, result, entries>>

PInit == Init /\ publicUrl \in PublicUrls /\ result = None /\ entries = None

(* `${publicUrl}/s/${code}` in the action: what is undefined is spelt out. *)
ShortenedUrl(code) == <<IF publicUrl = Unset THEN "undefined" ELSE publicUrl, code>>

(* shortUrlFor, of publicUrl ?? "": root-relative without a base.          *)
ShortUrlFor(code) == <<IF publicUrl = Unset THEN "" ELSE publicUrl, code>>

(* entries.slice(0, MAX_RENDERED_URLS)                                     *)
VisibleEntries ==
  SubSeq(entries, 1, IF Len(entries) < MAX_RENDERED_URLS THEN Len(entries)
                     ELSE MAX_RENDERED_URLS)

(* UrlCard; never: that its last click is "Never".                         *)
Card(entry) ==
  [code |-> entry.code, shortUrl |-> ShortUrlFor(entry.code), longUrl |-> entry.longUrl,
   clicks |-> entry.clickCount, never |-> entry.lastClickedAt = None]

Cards ==
  IF entries = None THEN {}
  ELSE {Card(VisibleEntries[i]) : i \in DOMAIN VisibleEntries}

(* The action shortens a URL, or finds that it has its code.               *)
ShowsResult ==
  /\ \/ \E c \in Codes, u \in LongUrls : Create(c, u)
     \/ \E u \in LongUrls : FindByHash(u)
  /\ answer'.row # None /\ result' = answer'.row.code
  /\ UNCHANGED <<publicUrl, entries>>

Load == ListAll /\ entries' = list' /\ UNCHANGED <<publicUrl, result>>

(* listUrls rejects: the route's ErrorBoundary is shown.                   *)
LoadFails == entries' = None /\ UNCHANGED <<memory, publicUrl, result>>

PNext ==
  \/ Next /\ UNCHANGED <<publicUrl, result, entries>>
  \/ ShowsResult \/ Load \/ LoadFails

PSpec == PInit /\ [][PNext]_pages

(***************************************************************************)
(* Properties                                                              *)
(***************************************************************************)
(* When not every URL is shown, those that are are the newest there were.  *)
NewestAreShown ==
  entries # None =>
    LET shown == {VisibleEntries[i] : i \in DOMAIN VisibleEntries}
        hidden == {entries[i] : i \in DOMAIN entries} \ shown
    IN  /\ hidden # {} => Cardinality(shown) = MAX_RENDERED_URLS
        /\ \A r \in shown, h \in hidden : r.createdAt >= h.createdAt

(* However old the page is that is looked at: a card's code is still that  *)
(* of the URL the card names, and has no fewer clicks than the card says,  *)
(* none only if the card says that it was never clicked.                   *)
PagesAgeWell ==
  \A card \in Cards :
    /\ byCode[card.code] # None
    /\ byCode[card.code].longUrl = card.longUrl
    /\ byCode[card.code].clickCount >= card.clicks
    /\ card.never <=> card.clicks = 0

(* Every short URL that is shown leads to the application, by its origin   *)
(* or from the root of the page it is on.                                  *)
LinksLead ==
  /\ result # None => ShortenedUrl(result)[1] \in {Origin, ""}
  /\ \A card \in Cards : card.shortUrl[1] \in {Origin, ""}
=============================================================================
