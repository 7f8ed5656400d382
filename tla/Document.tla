------------------------------ MODULE Document ------------------------------
(***************************************************************************)
(* What createApp and the root route do with a request for a document      *)
(* before it is rendered: securityHeaders makes its nonce and sends it in  *)
(* the Content-Security-Policy, express.static looks for a file, and       *)
(* getLoadContext and the root loader take the nonce to the markup.        *)
(***************************************************************************)
VARIABLES
  stage,   \* "none", "headers", "context" or "routed"
  latest,  \* whose nonce the process has made last: "own" or "other"
  nonce,   \* of the load context, then of the markup: "none", "own" or "other"
  matched, \* a route of routes.ts matches the URL
  thrown   \* it was asked for an action, and root's ErrorBoundary has the error

document == <<stage, latest, nonce, matched, thrown>>

DInit ==
  /\ stage = "none" /\ latest = "other" /\ nonce = "none"
  /\ matched = FALSE /\ thrown = FALSE

(* The middleware runs to its end at once.                                 *)
SecurityHeaders ==
  /\ stage = "none"
  /\ stage' = "headers"
  /\ latest' = "own"
  /\ UNCHANGED <<nonce, matched, thrown>>

(* Another request's, also while this one waits for the disk.              *)
OtherRequest == latest' = "other" /\ UNCHANGED <<stage, nonce, matched, thrown>>

\* Mutant: the nonce is kept beside the requests, not with each response.
BuildLoadContextLatest ==
  /\ stage = "headers"
  /\ stage' = "context"
  /\ nonce' = latest
  /\ UNCHANGED <<latest, matched, thrown>>

(* No file has the request's path: buildLoadContext reads res.locals.      *)
BuildLoadContext ==
  /\ stage = "headers"
  /\ stage' = "context"
  /\ nonce' = "own"
  /\ UNCHANGED <<latest, matched, thrown>>

(* The root loader runs with any route that matches, and also beside a     *)
(* loader that throws.  But for a URL that none matches no loader runs; and*)
(* after an action that threw, or a method without one, only those above   *)
(* the boundary that shows the error: that is root's for every submission  *)
(* but those to /urls, which has a boundary of its own.  Layout then finds *)
(* no data, and no nonce.                                                  *)
Route ==
  /\ stage = "context"
  /\ stage' = "routed"
  /\ matched' \in BOOLEAN /\ thrown' \in BOOLEAN /\ (thrown' => matched')
  /\ nonce' = IF matched' /\ ~thrown' THEN nonce ELSE "none"
  /\ UNCHANGED latest

DNext == SecurityHeaders \/ OtherRequest \/ BuildLoadContext \/ Route

(* The browser runs an inline script with the nonce the policy names.      *)
ScriptsRun == nonce = "own"

(* The markup of a page whose loaders ran carries its own nonce.           *)
DocumentInv ==
  /\ stage = "context" => ScriptsRun
  /\ matched /\ ~thrown => ScriptsRun
=============================================================================
