---------------------------- MODULE StreamRender ----------------------------
(***************************************************************************)
(* handleRequest and handleError of applications/web/app/entry.server.tsx: *)
(* one request's document is rendered by React and streamed, under a timer *)
(* that aborts what does not finish.                                       *)
(*                                                                         *)
(* React is external: it renders the shell and the parts below Suspense    *)
(* boundaries in any order, and calls onError for each part that fails,    *)
(* then onShellError if it was the shell; onShellReady once the shell is   *)
(* there, onAllReady once nothing is pending; abort fails what is pending. *)
(***************************************************************************)
CONSTANTS
  Shell,      \* the part of the page outside every boundary
  Boundaries, \* the parts below a Suspense boundary
  Statuses    \* the statuses the router asks a document to be sent with

ASSUME PartsAssumption == Shell \notin Boundaries

Parts == Boundaries \cup {Shell}

VARIABLES
  request,  \* "none", "HEAD", "bot" (or SPA mode) or "browser"
  part,     \* part[p]: "pending", "done" or "failed"
  responseStatusCode,
  shellRendered,
  promise,  \* "pending", "resolved" or "rejected"
  sent,     \* the status the promise was resolved with, 0 before
  body,     \* "none", "open", "ended" or "closed", by the client
  timeout,  \* whether the timer is armed
  aborted,  \* request.signal.aborted
  handled,  \* the router has passed the rejection to handleError
  reported, \* the parts whose errors React reported
  logged    \* the parts whose errors were logged

render == <<request, part, responseStatusCode, shellRendered, promise, sent, body,
            timeout, aborted, handled, reported, logged>>

RInit ==
  /\ request = "none"
  /\ part = [p \in Parts |-> "pending"]
  /\ responseStatusCode = 0
  /\ shellRendered = FALSE
  /\ promise = "pending"
  /\ sent = 0
  /\ body = "none"
  /\ timeout = FALSE
  /\ aborted = FALSE
  /\ handled = FALSE
  /\ reported = {}
  /\ logged = {}

Resolve(http) == promise' = "resolved" /\ sent' = http

\* Mutant: the timer is armed for browsers only.
HandleWithoutTimer(kind, http) ==
  /\ request = "none"
  /\ request' = kind
  /\ responseStatusCode' = http
  /\ IF kind = "HEAD" THEN Resolve(http) ELSE UNCHANGED <<promise, sent>>
  /\ timeout' = (kind = "browser")
  /\ UNCHANGED <<part, shellRendered, body, aborted, handled, reported,
                 logged>>

(* A HEAD request is answered at once; another arms the timer and renders. *)
Handle(kind, http) ==
  /\ request = "none"
  /\ request' = kind
  /\ responseStatusCode' = http
  /\ IF kind = "HEAD" THEN Resolve(http) ELSE UNCHANGED <<promise, sent>>
  /\ timeout' = (kind # "HEAD")
  /\ UNCHANGED <<part, shellRendered, body, aborted, handled, reported,
                 logged>>

Rendering == request \in {"bot", "browser"} /\ part[Shell] # "failed"

Pending == {p \in Parts : part[p] = "pending"}

\* Mutant: the status stays what the router asked for.
OnErrorLoggedOnly(failing) ==
  /\ responseStatusCode' = responseStatusCode
  /\ logged' = IF shellRendered THEN logged \cup failing ELSE logged
  /\ reported' = reported \cup failing

(* onError, called for each of the failing parts.                          *)
OnError(failing) ==
  /\ responseStatusCode' = IF failing = {} THEN responseStatusCode ELSE 500
  /\ logged' = IF shellRendered THEN logged \cup failing ELSE logged
  /\ reported' = reported \cup failing

(* Whether React, with the parts as they are now, calls readyOption.       *)
ReadyOption ==
  /\ ~shellRendered
  /\ part'[Shell] = "done"
  /\ request = "bot" => \A p \in Parts : part'[p] # "pending"

(* onShellReady or onAllReady                                              *)
OnReady ==
  /\ shellRendered' = TRUE
  /\ body' = "open"
  /\ Resolve(responseStatusCode')

OnShellError ==
  /\ promise' = "rejected"
  /\ UNCHANGED <<shellRendered, body, sent>>

(* React has rendered or failed some parts, and makes its calls.           *)
Callbacks(failing) ==
  /\ OnError(failing)
  /\ IF Shell \in failing THEN OnShellError
     ELSE IF ReadyOption THEN OnReady
     ELSE UNCHANGED <<shellRendered, body, promise, sent>>

Renders(p) ==
  /\ Rendering /\ p \in Pending
  /\ part' = [part EXCEPT ![p] = "done"]
  /\ Callbacks({})
  /\ UNCHANGED <<request, timeout, aborted, handled>>

Fails(p) ==
  /\ Rendering /\ p \in Pending
  /\ part' = [part EXCEPT ![p] = "failed"]
  /\ Callbacks({p})
  /\ UNCHANGED <<request, timeout, aborted, handled>>

(* abort: what is pending fails, unless the page has failed already.       *)
Abort ==
  IF Rendering
  THEN /\ part' = [p \in Parts |-> IF p \in Pending THEN "failed" ELSE part[p]]
       /\ Callbacks(Pending)
  ELSE UNCHANGED <<part, responseStatusCode, shellRendered, promise, sent, body,
                   reported, logged>>

TimerFires ==
  /\ timeout
  /\ timeout' = FALSE
  /\ Abort
  /\ UNCHANGED <<request, aborted, handled>>

(* The client has read everything: the stream's final clears the timer.    *)
BodyEnds ==
  /\ body = "open" /\ Pending = {}
  /\ body' = "ended"
  /\ timeout' = FALSE
  /\ UNCHANGED <<request, part, responseStatusCode, shellRendered, promise, sent,
                 aborted, handled, reported, logged>>

(* The client hangs up.                                                    *)
ClientLeaves ==
  /\ request # "none" /\ ~aborted
  /\ aborted' = TRUE
  /\ UNCHANGED <<request, part, responseStatusCode, shellRendered, promise, sent, body,
                 timeout, handled, reported, logged>>

(* The stream is closed under React, which aborts the page itself.         *)
BodyCloses ==
  /\ aborted /\ body = "open"
  /\ body' = "closed"
  /\ IF Pending = {} THEN UNCHANGED <<part, responseStatusCode, reported, logged>>
     ELSE /\ part' = [p \in Parts |-> IF p \in Pending THEN "failed" ELSE part[p]]
          /\ OnError(Pending)
  /\ UNCHANGED <<request, shellRendered, promise, sent, timeout, aborted, handled>>

(* The router hands the rejection to handleError, which logs it unless the *)
(* client has left.                                                        *)
HandleError ==
  /\ promise = "rejected" /\ ~handled
  /\ handled' = TRUE
  /\ logged' = IF aborted THEN logged ELSE logged \cup {Shell}
  /\ UNCHANGED <<request, part, responseStatusCode, shellRendered, promise, sent, body,
                 timeout, aborted, reported>>

RNext ==
  \/ \E kind \in {"HEAD", "bot", "browser"}, http \in Statuses : Handle(kind, http)
  \/ \E p \in Parts : Renders(p) \/ Fails(p)
  \/ TimerFires \/ BodyEnds \/ ClientLeaves \/ BodyCloses \/ HandleError

(***************************************************************************)
(* Properties                                                              *)
(***************************************************************************)
(* No error that React reports is lost: it is logged, or it came before    *)
(* the head and the client is answered 500, or the whole document is       *)
(* rejected, for which the shell's error is logged while a client waits.   *)
NoErrorIsLost ==
  \A p \in reported :
    \/ promise = "pending"
    \/ promise = "resolved" /\ (sent = 500 \/ p \in logged)
    \/ promise = "rejected" /\ (~handled \/ aborted \/ Shell \in logged)

(* Behind it: until the promise is settled there is no head, and what has  *)
(* failed is on its way to a 500; a promise is resolved with a shell, or   *)
(* for a HEAD request, and rejected without one.                           *)
RenderInv ==
  /\ part \in [Parts -> {"pending", "done", "failed"}]
  /\ request \in {"none", "HEAD", "bot", "browser"}
  /\ promise \in {"pending", "resolved", "rejected"}
  /\ shellRendered \in BOOLEAN /\ aborted \in BOOLEAN /\ handled \in BOOLEAN
  /\ body # "none" => shellRendered
  /\ shellRendered => /\ promise = "resolved" /\ part[Shell] = "done"
                      /\ request \in {"bot", "browser"}
  /\ promise = "resolved" => shellRendered \/ (request = "HEAD" /\ reported = {})
  /\ promise = "rejected" => part[Shell] = "failed" /\ request \in {"bot", "browser"}
  /\ handled => promise = "rejected"
  /\ request \in {"none", "HEAD"} => reported = {}
  /\ request = "HEAD" => promise = "resolved"
  /\ promise = "pending" /\ reported # {} => responseStatusCode = 500
  /\ NoErrorIsLost

(* Every request is answered and its page stops rendering: what takes too  *)
(* long before the head or after it is aborted, for bots and browsers.     *)
RendersEnd ==
  Rendering ~> promise # "pending" /\ (Pending = {} \/ ~Rendering)
=============================================================================
