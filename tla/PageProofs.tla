---------------------------- MODULE PageProofs -----------------------------
(***************************************************************************)
(* No error of a render is lost, and a page is in the theme that was       *)
(* chosen: for any number of Suspense boundaries and of overlapping        *)
(* requests, visits, clicks, tabs and copies.                              *)
(***************************************************************************)
EXTENDS Page, TLAPS

(***************************************************************************)
(* The render                                                              *)
(***************************************************************************)
(* What React's calls do to the invariant, whatever has just failed: some  *)
(* parts that were pending.                                                *)
LEMMA CallbacksPreserve ==
  ASSUME RenderInv, Rendering,
         NEW failing \in SUBSET Pending,
         part' \in [Parts -> {"pending", "done", "failed"}],
         \A p \in Parts \ Pending : part'[p] = part[p],
         Shell \in failing <=> Shell \in Pending /\ part'[Shell] = "failed",
         Callbacks(failing),
         UNCHANGED <<request, aborted, handled>>
  PROVE  RenderInv'
<1>1. request \in {"bot", "browser"} /\ Shell \in Parts /\ part[Shell] # "failed"
  BY DEF Rendering, Parts
<1>2. promise # "rejected" /\ (promise = "resolved" <=> shellRendered)
  BY <1>1 DEF RenderInv
<1>3. /\ responseStatusCode' = IF failing = {} THEN responseStatusCode ELSE 500
      /\ logged' = IF shellRendered THEN logged \cup failing ELSE logged
      /\ reported' = reported \cup failing
  BY DEF Callbacks, OnError
<1>4. CASE Shell \in failing
  <2>1. ~shellRendered /\ promise = "pending" /\ part'[Shell] = "failed"
    BY <1>2, <1>4 DEF RenderInv, Pending
  <2>2. promise' = "rejected" /\ UNCHANGED <<shellRendered, body, sent>>
    BY <1>4 DEF Callbacks, OnShellError
  <2>3. NoErrorIsLost'
    BY <2>1, <2>2 DEF NoErrorIsLost, RenderInv
  <2> QED
    BY <1>1, <2>1, <2>2, <2>3 DEF RenderInv
<1>5. CASE Shell \notin failing /\ ReadyOption
  <2>1. ~shellRendered /\ part'[Shell] = "done" /\ promise = "pending"
    BY <1>2, <1>5 DEF ReadyOption, RenderInv
  <2>2. /\ shellRendered' = TRUE /\ body' = "open"
        /\ promise' = "resolved" /\ sent' = responseStatusCode'
    BY <1>5 DEF Callbacks, OnReady, Resolve
  <2>3. reported' # {} => responseStatusCode' = 500
    BY <1>3, <2>1 DEF RenderInv
  <2>4. NoErrorIsLost'
    BY <2>2, <2>3 DEF NoErrorIsLost
  <2> QED
    BY <1>1, <2>1, <2>2, <2>4 DEF RenderInv
<1>6. CASE Shell \notin failing /\ ~ReadyOption
  <2>1. UNCHANGED <<shellRendered, body, promise, sent>>
    BY <1>6 DEF Callbacks
  <2>2. shellRendered => part'[Shell] = "done"
    BY <1>1 DEF RenderInv, Pending
  <2>3. promise' = "pending" /\ reported' # {} => responseStatusCode' = 500
    BY <1>3, <2>1 DEF RenderInv
  <2>4. NoErrorIsLost'
    BY <1>2, <1>3, <2>1 DEF NoErrorIsLost, RenderInv
  <2> QED
    BY <1>1, <1>2, <2>1, <2>2, <2>3, <2>4 DEF RenderInv
<1> QED
  BY <1>4, <1>5, <1>6

LEMMA OnePartPreserves ==
  ASSUME RenderInv, NEW p \in Parts, Renders(p) \/ Fails(p)
  PROVE  RenderInv'
<1>1. Rendering /\ p \in Pending /\ part[p] = "pending" /\ UNCHANGED <<request, aborted, handled>>
  BY DEF Renders, Fails, Pending
<1>2. CASE Renders(p)
  <2>1. part' = [part EXCEPT ![p] = "done"] /\ Callbacks({})
    BY <1>2 DEF Renders
  <2>2. part' \in [Parts -> {"pending", "done", "failed"}]
    BY <2>1 DEF RenderInv
  <2>3. \A q \in Parts \ Pending : part'[q] = part[q]
    BY <1>1, <2>1 DEF RenderInv
  <2>4. part'[Shell] # "failed"
    BY <1>1, <2>1 DEF RenderInv, Rendering, Parts
  <2> QED
    BY <1>1, <2>1, <2>2, <2>3, <2>4, CallbacksPreserve
<1>3. CASE Fails(p)
  <2>1. part' = [part EXCEPT ![p] = "failed"] /\ Callbacks({p})
    BY <1>3 DEF Fails
  <2>2. part' \in [Parts -> {"pending", "done", "failed"}]
    BY <2>1 DEF RenderInv
  <2>3. \A q \in Parts \ Pending : part'[q] = part[q]
    BY <1>1, <2>1 DEF RenderInv
  <2>4. Shell \in {p} <=> Shell \in Pending /\ part'[Shell] = "failed"
    BY <1>1, <2>1 DEF RenderInv, Rendering, Parts
  <2>5. {p} \in SUBSET Pending
    BY <1>1
  <2> QED
    BY <1>1, <2>1, <2>2, <2>3, <2>4, <2>5, CallbacksPreserve
<1> QED
  BY <1>2, <1>3

LEMMA TimerPreserves ==
  ASSUME RenderInv, TimerFires
  PROVE  RenderInv'
<1>1. UNCHANGED <<request, aborted, handled>>
  BY DEF TimerFires
<1>2. CASE Rendering
  <2>1. /\ part' = [p \in Parts |-> IF p \in Pending THEN "failed" ELSE part[p]]
        /\ Callbacks(Pending)
    BY <1>2 DEF TimerFires, Abort
  <2>2. part' \in [Parts -> {"pending", "done", "failed"}]
    BY <2>1 DEF RenderInv
  <2>3. \A q \in Parts \ Pending : part'[q] = part[q]
    BY <2>1
  <2>4. Shell \in Pending => part'[Shell] = "failed"
    BY <2>1 DEF Parts
  <2> QED
    BY <1>1, <1>2, <2>1, <2>2, <2>3, <2>4, CallbacksPreserve
<1>3. CASE ~Rendering
  <2>1. UNCHANGED <<part, responseStatusCode, shellRendered, promise, sent, body, reported, logged>>
    BY <1>3 DEF TimerFires, Abort
  <2> QED
    BY <1>1, <2>1 DEF RenderInv, NoErrorIsLost
<1> QED
  BY <1>2, <1>3

LEMMA HandlePreserves ==
  ASSUME RenderInv,
         NEW kind \in {"HEAD", "bot", "browser"}, NEW http \in Statuses, Handle(kind, http)
  PROVE  RenderInv'
<1>1. /\ request = "none" /\ reported = {} /\ request' = kind
      /\ UNCHANGED <<part, shellRendered, body, aborted, handled, reported>>
  BY DEF Handle, RenderInv
<1>2. ~shellRendered /\ promise = "pending"
  BY <1>1 DEF RenderInv
<1>3. \/ kind = "HEAD" /\ promise' = "resolved"
      \/ kind # "HEAD" /\ promise' = promise
  BY DEF Handle, Resolve
<1>4. NoErrorIsLost'
  BY <1>1 DEF NoErrorIsLost
<1> QED
  BY <1>1, <1>2, <1>3, <1>4 DEF RenderInv

LEMMA ClosePreserves ==
  ASSUME RenderInv, BodyCloses
  PROVE  RenderInv'
<1>1. /\ body = "open" /\ body' = "closed"
      /\ UNCHANGED <<request, shellRendered, promise, sent, aborted, handled>>
  BY DEF BodyCloses
<1>2. shellRendered /\ promise = "resolved" /\ part[Shell] = "done" /\ request \notin {"none", "HEAD"}
  BY <1>1 DEF RenderInv
<1>3. CASE Pending = {}
  BY <1>1, <1>2, <1>3 DEF BodyCloses, RenderInv, NoErrorIsLost
<1>4. CASE Pending # {}
  <2>1. /\ part' = [p \in Parts |-> IF p \in Pending THEN "failed" ELSE part[p]]
        /\ reported' = reported \cup Pending /\ logged' = logged \cup Pending
    BY <1>2, <1>4 DEF BodyCloses, OnError
  <2>2. part' \in [Parts -> {"pending", "done", "failed"}] /\ part'[Shell] = "done"
    BY <1>2, <2>1 DEF RenderInv, Pending, Parts
  <2>3. NoErrorIsLost'
    BY <1>1, <1>2, <2>1 DEF RenderInv, NoErrorIsLost
  <2> QED
    BY <1>1, <1>2, <2>1, <2>2, <2>3 DEF RenderInv
<1> QED
  BY <1>3, <1>4

LEMMA OthersPreserve ==
  ASSUME RenderInv, BodyEnds \/ ClientLeaves \/ HandleError
  PROVE  RenderInv'
<1>1. CASE BodyEnds
  BY <1>1 DEF BodyEnds, RenderInv, NoErrorIsLost
<1>2. CASE ClientLeaves
  BY <1>2 DEF ClientLeaves, RenderInv, NoErrorIsLost
<1>3. CASE HandleError
  BY <1>3 DEF HandleError, RenderInv, NoErrorIsLost
<1> QED
  BY <1>1, <1>2, <1>3

LEMMA RenderKept == RenderInv /\ [RNext]_render => RenderInv'
<1>1. ASSUME RenderInv, UNCHANGED render PROVE RenderInv'
  BY <1>1 DEF render, RenderInv, NoErrorIsLost
<1> QED
  BY <1>1, HandlePreserves, OnePartPreserves, TimerPreserves, ClosePreserves, OthersPreserve
  DEF RNext

LEMMA FreshRender ==
  ASSUME request = "none", part = [p \in Parts |-> "pending"], promise = "pending",
         shellRendered = FALSE, body = "none", aborted = FALSE, handled = FALSE, reported = {}
  PROVE  RenderInv
BY DEF RenderInv, NoErrorIsLost

(***************************************************************************)
(* The theme and the nonce                                                 *)
(***************************************************************************)
LEMMA TogglePreserves ==
  ASSUME ThemeInv, ToggleTheme
  PROVE  ThemeInv'
<1>1. /\ htmlDark \in BOOLEAN /\ odd \in BOOLEAN /\ first \in BOOLEAN
      /\ phase \in {"hydrated", "mounted"} /\ htmlDark = (first # odd)
  BY DEF ThemeInv, ClicksSwitch, ToggleTheme
<1>2. /\ htmlDark' = ~htmlDark /\ odd' = ~odd /\ isDark' = ~htmlDark
      /\ UNCHANGED <<first, phase, prefersDark>>
  BY DEF ToggleTheme
<1>3. ClicksSwitch'
  <2>1. htmlDark' = (first' # odd')
    <3>1. CASE odd
      BY <1>1, <1>2, <3>1
    <3>2. CASE ~odd
      BY <1>1, <1>2, <3>2
    <3> QED
      BY <3>1, <3>2
  <2>2. isDark' = htmlDark'
    BY <1>2
  <2> QED
    BY <2>1, <2>2 DEF ClicksSwitch
<1>4. /\ storage' = storage
      /\ stored' \in {"none", "dark", "light"}
      /\ storage = "works" => chosen' = stored'
  BY DEF ToggleTheme, Store, Name, ThemeInv
<1> QED
  BY <1>1, <1>2, <1>3, <1>4 DEF ThemeInv

LEMMA ThemeKept ==
  ASSUME ThemeInv,
         \/ HeadScript \/ PaintBare \/ Hydrate \/ MountEffect \/ ToggleTheme
         \/ Navigate \/ OtherTab \/ SystemChanges \/ Reload \/ UNCHANGED theme
  PROVE  ThemeInv'
<1>1. CASE HeadScript
  <2>1. htmlDark' \in BOOLEAN
    <3>1. htmlDark' = ResolveInitialTheme /\ prefersDark \in BOOLEAN
      BY <1>1 DEF HeadScript, ThemeInv
    <3>2. ResolveInitialTheme \in BOOLEAN
      BY <3>1 DEF ResolveInitialTheme
    <3> QED
      BY <3>1, <3>2
  <2> QED
    BY <1>1, <2>1 DEF HeadScript, ThemeInv, ClicksSwitch
<1>2. CASE PaintBare \/ Hydrate \/ MountEffect \/ Navigate
  BY <1>2 DEF PaintBare, Hydrate, MountEffect, Navigate, ThemeInv, ClicksSwitch
<1>3. CASE OtherTab
  BY <1>3 DEF OtherTab, Store, Name, ThemeInv, ClicksSwitch
<1>4. CASE SystemChanges
  <2>1. prefersDark' \in BOOLEAN
    BY <1>4 DEF SystemChanges
  <2> QED
    BY <1>4, <2>1 DEF SystemChanges, ThemeInv, ClicksSwitch
<1>5. CASE Reload
  BY <1>5 DEF Reload, ThemeInv, ClicksSwitch
<1>6. CASE UNCHANGED theme
  BY <1>6 DEF theme, ThemeInv, ClicksSwitch
<1> QED
  BY <1>1, <1>2, <1>3, <1>4, <1>5, <1>6, TogglePreserves

LEMMA NonceKept ==
  ASSUME DocumentInv, DNext \/ UNCHANGED document
  PROVE  DocumentInv'
BY DEF DocumentInv, DNext, SecurityHeaders, OtherRequest, BuildLoadContext, Route, ScriptsRun,
       document

(***************************************************************************)
(* The page                                                                *)
(***************************************************************************)
LEMMA InitPageInv == PageInit => PageInv
<1> SUFFICES ASSUME PageInit PROVE PageInv
  OBVIOUS
<1>1. RenderInv
  BY FreshRender DEF PageInit, RInit
<1>2. ThemeInv
  BY DEF PageInit, TInit, ThemeInv, ClicksSwitch
<1>3. DocumentInv
  BY DEF PageInit, DInit, DocumentInv
<1> QED
  BY <1>1, <1>2, <1>3 DEF PageInv

LEMMA NextPageInv == PageInv /\ [PageNext]_page => PageInv'
<1> SUFFICES ASSUME PageInv, [PageNext]_page PROVE PageInv'
  OBVIOUS
<1>1. CASE Serves
  BY <1>1, RenderKept, ThemeKept, NonceKept DEF Serves, PageInv
<1>2. CASE Runs
  BY <1>2, RenderKept, ThemeKept, NonceKept DEF Runs, PageInv
<1>3. CASE Elsewhere
  BY <1>3, RenderKept, ThemeKept, NonceKept DEF Elsewhere, PageInv
<1>4. CASE Visits
  <2>1. RenderInv'
    BY <1>4 DEF Visits, RenderInv, NoErrorIsLost
  <2>2. ThemeInv'
    BY <1>4, ThemeKept DEF Visits, PageInv
  <2>3. DocumentInv'
    BY <1>4 DEF Visits, DocumentInv
  <2> QED
    BY <2>1, <2>2, <2>3 DEF PageInv
<1>5. CASE UNCHANGED page
  BY <1>5, RenderKept, ThemeKept, NonceKept DEF page, PageInv
<1> QED
  BY <1>1, <1>2, <1>3, <1>4, <1>5 DEF PageNext

(* The inductive invariant of a page's render, theme and nonce.            *)
THEOREM PageInvariance == PageSpec => []PageInv
BY InitPageInv, NextPageInv, PTL DEF PageSpec

(* Every error React reports shows in the log, the status or the rejection.*)
THEOREM ErrorsAreSeen == PageSpec => []NoErrorIsLost
<1>1. PageInv => NoErrorIsLost
  BY DEF PageInv, RenderInv
<1> QED
  BY <1>1, PageInvariance, PTL

(* Every click switches the theme, before and after React knows it.        *)
THEOREM EveryClickSwitches == PageSpec => []ClicksSwitch
<1>1. PageInv => ClicksSwitch
  BY DEF PageInv, ThemeInv
<1> QED
  BY <1>1, PageInvariance, PTL

LEMMA StepKeepsChoice ==
  ASSUME PageInv, [PageNext]_page, phase = "blank", phase' = "painted",
         storage = "works", matched, ~thrown
  PROVE  htmlDark' = IF chosen = "none" THEN prefersDark ELSE chosen = "dark"
<1>1. ScriptsRun /\ chosen = stored
  BY DEF PageInv, DocumentInv, ThemeInv
<1>2. HeadScript
  <2>1. Runs
    BY DEF PageNext, Serves, Elsewhere, OtherTab, SystemChanges, Visits, Reload, page, theme
  <2> QED
    BY <1>1, <2>1 DEF Runs, Hydrate, MountEffect, ToggleTheme, Navigate, theme
<1> QED
  BY <1>1, <1>2 DEF HeadScript, ResolveInitialTheme

(* A page comes up in the theme chosen last, unless no route matches or it *)
(* is root's error page for a submission whose action threw.               *)
THEOREM ChoiceSurvives == PageSpec => ChoiceIsKept
<1>1. PageInv /\ [PageNext]_page =>
        [phase = "blank" /\ phase' = "painted" /\ storage = "works" /\ matched /\ ~thrown =>
           htmlDark' = IF chosen = "none" THEN prefersDark ELSE chosen = "dark"]_page
  BY StepKeepsChoice
<1> QED
  BY <1>1, PageInvariance, PTL DEF PageSpec, ChoiceIsKept
=============================================================================
