-------------------------------- MODULE Page --------------------------------
(***************************************************************************)
(* A tab that visits pages of the site: each request gets its nonce and is *)
(* routed (Document) and its document rendered (StreamRender); once the    *)
(* shell has come the head's script runs, React hydrates it and the        *)
(* buttons work, while the server may still be streaming the rest; then    *)
(* the page is loaded again.                                               *)
(***************************************************************************)
EXTENDS StreamRender, ThemeToggle, CopyButton, Document

page == <<render, theme, copy, document>>

PageInit == RInit /\ TInit /\ CInit /\ DInit

Serves ==
  /\ \/ DNext /\ UNCHANGED render
     \/ stage = "routed" /\ RNext /\ UNCHANGED document
  /\ UNCHANGED <<theme, copy>>

(* Scripts run in a browser that has the shell and finds their nonce.      *)
Runs ==
  /\ request = "browser" /\ shellRendered
  /\ \/ ScriptsRun /\ (HeadScript \/ Hydrate \/ MountEffect \/ ToggleTheme \/ Navigate)
        /\ UNCHANGED copy
     \/ ~ScriptsRun /\ PaintBare /\ UNCHANGED copy
     \/ phase \in {"hydrated", "mounted"} /\ CNext /\ UNCHANGED theme
  /\ UNCHANGED <<render, document>>

Elsewhere == (OtherTab \/ SystemChanges) /\ UNCHANGED <<render, copy, document>>

(* The next visit.  The render of the last one has ended: it shares        *)
(* nothing with the next.                                                  *)
Visits ==
  /\ promise # "pending" /\ (Pending = {} \/ ~Rendering)
  /\ promise = "rejected" => handled
  /\ Reload
  /\ request' = "none" /\ part' = [p \in Parts |-> "pending"]
  /\ responseStatusCode' = 0 /\ shellRendered' = FALSE
  /\ promise' = "pending" /\ sent' = 0 /\ body' = "none"
  /\ timeout' = FALSE /\ aborted' = FALSE /\ handled' = FALSE
  /\ reported' = {} /\ logged' = {}
  /\ stage' = "none" /\ nonce' = "none" /\ UNCHANGED latest
  /\ matched' = FALSE /\ thrown' = FALSE
  /\ copyState' = "idle" /\ writes' = 0 /\ timers' = 0

PageNext == Serves \/ Runs \/ Elsewhere \/ Visits

(* Timers fire, on the server and in the browser; nothing else has to      *)
(* happen.                                                                 *)
PageSpec ==
  /\ PageInit /\ [][PageNext]_page
  /\ WF_page(TimerFires /\ UNCHANGED <<theme, copy, document>>)
  /\ WF_page(TimerEnds /\ UNCHANGED <<render, theme, document>>)

(***************************************************************************)
(* Properties                                                              *)
(***************************************************************************)
(* A page comes up in the theme last chosen in any tab, if localStorage    *)
(* keeps it, and in the system's if none was chosen: whatever requests the *)
(* server has under way, the head's script carries the nonce the policy of *)
(* its own document names.  It does not hold of a URL that no route        *)
(* matches, nor of root's error page for a failed submission, for which    *)
(* the root loader does not run: see the README.                           *)
ChoiceIsKept ==
  [][phase = "blank" /\ phase' = "painted" /\ storage = "works" /\ matched /\ ~thrown =>
       htmlDark' = IF chosen = "none" THEN prefersDark ELSE chosen = "dark"]_page

(* The inductive invariant of the three: the render, the theme and the     *)
(* nonce each keep theirs under everything the others do.                  *)
PageInv == RenderInv /\ ThemeInv /\ DocumentInv
=============================================================================
