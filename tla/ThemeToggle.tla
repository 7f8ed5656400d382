---------------------------- MODULE ThemeToggle -----------------------------
(***************************************************************************)
(* The theme of a page: the script in the head that applies the stored or  *)
(* the system's preference before the first paint, and the ThemeToggle     *)
(* button, which React hydrates later (applications/web/app/lib/theme.ts,  *)
(* components/theme-toggle.tsx).                                           *)
(***************************************************************************)
VARIABLES
  storage,     \* localStorage: "works", "readonly" (setItem throws) or "denied"
  stored,      \* localStorage.theme: "dark", "light" or "none"
  prefersDark, \* the system's preference
  phase,       \* of the page: "blank", "painted", "hydrated" or "mounted"
  htmlDark,    \* whether <html> has the class dark
  isDark,      \* React's state, which the button shows
  chosen,      \* the theme last clicked for in any tab, or found stored
  first,       \* the theme the page came up in
  odd          \* whether the button was clicked an odd number of times since

theme == <<storage, stored, prefersDark, phase, htmlDark, isDark, chosen, first, odd>>

Name(dark) == IF dark THEN "dark" ELSE "light"

TInit ==
  /\ storage \in {"works", "readonly", "denied"}
  /\ stored \in {"none", "dark", "light"}
  /\ prefersDark \in BOOLEAN
  /\ phase = "blank"
  /\ htmlDark = FALSE
  /\ isDark = FALSE
  /\ chosen = stored
  /\ first = FALSE /\ odd = FALSE

(* resolveInitialTheme; what it throws leaves the page as it was: light.   *)
ResolveInitialTheme ==
  IF storage = "denied" THEN FALSE
  ELSE IF stored # "none" THEN stored = "dark"
  ELSE prefersDark

HeadScript ==
  /\ phase = "blank"
  /\ phase' = "painted"
  /\ htmlDark' = ResolveInitialTheme
  /\ first' = htmlDark' /\ odd' = FALSE
  /\ UNCHANGED <<storage, stored, prefersDark, isDark, chosen>>

(* The policy blocks the script: the page is painted as it was sent.       *)
PaintBare ==
  /\ phase = "blank"
  /\ phase' = "painted"
  /\ first' = htmlDark /\ odd' = FALSE
  /\ UNCHANGED <<storage, stored, prefersDark, htmlDark, isDark, chosen>>

(* React takes the server's markup over, the button's default with it.     *)
Hydrate ==
  /\ phase = "painted"
  /\ phase' = "hydrated"
  /\ UNCHANGED <<storage, stored, prefersDark, htmlDark, isDark, chosen, first, odd>>

(* The effect that reconciles the button with the page.                    *)
MountEffect ==
  /\ phase = "hydrated"
  /\ phase' = "mounted"
  /\ isDark' = htmlDark
  /\ UNCHANGED <<storage, stored, prefersDark, htmlDark, chosen, first, odd>>

Store(dark) == stored' = IF storage = "works" THEN Name(dark) ELSE stored

\* Mutant: the next theme is computed from React's state.
ToggleStateTheme ==
  /\ phase \in {"hydrated", "mounted"}
  /\ htmlDark' = ~isDark
  /\ isDark' = ~isDark
  /\ Store(~isDark)
  /\ chosen' = Name(~isDark)
  /\ odd' = ~odd
  /\ UNCHANGED <<storage, prefersDark, phase, first>>

(* toggleTheme                                                             *)
ToggleTheme ==
  /\ phase \in {"hydrated", "mounted"}
  /\ htmlDark' = ~htmlDark
  /\ isDark' = ~htmlDark
  /\ Store(~htmlDark)
  /\ chosen' = Name(~htmlDark)
  /\ odd' = ~odd
  /\ UNCHANGED <<storage, prefersDark, phase, first>>

(* The other page is shown without a load: its button is a new one.        *)
Navigate ==
  /\ phase = "mounted"
  /\ phase' = "hydrated"
  /\ isDark' = FALSE
  /\ UNCHANGED <<storage, stored, prefersDark, htmlDark, chosen, first, odd>>

(* The button is clicked in another tab, whose theme may be either.        *)
OtherTab ==
  /\ \E dark \in BOOLEAN : Store(dark) /\ chosen' = Name(dark)
  /\ UNCHANGED <<storage, prefersDark, phase, htmlDark, isDark, first, odd>>

SystemChanges ==
  /\ prefersDark' = ~prefersDark
  /\ UNCHANGED <<storage, stored, phase, htmlDark, isDark, chosen, first, odd>>

(* The page is loaded anew.                                                *)
Reload ==
  /\ phase' = "blank"
  /\ htmlDark' = FALSE
  /\ isDark' = FALSE
  /\ UNCHANGED <<storage, stored, prefersDark, chosen, first, odd>>

(***************************************************************************)
(* Properties                                                              *)
(***************************************************************************)
(* Every click switches the theme that is shown, the first one as well     *)
(* that comes before React knows in which theme the page came up; and once *)
(* it knows, the button offers the theme that is not shown.                *)
ClicksSwitch ==
  /\ phase # "blank" => htmlDark = (first # odd)
  /\ phase = "mounted" => isDark = htmlDark

(* Behind it and behind what a load shows: a page that has not been        *)
(* painted is light, and storage that works holds what was chosen.         *)
ThemeInv ==
  /\ storage \in {"works", "readonly", "denied"}
  /\ stored \in {"none", "dark", "light"}
  /\ prefersDark \in BOOLEAN /\ htmlDark \in BOOLEAN /\ isDark \in BOOLEAN
  /\ first \in BOOLEAN /\ odd \in BOOLEAN
  /\ phase \in {"blank", "painted", "hydrated", "mounted"}
  /\ phase = "blank" => ~htmlDark
  /\ storage = "works" => chosen = stored
  /\ ClicksSwitch
=============================================================================
