----------------------------- MODULE CopyButton -----------------------------
(***************************************************************************)
(* CopyButton of applications/web/app/components/copy-button.tsx: each     *)
(* click writes to the clipboard, shows the outcome and arms a timer that  *)
(* takes it away; clicks overlap.                                          *)
(***************************************************************************)
EXTENDS Naturals

CONSTANT MaxClicks \* bound on the writes and timers under way at one time

VARIABLES
  copyState, \* "idle", "copied" or "failed"
  writes,    \* the writeText calls that have not settled
  timers     \* the timers armed; all wait two seconds, so they fire in order

copy == <<copyState, writes, timers>>

CInit == copyState = "idle" /\ writes = 0 /\ timers = 0

(* navigator.clipboard is missing: the click fails at once.                *)
ClickUnsupported ==
  /\ writes + timers < MaxClicks
  /\ copyState' = "failed"
  /\ timers' = timers + 1
  /\ UNCHANGED writes

ClickWrites ==
  /\ writes + timers < MaxClicks
  /\ writes' = writes + 1
  /\ UNCHANGED <<copyState, timers>>

\* Mutant: a failed write returns before the timer is armed.
WriteSettlesOnly ==
  /\ writes > 0
  /\ writes' = writes - 1
  /\ \/ copyState' = "copied" /\ timers' = timers + 1
     \/ copyState' = "failed" /\ timers' = timers

(* writeText resolves or rejects.                                          *)
WriteSettles ==
  /\ writes > 0
  /\ writes' = writes - 1
  /\ copyState' \in {"copied", "failed"}
  /\ timers' = timers + 1

TimerEnds ==
  /\ timers > 0
  /\ timers' = timers - 1
  /\ copyState' = "idle"
  /\ UNCHANGED writes

CNext == ClickUnsupported \/ ClickWrites \/ WriteSettles \/ TimerEnds

(* Every outcome that is shown is taken away again, however clicks, writes *)
(* and timers overlap.                                                     *)
ConfirmationsEnd == copyState # "idle" ~> copyState = "idle"
=============================================================================
