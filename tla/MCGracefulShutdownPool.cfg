SPECIFICATION SafeSpec

CONSTANTS
  Connections = {x1, x2}
  Deliveries = {d1, d2}
  ForceExitAfter = 2
  MaxTime = 4
  Wirings = {FALSE}

INVARIANTS
  CleanExitReleases

\* The process is gone, or time is bounded.
CHECK_DEADLOCK FALSE
