SPECIFICATION Spec

CONSTANTS
  Connections = {x1, x2}
  Deliveries = {d1, d2}
  ForceExitAfter = 2
  MaxTime = 4
  Wirings = {TRUE, FALSE}

INVARIANTS
  IInv
  CleanExitIsDrained
  ForcedInTime
  ReleasedOrLogged

PROPERTIES
  SignalsEndTheProcess

\* The process is gone, or time is bounded.
CHECK_DEADLOCK FALSE
