-------------------------- MODULE GracefulShutdown --------------------------
(***************************************************************************)
(* The web server's process from its first request to its exit             *)
(* (createGracefulShutdown and the main guard of applications/web/         *)
(* server.ts, infra/prisma-client.ts): connections that are served, kept   *)
(* alive or stuck, clicks left behind by answered requests, signals that   *)
(* may come more than once, the force-exit timer and the disconnect.       *)
(*                                                                         *)
(* Each delivery of a signal runs a handler of its own, with its own timer *)
(* and its own callback of server.close.                                   *)
(***************************************************************************)
EXTENDS Naturals

CONSTANTS
  Connections,
  Deliveries,     \* deliveries of SIGTERM or SIGINT
  ForceExitAfter, \* forceExitAfterMs
  MaxTime,        \* bound on the time
  Wirings         \* whether server.ts's copy of prisma-client.ts is the one
                  \* the engine uses: a subset of BOOLEAN

ASSUME ShutdownAssumption ==
  /\ ForceExitAfter \in Nat \ {0} /\ MaxTime \in Nat
  /\ Wirings \subseteq BOOLEAN

VARIABLES
  now,
  exited,     \* "no", or the status the process left with: "0" or "1"
  listening,  \* the server accepts connections
  conn,       \* conn[x]: "new", "serving", "idle" (kept alive) or "closed"
  click,      \* click[x]: "none", "pending", "settled" or "dropped": the click
              \* of the connection's last request
  handler,    \* handler[d]: "none", "closing", "disconnecting" or "exiting"
  deadline,   \* deadline[d]: when handler d's timer fires
  firstSignal,\* when the first signal came
  client,     \* the engine's Prisma client: "unset", "open" or "released"
  errorLogged,\* a failed disconnect was logged
  shared      \* there is one copy of prisma-client.ts

vars == <<now, exited, listening, conn, click, handler, deadline,
          firstSignal, client, errorLogged, shared>>

Init ==
  /\ now = 0
  /\ exited = "no"
  /\ listening = TRUE
  /\ conn = [x \in Connections |-> "new"]
  /\ click = [x \in Connections |-> "none"]
  /\ handler = [d \in Deliveries |-> "none"]
  /\ deadline = [d \in Deliveries |-> 0]
  /\ firstSignal = 0
  /\ client = "unset"
  /\ errorLogged = FALSE
  /\ shared \in Wirings

process == <<listening, handler, deadline, firstSignal>>
prisma  == <<client, errorLogged, shared>>

Alive == exited = "no"

Signalled == {d \in Deliveries : handler[d] # "none"}

(***************************************************************************)
(* Requests.  The build, and with it the engine, is loaded by the first.   *)
(***************************************************************************)
ServeOn(x) ==
  /\ conn' = [conn EXCEPT ![x] = "serving"]
  /\ click' = [click EXCEPT ![x] = "none"]
  /\ client' = IF client = "unset" THEN "open" ELSE client
  /\ UNCHANGED <<now, exited, process, errorLogged, shared>>

\* Mutant: connections are accepted after server.close.
RequestAlways(x) ==
  /\ Alive
  /\ conn[x] = "new"
  /\ ServeOn(x)

Request(x) ==
  /\ Alive
  /\ listening
  /\ conn[x] = "new"
  /\ ServeOn(x)

(* A kept connection asks again, even when the server no longer listens.   *)
RequestAgain(x) ==
  /\ Alive
  /\ conn[x] = "idle"
  /\ click[x] # "pending"
  /\ ServeOn(x)

(* The answer is sent; the connection is kept or closed, and a redirect    *)
(* leaves its click behind.                                                *)
Respond(x) ==
  /\ Alive
  /\ conn[x] = "serving"
  /\ \E kept \in {"idle", "closed"} : conn' = [conn EXCEPT ![x] = kept]
  /\ \E left \in {"none", "pending"} : click' = [click EXCEPT ![x] = left]
  /\ UNCHANGED <<now, exited, process, prisma>>

(* The client hangs up or the keep-alive time is over.                     *)
IdleCloses(x) ==
  /\ Alive
  /\ conn[x] = "idle"
  /\ conn' = [conn EXCEPT ![x] = "closed"]
  /\ UNCHANGED <<now, exited, click, process, prisma>>

(* The update of the row is answered, or its failure logged.               *)
ClickSettles(x) ==
  /\ Alive
  /\ click[x] = "pending"
  /\ click' = [click EXCEPT ![x] = "settled"]
  /\ UNCHANGED <<now, exited, conn, process, prisma>>

(***************************************************************************)
(* The handler                                                             *)
(***************************************************************************)
\* Mutant: one timer for all signals, restarted by each.
ArmShared(d) ==
  deadline' = [e \in Deliveries |->
                 IF e = d \/ e \in Signalled THEN now + ForceExitAfter
                 ELSE deadline[e]]

(* The timer is armed before anything else.                                *)
Arm(d) == deadline' = [deadline EXCEPT ![d] = now + ForceExitAfter]

(* server.close stops listening and closes the idle connections.           *)
Signal(d) ==
  /\ Alive
  /\ handler[d] = "none"
  /\ now + ForceExitAfter <= MaxTime
  /\ Arm(d)
  /\ listening' = FALSE
  /\ conn' = [x \in Connections |-> IF conn[x] = "idle" THEN "closed" ELSE conn[x]]
  /\ handler' = [handler EXCEPT ![d] = "closing"]
  /\ firstSignal' = IF Signalled = {} THEN now ELSE firstSignal
  /\ UNCHANGED <<now, exited, click, prisma>>

Drained == \A x \in Connections : conn[x] \notin {"serving", "idle"}

DisconnectIsNoop == ~shared \/ client # "open"

AfterClose(d) ==
  handler' = [handler EXCEPT
                ![d] = IF DisconnectIsNoop THEN "exiting" ELSE "disconnecting"]

HandlerOnly ==
  UNCHANGED <<now, exited, listening, conn, click, deadline, firstSignal, shared>>

\* Mutant: the callback runs at once, without waiting for the connections.
CloseCallbackEarly(d) ==
  /\ Alive
  /\ handler[d] = "closing"
  /\ AfterClose(d)
  /\ HandlerOnly /\ UNCHANGED <<client, errorLogged>>

(* server.close calls back once no connection is left; disconnect has      *)
(* nothing to do when this copy of the module has no client.               *)
CloseCallback(d) ==
  /\ Alive
  /\ handler[d] = "closing"
  /\ Drained
  /\ AfterClose(d)
  /\ HandlerOnly /\ UNCHANGED <<client, errorLogged>>

DisconnectSucceeds(d) ==
  /\ Alive
  /\ handler[d] = "disconnecting"
  /\ client' = "released"
  /\ handler' = [handler EXCEPT ![d] = "exiting"]
  /\ HandlerOnly /\ UNCHANGED errorLogged

\* Mutant: the rejection is swallowed without a word.
DisconnectFailsSilently(d) ==
  /\ Alive
  /\ handler[d] = "disconnecting"
  /\ handler' = [handler EXCEPT ![d] = "exiting"]
  /\ HandlerOnly /\ UNCHANGED <<client, errorLogged>>

(* The rejection is logged and swallowed.                                  *)
DisconnectFails(d) ==
  /\ Alive
  /\ handler[d] = "disconnecting"
  /\ errorLogged' = TRUE
  /\ handler' = [handler EXCEPT ![d] = "exiting"]
  /\ HandlerOnly /\ UNCHANGED client

(* The process ends and takes the clicks still under way with it.          *)
ExitWith(status) ==
  /\ exited' = status
  /\ click' = [x \in Connections |->
                 IF click[x] = "pending" THEN "dropped" ELSE click[x]]
  /\ UNCHANGED <<now, conn, process, prisma>>

Exit(d) ==
  /\ Alive
  /\ handler[d] = "exiting"
  /\ ExitWith("0")

\* Mutant: the timer is cleared as soon as the server has closed.
ForceExitUntilClosed(d) ==
  /\ Alive
  /\ handler[d] = "closing"
  /\ now >= deadline[d]
  /\ ExitWith("1")

ForceExit(d) ==
  /\ Alive
  /\ d \in Signalled
  /\ now >= deadline[d]
  /\ ExitWith("1")

(* Time passes; a timer that is due fires first.                           *)
Tick ==
  /\ Alive
  /\ now < MaxTime
  /\ \A d \in Signalled : now < deadline[d]
  /\ now' = now + 1
  /\ UNCHANGED <<exited, conn, click, process, prisma>>

Next ==
  \/ \E x \in Connections : \/ Request(x) \/ RequestAgain(x) \/ Respond(x)
                            \/ IdleCloses(x) \/ ClickSettles(x)
  \/ \E d \in Deliveries : \/ Signal(d) \/ CloseCallback(d)
                           \/ DisconnectSucceeds(d) \/ DisconnectFails(d)
                           \/ Exit(d) \/ ForceExit(d)
  \/ Tick

SafeSpec == Init /\ [][Next]_vars

(* The clock runs and due timers fire.  Nothing is assumed of connections, *)
(* the database or clients: any of them may be stuck.                      *)
Spec ==
  /\ SafeSpec
  /\ WF_vars(Tick)
  /\ \A d \in Deliveries : WF_vars(ForceExit(d))

(***************************************************************************)
(* Properties                                                              *)
(***************************************************************************)
TypeOK ==
  /\ now \in 0..MaxTime
  /\ exited \in {"no", "0", "1"}
  /\ listening \in BOOLEAN
  /\ conn \in [Connections -> {"new", "serving", "idle", "closed"}]
  /\ click \in [Connections -> {"none", "pending", "settled", "dropped"}]
  /\ handler \in [Deliveries -> {"none", "closing", "disconnecting", "exiting"}]
  /\ deadline \in [Deliveries -> 0..MaxTime]
  /\ firstSignal \in 0..MaxTime
  /\ client \in {"unset", "open", "released"}
  /\ errorLogged \in BOOLEAN
  /\ shared \in Wirings

(* The process never leaves with status 0 while a request is being served  *)
(* or a connection kept, whatever signals follow the first.                *)
CleanExitIsDrained == exited = "0" => Drained

(* From the first signal on, the process lives no longer than              *)
(* ForceExitAfter: a second signal does not extend its time.               *)
ForcedInTime ==
  Signalled # {} /\ Alive => now <= firstSignal + ForceExitAfter

(* Where the server disconnects the client the engine uses, it leaves with *)
(* status 0 only after the client is released or the failure is logged.    *)
ReleasedOrLogged ==
  exited = "0" /\ shared => client # "open" \/ errorLogged

(* A signal ends the process, with connections stuck and a disconnect that *)
(* is never answered.                                                      *)
SignalsEndTheProcess == Signalled # {} ~> ~Alive

(* What the comments in server.ts promise of a clean exit: no database     *)
(* connection is left open unless its failure was logged.                  *)
CleanExitReleases == exited = "0" => client # "open" \/ errorLogged

(***************************************************************************)
(* The inductive invariant behind the safety properties.                   *)
(***************************************************************************)
AfterItsClose == {d \in Deliveries : handler[d] \in {"disconnecting", "exiting"}}

(* The server listens until the first signal; once a close callback has    *)
(* run, no connection is there or can come.                                *)
ClosedAfterSignal ==
  /\ listening <=> Signalled = {}
  /\ AfterItsClose # {} => Drained

(* The first signal's timer is armed and not yet due to have fired.        *)
FirstTimerArmed ==
  Signalled # {} =>
    /\ \E d \in Signalled : deadline[d] = firstSignal + ForceExitAfter
    /\ \A d \in Signalled : Alive => now <= deadline[d]

(* A handler about to exit has nothing left to release.                    *)
Exiting == {d \in Deliveries : handler[d] = "exiting"}

ExitingReleased ==
  /\ exited = "0" => Exiting # {}
  /\ Exiting # {} /\ shared => client # "open" \/ errorLogged

IInv == TypeOK /\ ClosedAfterSignal /\ FirstTimerArmed /\ ExitingReleased
=============================================================================
