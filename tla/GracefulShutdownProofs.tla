----------------------- MODULE GracefulShutdownProofs -----------------------
(***************************************************************************)
(* The safety of the server's exit, for any number of connections and of   *)
(* signals, any timeout and either wiring of prisma-client.ts.             *)
(***************************************************************************)
EXTENDS GracefulShutdown, TLAPS

LEMMA InitEstablishes == Init => IInv
<1> SUFFICES ASSUME Init PROVE IInv
  OBVIOUS
<1>1. TypeOK
  <2>1. 0 \in 0..MaxTime
    BY ShutdownAssumption
  <2>2. /\ conn \in [Connections -> {"new", "serving", "idle", "closed"}]
        /\ click \in [Connections -> {"none", "pending", "settled", "dropped"}]
        /\ handler \in [Deliveries -> {"none", "closing", "disconnecting", "exiting"}]
    BY DEF Init
  <2>3. deadline \in [Deliveries -> 0..MaxTime]
    BY <2>1 DEF Init
  <2>4. QED
    BY <2>1, <2>2, <2>3 DEF Init, TypeOK
<1>2. Signalled = {} /\ AfterItsClose = {} /\ Exiting = {} /\ exited = "no" /\ listening = TRUE
  BY DEF Init, Signalled, AfterItsClose, Exiting
<1>3. QED
  BY <1>1, <1>2 DEF IInv, ClosedAfterSignal, FirstTimerArmed, ExitingReleased

(* What requests and clicks do: no handler, timer or signal is touched.    *)
LEMMA ConnectionsPreserve ==
  ASSUME IInv, NEW x \in Connections,
         Request(x) \/ RequestAgain(x) \/ Respond(x) \/ IdleCloses(x) \/ ClickSettles(x)
  PROVE  IInv'
<1> USE DEF IInv
<1>1. UNCHANGED <<now, exited, process, errorLogged, shared>> /\ exited = "no"
  BY DEF Request, RequestAgain, Respond, IdleCloses, ClickSettles, ServeOn, Alive, prisma
<1>2. TypeOK'
  BY <1>1 DEF TypeOK, process, prisma, Request, RequestAgain, Respond, IdleCloses,
              ClickSettles, ServeOn
<1>3. ASSUME AfterItsClose # {}
      PROVE  UNCHANGED <<conn, client>>
  <2>1. Drained /\ ~listening
    BY <1>3 DEF ClosedAfterSignal, AfterItsClose, Signalled
  <2>2. conn[x] \notin {"serving", "idle"}
    BY <2>1 DEF Drained
  <2>3. QED
    BY <2>1, <2>2 DEF Request, RequestAgain, Respond, IdleCloses, ClickSettles, prisma
<1>4. ClosedAfterSignal'
  BY <1>1, <1>3 DEF ClosedAfterSignal, AfterItsClose, Signalled, Drained, process
<1>5. FirstTimerArmed'
  BY <1>1 DEF FirstTimerArmed, Signalled, Alive, process
<1>6. ExitingReleased'
  BY <1>1, <1>3 DEF ExitingReleased, Exiting, AfterItsClose, process
<1>7. QED
  BY <1>2, <1>4, <1>5, <1>6

(* A signal arms its timer no earlier than the first one's.                *)
LEMMA SignalPreserves ==
  ASSUME IInv, NEW d \in Deliveries, Signal(d)
  PROVE  IInv'
<1> USE DEF IInv
<1>1. /\ handler' = [handler EXCEPT ![d] = "closing"]
      /\ deadline' = [deadline EXCEPT ![d] = now + ForceExitAfter]
      /\ firstSignal' = IF Signalled = {} THEN now ELSE firstSignal
      /\ handler[d] = "none" /\ exited = "no" /\ now + ForceExitAfter <= MaxTime
      /\ listening' = FALSE
      /\ UNCHANGED <<now, exited, click, prisma>>
  BY DEF Signal, Arm, Alive
<1>2. TypeOK'
  <2>1. now + ForceExitAfter \in 0..MaxTime
    BY <1>1, ShutdownAssumption DEF TypeOK
  <2>2. /\ deadline' \in [Deliveries -> 0..MaxTime]
        /\ handler' \in [Deliveries -> {"none", "closing", "disconnecting", "exiting"}]
        /\ firstSignal' \in 0..MaxTime
    BY <1>1, <2>1 DEF TypeOK
  <2>3. conn' \in [Connections -> {"new", "serving", "idle", "closed"}]
    BY DEF TypeOK, Signal
  <2>4. QED
    BY <1>1, <2>2, <2>3 DEF TypeOK, prisma
<1>3. Signalled' = Signalled \cup {d}
  BY <1>1 DEF Signalled, TypeOK
<1>4. AfterItsClose' = AfterItsClose /\ Exiting' = Exiting
  BY <1>1 DEF AfterItsClose, Exiting, TypeOK
<1>5. ClosedAfterSignal'
  <2>1. Drained => Drained'
    BY DEF Drained, Signal, TypeOK
  <2>2. QED
    BY <1>1, <1>3, <1>4, <2>1 DEF ClosedAfterSignal
<1>6. FirstTimerArmed'
  <2>1. \A e \in Deliveries : deadline'[e] = IF e = d THEN now + ForceExitAfter ELSE deadline[e]
    BY <1>1 DEF TypeOK
  <2>2. \A e \in Signalled' : now' <= deadline'[e]
    BY <1>1, <1>3, <2>1, ShutdownAssumption DEF FirstTimerArmed, TypeOK, Alive, Signalled
  <2>3. CASE Signalled = {}
    BY <1>1, <1>3, <2>1, <2>2, <2>3 DEF FirstTimerArmed
  <2>4. CASE Signalled # {}
    <3>1. PICK e \in Signalled : deadline[e] = firstSignal + ForceExitAfter
      BY <2>4 DEF FirstTimerArmed
    <3>2. e # d /\ e \in Deliveries
      BY <1>1, <3>1 DEF Signalled
    <3>3. deadline'[e] = firstSignal' + ForceExitAfter
      BY <1>1, <2>1, <2>4, <3>1, <3>2
    <3>4. QED
      BY <1>3, <2>2, <3>1, <3>3 DEF FirstTimerArmed
  <2>5. QED
    BY <2>3, <2>4
<1>7. ExitingReleased'
  BY <1>1, <1>4 DEF ExitingReleased, prisma
<1>8. QED
  BY <1>2, <1>5, <1>6, <1>7

(* Past its signal a handler keeps its timer; it closes when drained, and  *)
(* comes to its exit with the client released or the failure logged.       *)
LEMMA HandlerPreserves ==
  ASSUME IInv, NEW d \in Deliveries,
         CloseCallback(d) \/ DisconnectSucceeds(d) \/ DisconnectFails(d)
  PROVE  IInv'
<1> USE DEF IInv
<1>1. /\ exited = "no" /\ handler[d] \in {"closing", "disconnecting"}
      /\ UNCHANGED <<now, exited, listening, conn, click, deadline, firstSignal, shared>>
  BY DEF CloseCallback, DisconnectSucceeds, DisconnectFails, HandlerOnly, Alive
<1>2. PICK label \in {"disconnecting", "exiting"} :
        handler' = [handler EXCEPT ![d] = label]
  BY DEF CloseCallback, AfterClose, DisconnectSucceeds, DisconnectFails
<1>3. TypeOK'
  BY <1>1, <1>2 DEF TypeOK, CloseCallback, DisconnectSucceeds, DisconnectFails
<1>4. Signalled' = Signalled /\ d \in Signalled
  BY <1>1, <1>2 DEF Signalled, TypeOK
<1>5. Drained
  BY <1>1 DEF CloseCallback, DisconnectSucceeds, DisconnectFails, ClosedAfterSignal,
              AfterItsClose
<1>6. ClosedAfterSignal'
  BY <1>1, <1>4, <1>5 DEF ClosedAfterSignal, Drained
<1>7. FirstTimerArmed'
  BY <1>1, <1>4 DEF FirstTimerArmed, Alive
<1>8. ExitingReleased'
  <2>1. CASE CloseCallback(d)
    <3>1. handler' = [handler EXCEPT ![d] = IF DisconnectIsNoop THEN "exiting" ELSE "disconnecting"]
          /\ UNCHANGED <<client, errorLogged>>
      BY <2>1 DEF CloseCallback, AfterClose
    <3>2. CASE DisconnectIsNoop
      BY <1>1, <3>1, <3>2 DEF ExitingReleased, DisconnectIsNoop
    <3>3. CASE ~DisconnectIsNoop
      <4>1. Exiting' = Exiting
        BY <1>1, <3>1, <3>3 DEF Exiting, TypeOK
      <4>2. QED
        BY <1>1, <3>1, <4>1 DEF ExitingReleased
    <3>4. QED
      BY <3>2, <3>3
  <2>2. CASE DisconnectSucceeds(d)
    BY <1>1, <2>2 DEF DisconnectSucceeds, ExitingReleased
  <2>3. CASE DisconnectFails(d)
    BY <1>1, <2>3 DEF DisconnectFails, ExitingReleased
  <2>4. QED
    BY <2>1, <2>2, <2>3
<1>9. QED
  BY <1>3, <1>6, <1>7, <1>8

(* Leaving and waiting change nothing else.                                *)
LEMMA ExitsPreserve ==
  ASSUME IInv, NEW d \in Deliveries, Exit(d) \/ ForceExit(d)
  PROVE  IInv'
<1> USE DEF IInv
<1>1. /\ exited' \in {"0", "1"}
      /\ exited' = "0" => handler[d] = "exiting"
      /\ UNCHANGED <<now, conn, process, prisma>>
  BY DEF Exit, ForceExit, ExitWith
<1>2. TypeOK'
  BY <1>1 DEF TypeOK, Exit, ForceExit, ExitWith, process, prisma
<1>3. ClosedAfterSignal' /\ FirstTimerArmed' /\ ExitingReleased'
  BY <1>1 DEF ClosedAfterSignal, FirstTimerArmed, ExitingReleased, Signalled, AfterItsClose,
              Exiting, Drained, Alive, process, prisma
<1>4. QED
  BY <1>2, <1>3

LEMMA TickPreserves ==
  ASSUME IInv, Tick
  PROVE  IInv'
<1> USE DEF IInv
<1>1. /\ now' = now + 1 /\ now < MaxTime
      /\ \A d \in Signalled : now < deadline[d]
      /\ UNCHANGED <<exited, conn, click, process, prisma>>
  BY DEF Tick
<1>2. TypeOK'
  BY <1>1, ShutdownAssumption DEF TypeOK, process, prisma
<1>3. Signalled' = Signalled /\ Signalled \subseteq Deliveries
  BY <1>1 DEF Signalled, process
<1>4. \A d \in Signalled : now' <= deadline'[d]
  BY <1>1, <1>3 DEF TypeOK, process
<1>5. FirstTimerArmed'
  BY <1>1, <1>3, <1>4 DEF FirstTimerArmed, process
<1>6. ClosedAfterSignal' /\ ExitingReleased'
  BY <1>1 DEF ClosedAfterSignal, ExitingReleased, Signalled, AfterItsClose, Exiting, Drained,
              process, prisma
<1>7. QED
  BY <1>2, <1>5, <1>6

LEMMA StepPreserves == IInv /\ [Next]_vars => IInv'
<1> SUFFICES ASSUME IInv, [Next]_vars PROVE IInv'
  OBVIOUS
<1>1. CASE UNCHANGED vars
  BY <1>1 DEF IInv, TypeOK, ClosedAfterSignal, FirstTimerArmed, ExitingReleased, Signalled,
              AfterItsClose, Exiting, Drained, Alive, vars
<1>2. QED
  BY <1>1, ConnectionsPreserve, SignalPreserves, HandlerPreserves, ExitsPreserve,
     TickPreserves DEF Next

(* The types; that the server listens exactly until the first signal, that *)
(* no connection is left once a close callback has run, that the first     *)
(* signal's timer is armed, and that a handler exits with nothing left to  *)
(* release, all hold in every state of server.ts's process.                *)
THEOREM Invariance == SafeSpec => []IInv
BY InitEstablishes, StepPreserves, PTL DEF SafeSpec

(* A process that leaves with status 0 has answered every request it took. *)
THEOREM CleanExit == SafeSpec => []CleanExitIsDrained
<1>1. IInv => CleanExitIsDrained
  BY DEF IInv, CleanExitIsDrained, ClosedAfterSignal, ExitingReleased, AfterItsClose, Exiting
<1>2. QED
  BY <1>1, Invariance, PTL

(* The first signal bounds the life of the process by ForceExitAfter,      *)
(* whatever connections, the database and further signals do.              *)
THEOREM Forced == SafeSpec => []ForcedInTime
<1>1. IInv => ForcedInTime
  BY DEF IInv, ForcedInTime, FirstTimerArmed
<1>2. QED
  BY <1>1, Invariance, PTL

(* Where one copy of prisma-client.ts is shared, a clean exit has released *)
(* the client or logged why not.                                           *)
THEOREM Released == SafeSpec => []ReleasedOrLogged
<1>1. IInv => ReleasedOrLogged
  BY DEF IInv, ReleasedOrLogged, ExitingReleased
<1>2. QED
  BY <1>1, Invariance, PTL
=============================================================================
