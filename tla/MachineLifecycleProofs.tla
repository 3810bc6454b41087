----------------------- MODULE MachineLifecycleProofs -----------------------
(***************************************************************************)
(* Theorems about MachineLifecycle for any number of brokers, commands,    *)
(* containers, clicks and faults:                                          *)
(*                                                                         *)
(*   TypeCorrect              every variable keeps its type                *)
(*   OwnershipCorrect         the inductive invariant                      *)
(*   ContainerUnderLockCorrect, WindowUnderLockCorrect                     *)
(*                            what machine.lock protects                   *)
(*   OnlyOwnerBringsUpCorrect who may write Starting and Running           *)
(*   RootfsUsedByOneCorrect   the refinement of RootfsUse                  *)
(*                                                                         *)
(* The proofs go action by action.  First the types; then Ownership, with  *)
(* each action summed up by which process moves, what comes to life and    *)
(* which window opens, so that four lemmas (OwnerStep, StepAside,          *)
(* BrokerEnds, OwnershipAfterDeath) carry most of the actions.             *)
(***************************************************************************)
EXTENDS MachineLifecycle, TLAPS

-----------------------------------------------------------------------------
\* Types

\* The members of the enumerations that the steps below need.  The
\* enumerations themselves stay closed, which keeps the obligations small.
LEMMA BrokerPcNames ==
    /\ "locking" \in BrokerPc /\ "opening" \in BrokerPc /\ "begin" \in BrokerPc
    /\ "spawning" \in BrokerPc /\ "network" \in BrokerPc /\ "waiting" \in BrokerPc
    /\ "ready" \in BrokerPc /\ "integrating" \in BrokerPc /\ "running" \in BrokerPc
    /\ "diagnosed" \in BrokerPc /\ "ended" \in BrokerPc /\ "failed" \in BrokerPc
    /\ "parked" \in BrokerPc /\ "listening" \in BrokerPc /\ "closing" \in BrokerPc
    /\ "unlocking" \in BrokerPc /\ "gone" \in BrokerPc /\ "unborn" \in BrokerPc
  BY DEF BrokerPc

\* The same for the containers.
LEMMA PhaseNames ==
    /\ "held" \in Phase /\ "booting" \in Phase /\ "up" \in Phase
    /\ "halting" \in Phase /\ "doomed" \in Phase /\ "clean" \in Phase
    /\ "unclean" \in Phase /\ "unborn" \in Phase
  BY DEF Phase

\* The same for RuntimeState.state.
LEMMA StateNames ==
    /\ "Starting" \in MachineState /\ "Running" \in MachineState
    /\ "Stopping" \in MachineState /\ "Stopped" \in MachineState
    /\ "Failed" \in MachineState
  BY DEF MachineState

\* The same for the commands.
LEMMA ClientPcNames ==
    /\ "new" \in ClientPc /\ "judging" \in ClientPc /\ "sending" \in ClientPc
    /\ "awaiting" \in ClientPc /\ "retrying" \in ClientPc /\ "spawning" \in ClientPc
    /\ "watching" \in ClientPc /\ "saving" \in ClientPc /\ "killing" \in ClientPc
    /\ "exiting" \in ClientPc /\ "stopping" \in ClientPc /\ "closing" \in ClientPc
    /\ "locking" \in ClientPc /\ "holding" \in ClientPc /\ "ok" \in ClientPc
    /\ "error" \in ClientPc
  BY DEF ClientPc

\* What the shared helpers do to the types, each stated once.
LEMMA SavedType ==
    ASSUME NEW state \in MachineState, NEW b \in Brokers \cup {Nobody},
           NEW s \in Sessions \cup {Nobody}
    PROVE  Saved(state, b, s) \in RuntimeState
  BY DEF Saved, RuntimeState

\* A broker that only moves keeps its type.
LEMMA GotoType ==
    ASSUME broker \in [Brokers -> Broker], NEW b, NEW pc \in BrokerPc, Goto(b, pc)
    PROVE  broker' \in [Brokers -> Broker]
  BY DEF Goto, Broker

\* A command that only moves keeps its type.
LEMMA ClientGotoType ==
    ASSUME client \in [Clients -> Client], NEW c, NEW pc \in ClientPc,
           ClientGoto(c, pc)
    PROVE  client' \in [Clients -> Client]
  BY DEF ClientGoto, Client

\* terminate leaves a container of the same type.
LEMMA KilledType ==
    ASSUME container \in [Sessions -> Container], NEW s
    PROVE  Killed(s) \in [Sessions -> Container]
  BY PhaseNames DEF Killed, Container

\* So does SIGRTMIN+3.
LEMMA RequestShutdownType ==
    ASSUME container \in [Sessions -> Container], NEW s, RequestShutdown(s)
    PROVE  container' \in [Sessions -> Container]
<1>1. PICK phase \in AfterHaltSignal(container[s].phase) :
        container' = [container EXCEPT ![s].phase = phase]
  BY DEF RequestShutdown
<1>2. s \in Sessions => phase \in Phase
  BY <1>1, PhaseNames DEF AfterHaltSignal, Container
<1> QED BY <1>1, <1>2 DEF Container

\* So does the death of a broker, for the lock and the broker too.
LEMMA DieType ==
    ASSUME broker \in [Brokers -> Broker], container \in [Sessions -> Container],
           lock \in Brokers \cup Clients \cup {Nobody}, NEW b, Die(b)
    PROVE  /\ broker' \in [Brokers -> Broker]
           /\ container' \in [Sessions -> Container]
           /\ lock' \in Brokers \cup Clients \cup {Nobody}
<1>1. broker' \in [Brokers -> Broker]
  BY GotoType, BrokerPcNames DEF Die
<1>2. container' \in [Sessions -> Container]
  BY PhaseNames DEF Die, Container
<1> QED BY <1>1, <1>2 DEF Die

\* Using up a fault keeps the budget natural.
LEMMA FaultType ==
    ASSUME budget \in [user : Nat, fault : Nat], Fault
    PROVE  budget' \in [user : Nat, fault : Nat]
<1>1. budget.fault - 1 \in Nat
  BY DEF Fault
<1> QED BY <1>1 DEF Fault

\* Using up a click keeps the budget natural.
LEMMA ClickType ==
    ASSUME budget \in [user : Nat, fault : Nat], Click
    PROVE  budget' \in [user : Nat, fault : Nat]
<1>1. budget.user - 1 \in Nat
  BY DEF Click
<1> QED BY <1>1 DEF Click

\* set_state returns a display.
LEMMA SetStateType ==
    ASSUME NEW d \in Display, NEW state \in MachineState
    PROVE  SetState(d, state) \in Display
  BY DEF SetState, Display

\* apply_host_command keeps the window and the mailbox typed.
LEMMA ApplyType ==
    ASSUME display \in [Brokers -> Display],
           mailbox \in [Brokers -> Request \cup {"none"}],
           NEW b \in Brokers, NEW command \in Command \cup {"restart"},
           Apply(b, command)
    PROVE  /\ display' \in [Brokers -> Display]
           /\ mailbox' \in [Brokers -> Request \cup {"none"}]
<1>0. display[b] \in Display
  OBVIOUS
<1>1. CASE RequestStart(b)
  BY <1>0, <1>1, SetStateType, StateNames DEF RequestStart, Request
<1>2. ASSUME NEW restart \in BOOLEAN, RequestStop(b, restart)
      PROVE  /\ display' \in [Brokers -> Display]
             /\ mailbox' \in [Brokers -> Request \cup {"none"}]
  <2>1. SetState(display[b], "Stopping") \in Display
    BY <1>0, SetStateType, StateNames
  <2>2. [SetState(display[b], "Stopping") EXCEPT !.close = ~restart] \in Display
    BY <2>1 DEF Display
  <2> QED BY <1>2, <2>2 DEF RequestStop, Request
<1>3. CASE RequestClose(b)
  <2>1. [display[b] EXCEPT !.close = TRUE] \in Display
    BY <1>0 DEF Display
  <2>2. SetState([display[b] EXCEPT !.close = TRUE], "Stopping") \in Display
    BY <2>1, SetStateType, StateNames
  <2>3. [display[b] EXCEPT !.up = FALSE] \in Display
    BY <1>0 DEF Display
  <2> QED BY <1>3, <2>2, <2>3 DEF RequestClose, Request
<1> QED BY <1>1, <1>2, <1>3 DEF Apply, Command

\* send_host_control queues only commands the display understands.
LEMMA SendType ==
    ASSUME inbox \in [Brokers -> Seq(Command)], client \in [Clients -> Client],
           NEW c \in Clients, NEW command \in Command, NEW pc \in ClientPc,
           Send(c, command, pc)
    PROVE  /\ inbox' \in [Brokers -> Seq(Command)]
           /\ client' \in [Clients -> Client]
<1>1. ASSUME NEW b \in Brokers, inbox' = [inbox EXCEPT ![b] = Append(@, command)]
      PROVE  inbox' \in [Brokers -> Seq(Command)]
  <2>1. Append(inbox[b], command) \in Seq(Command)
    OBVIOUS
  <2> QED BY <1>1, <2>1
<1>2. inbox' \in [Brokers -> Seq(Command)]
  BY <1>1 DEF Send
<1>3. ASSUME NEW to \in ClientPc, ClientGoto(c, to)
      PROVE  client' \in [Clients -> Client]
  BY <1>3, ClientGotoType
<1>4. client' \in [Clients -> Client]
  BY <1>3, ClientPcNames DEF Send
<1> QED BY <1>2, <1>4

\* TypeOK, taken apart once.
LEMMA Parts ==
    ASSUME TypeOK
    PROVE  /\ runtime \in RuntimeState
           /\ lock \in Brokers \cup Clients \cup {Nobody}
           /\ broker \in [Brokers -> Broker]
           /\ container \in [Sessions -> Container]
           /\ display \in [Brokers -> Display]
           /\ mailbox \in [Brokers -> Request \cup {"none"}]
           /\ inbox \in [Brokers -> Seq(Command)]
           /\ client \in [Clients -> Client]
           /\ budget \in [user : Nat, fault : Nat]
  BY DEF TypeOK

\* Every step of a broker keeps the types.
LEMMA TypeBroker ==
    ASSUME TypeOK, NEW b \in Brokers, BrokerNext(b)
    PROVE  TypeOK'
<1>1. CASE AcquireLock(b)
  <2>1. lock' \in Brokers \cup Clients \cup {Nobody}
    BY <1>1, Parts DEF AcquireLock
  <2>2. broker' \in [Brokers -> Broker]
    BY <1>1, Parts, BrokerPcNames, GotoType DEF AcquireLock
  <2> QED BY <1>1, <2>1, <2>2 DEF AcquireLock, TypeOK
<1>2. CASE LockTimeout(b)
  <2>1. broker' \in [Brokers -> Broker]
    BY <1>2, Parts, BrokerPcNames, GotoType DEF LockTimeout
  <2> QED BY <1>2, <2>1 DEF LockTimeout, TypeOK
<1>3. CASE OpenDisplay(b)
  <2>1. broker' \in [Brokers -> Broker]
    BY <1>3, Parts, BrokerPcNames, GotoType DEF OpenDisplay
  <2>2. display' \in [Brokers -> Display]
    BY <1>3, Parts, StateNames, SetStateType DEF OpenDisplay, Display
  <2> QED BY <1>3, <2>1, <2>2 DEF OpenDisplay, TypeOK
<1>4. CASE OpenDisplayFails(b)
  <2>1. broker' \in [Brokers -> Broker]
    BY <1>4, Parts, BrokerPcNames, GotoType DEF OpenDisplayFails
  <2>2. budget' \in [user : Nat, fault : Nat]
    BY <1>4, Parts, FaultType DEF OpenDisplayFails
  <2> QED BY <1>4, <2>1, <2>2 DEF OpenDisplayFails, TypeOK
<1>5. CASE BeginSession(b)
  <2>1. runtime' \in RuntimeState
    BY <1>5, Parts, StateNames, SavedType DEF BeginSession
  <2>2. broker' \in [Brokers -> Broker]
    BY <1>5, Parts, BrokerPcNames, StateNames DEF BeginSession, Broker
  <2>3. mailbox' \in [Brokers -> Request \cup {"none"}]
    BY <1>5, Parts DEF BeginSession, Request
  <2> QED BY <1>5, <2>1, <2>2, <2>3 DEF BeginSession, TypeOK
<1>6. CASE SpawnFails(b)
  <2>1. broker' \in [Brokers -> Broker]
    BY <1>6, Parts, BrokerPcNames, GotoType DEF SpawnFails
  <2>2. budget' \in [user : Nat, fault : Nat]
    BY <1>6, Parts, FaultType DEF SpawnFails
  <2> QED BY <1>6, <2>1, <2>2 DEF SpawnFails, TypeOK
<1>7. ASSUME NEW s \in Sessions, SpawnContainer(b, s) PROVE TypeOK'
  <2>1. broker \in [Brokers -> Broker] /\ broker[b].memory \in MachineState
    BY Parts DEF Broker
  <2>2. runtime' \in RuntimeState
    BY <1>7, <2>1, SavedType DEF SpawnContainer
  <2>3. broker' \in [Brokers -> Broker]
    <3> DEFINE next == [broker[b] EXCEPT !.pc = "network", !.session = s]
    <3>1. next \in Broker
      BY <2>1, BrokerPcNames DEF Broker
    <3>2. broker' = [broker EXCEPT ![b] = next]
      BY <1>7, <2>1 DEF SpawnContainer
    <3> HIDE DEF next
    <3> QED BY <2>1, <3>1, <3>2
  <2>4. container' \in [Sessions -> Container]
    BY <1>7, Parts, PhaseNames DEF SpawnContainer, Container
  <2> QED BY <1>7, <2>2, <2>3, <2>4 DEF SpawnContainer, TypeOK
<1>8. CASE ReleaseBarrier(b)
  <2>1. broker' \in [Brokers -> Broker]
    BY <1>8, Parts, BrokerPcNames, GotoType DEF ReleaseBarrier
  <2>2. container' \in [Sessions -> Container]
    BY <1>8, Parts, PhaseNames DEF ReleaseBarrier, Container
  <2> QED BY <1>8, <2>1, <2>2 DEF ReleaseBarrier, TypeOK
<1>9. CASE NetworkFails(b)
  <2>1. broker' \in [Brokers -> Broker]
    BY <1>9, Parts, BrokerPcNames, GotoType DEF NetworkFails
  <2>2. container' \in [Sessions -> Container]
    BY <1>9, Parts, KilledType DEF NetworkFails
  <2>3. budget' \in [user : Nat, fault : Nat]
    BY <1>9, Parts, FaultType DEF NetworkFails
  <2> QED BY <1>9, <2>1, <2>2, <2>3 DEF NetworkFails, TypeOK
<1>10. CASE DesktopReady(b)
  <2>1. broker' \in [Brokers -> Broker]
    <3> DEFINE next == [broker[b] EXCEPT !.pc = "ready", !.asked = "none"]
    <3>1. broker \in [Brokers -> Broker] /\ "ready" \in BrokerPc
      BY Parts, BrokerPcNames
    <3>2. next \in Broker
      BY <3>1 DEF Broker
    <3>3. broker' = [broker EXCEPT ![b] = next]
      BY <1>10, <3>1 DEF DesktopReady
    <3> HIDE DEF next
    <3> QED BY <3>1, <3>2, <3>3
  <2> QED BY <1>10, <2>1 DEF DesktopReady, TypeOK
<1>11. CASE ReadRequest(b)
  <2>1. broker' \in [Brokers -> Broker]
    <3>1. broker \in [Brokers -> Broker] /\ mailbox[b] \in Request \cup {"none"}
      BY Parts
    <3>2. [broker[b] EXCEPT !.taken = mailbox[b]] \in Broker
      BY <3>1 DEF Broker
    <3>3. broker' = [broker EXCEPT ![b] = [broker[b] EXCEPT !.taken = mailbox[b]]]
      BY <1>11, <3>1 DEF ReadRequest
    <3> QED BY <3>1, <3>2, <3>3
  <2> QED BY <1>11, <2>1 DEF ReadRequest, TypeOK
<1>12. CASE TakeRequest(b)
  <2>1. /\ broker \in [Brokers -> Broker]
        /\ broker[b].session \in Sessions \cup {Nobody}
        /\ broker[b].taken \in Request \cup {"none"}
        /\ "Stopping" \in MachineState
    BY Parts, StateNames DEF Broker
  <2>2. runtime' \in RuntimeState
    <3>1. [runtime EXCEPT !.state = "Stopping"] \in RuntimeState
      BY Parts, <2>1 DEF RuntimeState
    <3>2. Saved("Stopping", b, broker[b].session) \in RuntimeState
      BY <2>1, SavedType
    <3>3. runtime \in RuntimeState
      BY Parts
    <3> QED BY <1>12, <3>1, <3>2, <3>3 DEF TakeRequest
  <2>3. broker' \in [Brokers -> Broker]
    <3> DEFINE asked == IF broker[b].taken = "start" THEN broker[b].asked
                                                     ELSE broker[b].taken
               memory == IF broker[b].pc = "running" /\ broker[b].taken # "start"
                         THEN "Stopping" ELSE broker[b].memory
    <3>1. broker[b] \in Broker
      BY <2>1
    <3>2. asked \in {"none", "stop", "restart"}
      BY <2>1, <3>1 DEF Request, Broker
    <3>3. memory \in MachineState
      BY <2>1, <3>1 DEF Broker
    <3>4. broker' = [broker EXCEPT ![b] =
            [broker[b] EXCEPT !.taken = "none", !.asked = asked, !.memory = memory]]
      BY <1>12, <2>1 DEF TakeRequest, Broker
    <3> HIDE DEF asked, memory
    <3>5. [broker[b] EXCEPT !.taken = "none", !.asked = asked, !.memory = memory]
            \in Broker
      BY <3>1, <3>2, <3>3 DEF Broker
    <3> QED BY <2>1, <3>4, <3>5
  <2>4. container' \in [Sessions -> Container]
    BY <1>12, Parts, RequestShutdownType DEF TakeRequest
  <2>5. mailbox' \in [Brokers -> Request \cup {"none"}]
    BY <1>12, Parts DEF TakeRequest, Request
  <2> QED BY <1>12, <2>2, <2>3, <2>4, <2>5 DEF TakeRequest, TypeOK
<1>13. CASE StartupExit(b)
  <2>1. broker' \in [Brokers -> Broker]
    BY <1>13, Parts, BrokerPcNames, GotoType DEF StartupExit
  <2> QED BY <1>13, <2>1 DEF StartupExit, TypeOK
<1>14. CASE StartupDeadline(b)
  <2>1. broker' \in [Brokers -> Broker]
    BY <1>14, Parts, BrokerPcNames, GotoType DEF StartupDeadline
  <2>2. container' \in [Sessions -> Container]
    BY <1>14, Parts, KilledType DEF StartupDeadline
  <2> QED BY <1>14, <2>1, <2>2 DEF StartupDeadline, TypeOK
<1>15. CASE SaveReady(b)
  <2>1. /\ broker \in [Brokers -> Broker]
        /\ "integrating" \in BrokerPc /\ "Running" \in MachineState
    BY Parts, BrokerPcNames, StateNames
  <2>2. runtime' \in RuntimeState
    BY <1>15, <2>1, SavedType DEF SaveReady, Broker
  <2>3. broker' \in [Brokers -> Broker]
    <3> DEFINE next == [broker[b] EXCEPT !.pc = "integrating", !.memory = "Running"]
    <3>1. next \in Broker
      BY <2>1 DEF Broker
    <3>2. broker' = [broker EXCEPT ![b] = next]
      BY <1>15, <2>1 DEF SaveReady
    <3> HIDE DEF next
    <3> QED BY <2>1, <3>1, <3>2
  <2> QED BY <1>15, <2>2, <2>3 DEF SaveReady, TypeOK
<1>16. CASE SaveIntegrated(b)
  <2>1. runtime' \in RuntimeState
    BY <1>16, Parts, StateNames, SavedType DEF SaveIntegrated, Broker
  <2>2. broker' \in [Brokers -> Broker]
    BY <1>16, Parts, BrokerPcNames, GotoType DEF SaveIntegrated
  <2> QED BY <1>16, <2>1, <2>2 DEF SaveIntegrated, TypeOK
<1>17. CASE ObserveExit(b)
  <2>1. runtime' \in RuntimeState
    BY <1>17, Parts, StateNames, SavedType DEF ObserveExit, Broker
  <2>2. broker' \in [Brokers -> Broker]
    BY <1>17, Parts, BrokerPcNames, GotoType DEF ObserveExit
  <2> QED BY <1>17, <2>1, <2>2 DEF ObserveExit, TypeOK
<1>18. CASE ObserveDisplayExit(b)
  <2>1. broker' \in [Brokers -> Broker]
    <3>1. broker \in [Brokers -> Broker]
      BY Parts
    <3> DEFINE exit == IF display[b].window \/ runtime.state = "Stopping"
                       THEN "expected" ELSE "grace"
               next == [broker[b] EXCEPT !.displayExit = exit]
    <3>2. exit \in {"no", "expected", "grace"}
      OBVIOUS
    <3>3. broker' = [broker EXCEPT ![b] = next]
      BY <1>18, <3>1 DEF ObserveDisplayExit
    <3> HIDE DEF exit
    <3>4. next \in Broker
      BY <3>1, <3>2 DEF Broker
    <3> HIDE DEF next
    <3> QED BY <3>1, <3>3, <3>4
  <2> QED BY <1>18, <2>1 DEF ObserveDisplayExit, TypeOK
<1>19. CASE GraceExpires(b)
  <2>1. broker' \in [Brokers -> Broker]
    BY <1>19, Parts, BrokerPcNames, GotoType DEF GraceExpires
  <2>2. container' \in [Sessions -> Container]
    BY <1>19, Parts, KilledType DEF GraceExpires
  <2> QED BY <1>19, <2>1, <2>2 DEF GraceExpires, TypeOK
<1>20. CASE NetworkDies(b)
  <2>1. broker' \in [Brokers -> Broker]
    BY <1>20, Parts, BrokerPcNames, GotoType DEF NetworkDies
  <2>2. container' \in [Sessions -> Container]
    BY <1>20, Parts, KilledType DEF NetworkDies
  <2>3. budget' \in [user : Nat, fault : Nat]
    BY <1>20, Parts, FaultType DEF NetworkDies
  <2> QED BY <1>20, <2>1, <2>2, <2>3 DEF NetworkDies, TypeOK
<1>21. CASE ReadForDiagnostics(b)
  <2>1. broker' \in [Brokers -> Broker]
    <3> DEFINE memory == IF runtime.state = "Stopping" THEN "Stopping"
                                                       ELSE broker[b].memory
    <3>1. broker \in [Brokers -> Broker] /\ broker[b] \in Broker
      BY Parts
    <3>2. memory \in MachineState
      BY <3>1, StateNames DEF Broker
    <3>3. broker' = [broker EXCEPT ![b] =
            [broker[b] EXCEPT !.pc = "diagnosed", !.memory = memory]]
      BY <1>21, <3>1 DEF ReadForDiagnostics, Broker
    <3> HIDE DEF memory
    <3>4. [broker[b] EXCEPT !.pc = "diagnosed", !.memory = memory] \in Broker
      BY <3>1, <3>2, BrokerPcNames DEF Broker
    <3> QED BY <3>1, <3>3, <3>4
  <2> QED BY <1>21, <2>1 DEF ReadForDiagnostics, TypeOK
<1>22. CASE SaveDiagnostics(b)
  <2>1. runtime' \in RuntimeState
    BY <1>22, Parts, StateNames, SavedType DEF SaveDiagnostics, Broker
  <2>2. broker' \in [Brokers -> Broker]
    BY <1>22, Parts, BrokerPcNames, GotoType DEF SaveDiagnostics
  <2> QED BY <1>22, <2>1, <2>2 DEF SaveDiagnostics, TypeOK
<1>23. CASE ShutdownOnClose(b)
  <2>1. broker \in [Brokers -> Broker] /\ "Stopping" \in MachineState
    BY Parts, StateNames
  <2>2. runtime' \in RuntimeState
    BY <1>23, <2>1, SavedType DEF ShutdownOnClose, Broker
  <2>3. broker' \in [Brokers -> Broker]
    <3> DEFINE next == [broker[b] EXCEPT !.closeSeen = TRUE, !.memory = "Stopping"]
    <3>1. next \in Broker
      BY <2>1 DEF Broker
    <3>2. broker' = [broker EXCEPT ![b] = next]
      BY <1>23, <2>1 DEF ShutdownOnClose
    <3> HIDE DEF next
    <3> QED BY <2>1, <3>1, <3>2
  <2>4. container' \in [Sessions -> Container]
    BY <1>23, Parts, RequestShutdownType DEF ShutdownOnClose
  <2> QED BY <1>23, <2>2, <2>3, <2>4 DEF ShutdownOnClose, TypeOK
<1>24. CASE FinishSession(b)
  <2>1. runtime' \in RuntimeState
    BY <1>24, Parts, StateNames, SavedType DEF FinishSession
  <2>2. broker' \in [Brokers -> Broker]
    BY <1>24, Parts, BrokerPcNames, GotoType DEF FinishSession
  <2> QED BY <1>24, <2>1, <2>2 DEF FinishSession, TypeOK
<1>25. CASE FailSession(b)
  <2>1. runtime' \in RuntimeState
    BY <1>25, Parts, StateNames, SavedType DEF FailSession
  <2>2. broker' \in [Brokers -> Broker]
    BY <1>25, Parts, BrokerPcNames, GotoType DEF FailSession
  <2> QED BY <1>25, <2>1, <2>2 DEF FailSession, TypeOK
<1>26. CASE DisplayStillOpen(b)
  <2>1. broker' \in [Brokers -> Broker]
    BY <1>26, Parts, BrokerPcNames, GotoType DEF DisplayStillOpen
  <2> QED BY <1>26, <2>1 DEF DisplayStillOpen, TypeOK
<1>27. CASE DisplayClosed(b)
  <2>1. runtime' \in RuntimeState
    BY <1>27, Parts, StateNames, SavedType DEF DisplayClosed
  <2>2. broker' \in [Brokers -> Broker]
    BY <1>27, Parts, BrokerPcNames, GotoType DEF DisplayClosed
  <2> QED BY <1>27, <2>1, <2>2 DEF DisplayClosed, TypeOK
<1>28. CASE TakeParkedRequest(b)
  <2>1. broker' \in [Brokers -> Broker]
    <3>1. /\ broker \in [Brokers -> Broker]
          /\ "parked" \in BrokerPc /\ "begin" \in BrokerPc
      BY Parts, BrokerPcNames
    <3> DEFINE pc == IF broker[b].taken = "stop" THEN "parked" ELSE "begin"
               next == [broker[b] EXCEPT !.taken = "none", !.pc = pc]
    <3>2. pc \in BrokerPc
      BY <3>1
    <3>3. broker' = [broker EXCEPT ![b] = next]
      BY <1>28, <3>1 DEF TakeParkedRequest
    <3> HIDE DEF pc
    <3>4. next \in Broker
      BY <3>1, <3>2 DEF Broker
    <3> HIDE DEF next
    <3> QED BY <3>1, <3>3, <3>4
  <2>2. mailbox' \in [Brokers -> Request \cup {"none"}]
    BY <1>28, Parts DEF TakeParkedRequest, Request
  <2> QED BY <1>28, <2>1, <2>2 DEF TakeParkedRequest, TypeOK
<1>29. CASE NothingRequested(b)
  <2>1. broker' \in [Brokers -> Broker]
    BY <1>29, Parts, BrokerPcNames, GotoType DEF NothingRequested
  <2> QED BY <1>29, <2>1 DEF NothingRequested, TypeOK
<1>30. CASE CloseDisplay(b)
  <2>1. broker' \in [Brokers -> Broker]
    BY <1>30, Parts, BrokerPcNames, GotoType DEF CloseDisplay
  <2>2. display' \in [Brokers -> Display]
    BY <1>30, Parts, StateNames, SetStateType DEF CloseDisplay, Display
  <2>3. inbox' \in [Brokers -> Seq(Command)]
    BY <1>30, Parts DEF CloseDisplay
  <2> QED BY <1>30, <2>1, <2>2, <2>3 DEF CloseDisplay, TypeOK
<1>31. CASE ReleaseLock(b)
  <2>1. lock' \in Brokers \cup Clients \cup {Nobody}
    BY <1>31, Parts DEF ReleaseLock
  <2>2. broker' \in [Brokers -> Broker]
    BY <1>31, Parts, BrokerPcNames, GotoType DEF ReleaseLock
  <2> QED BY <1>31, <2>1, <2>2 DEF ReleaseLock, TypeOK
<1>32. CASE BrokerCrash(b)
  <2>1. lock' \in Brokers \cup Clients \cup {Nobody}
    BY <1>32, Parts, DieType DEF BrokerCrash
  <2>2. broker' \in [Brokers -> Broker]
    BY <1>32, Parts, DieType DEF BrokerCrash
  <2>3. container' \in [Sessions -> Container]
    BY <1>32, Parts, DieType DEF BrokerCrash
  <2>4. budget' \in [user : Nat, fault : Nat]
    BY <1>32, Parts, FaultType DEF BrokerCrash
  <2> QED BY <1>32, <2>1, <2>2, <2>3, <2>4 DEF BrokerCrash, TypeOK
<1> QED
  BY <1>1, <1>2, <1>3, <1>4, <1>5, <1>6, <1>7, <1>8, <1>9, <1>10, <1>11,
     <1>12, <1>13, <1>14, <1>15, <1>16, <1>17, <1>18, <1>19, <1>20, <1>21,
     <1>22, <1>23, <1>24, <1>25, <1>26, <1>27, <1>28, <1>29, <1>30, <1>31,
     <1>32
     DEF BrokerNext

\* Every step of a display keeps the types.
LEMMA TypeDisplay ==
    ASSUME TypeOK, NEW b \in Brokers, DisplayNext(b)
    PROVE  TypeOK'
<1>1. CASE UserActs(b)
  <2>1. display' \in [Brokers -> Display]
    BY <1>1, Parts, ApplyType DEF UserActs
  <2>2. mailbox' \in [Brokers -> Request \cup {"none"}]
    BY <1>1, Parts, ApplyType DEF UserActs
  <2>3. inbox' \in [Brokers -> Seq(Command)]
    BY <1>1, Parts DEF UserActs
  <2>4. budget' \in [user : Nat, fault : Nat]
    BY <1>1, Parts, ClickType DEF UserActs
  <2> QED BY <1>1, <2>1, <2>2, <2>3, <2>4 DEF UserActs, TypeOK
<1>2. CASE ApplyCommand(b)
  <2>1. display' \in [Brokers -> Display]
    BY <1>2, Parts, ApplyType DEF ApplyCommand
  <2>2. mailbox' \in [Brokers -> Request \cup {"none"}]
    BY <1>2, Parts, ApplyType DEF ApplyCommand
  <2>3. inbox' \in [Brokers -> Seq(Command)]
    BY <1>2, Parts DEF ApplyCommand
  <2> QED BY <1>2, <2>1, <2>2, <2>3 DEF ApplyCommand, TypeOK
<1>3. CASE Poll(b)
  <2>1. display[b] \in Display /\ runtime.state \in MachineState
    BY Parts DEF RuntimeState
  <2>2. display' \in [Brokers -> Display]
    <3> DEFINE shown == IF display[b].state # runtime.state
                        THEN SetState(display[b], runtime.state) ELSE display[b]
               up == ~(display[b].close /\ runtime.state \in Terminal)
    <3>1. shown \in Display
      BY <2>1, SetStateType
    <3>2. [shown EXCEPT !.up = up] \in Display
      BY <2>1, <3>1 DEF Display
    <3>3. display' = [display EXCEPT ![b] = [shown EXCEPT !.up = up]]
      BY <1>3 DEF Poll
    <3> HIDE DEF shown, up
    <3> QED BY <3>2, <3>3, Parts
  <2>3. inbox' \in [Brokers -> Seq(Command)]
    BY <1>3, Parts DEF Poll
  <2> QED BY <1>3, <2>2, <2>3 DEF Poll, TypeOK
<1>4. CASE GuestDisconnected(b)
  <2>1. display' \in [Brokers -> Display]
    <3>1. PICK state \in Terminal :
              display' = [display EXCEPT ![b] = SetState(display[b], state)]
      BY <1>4 DEF GuestDisconnected
    <3>2. SetState(display[b], state) \in Display
      BY Parts, StateNames, SetStateType DEF Terminal
    <3> QED BY <3>1, <3>2, Parts
  <2>2. budget' \in [user : Nat, fault : Nat]
    BY <1>4, Parts, FaultType DEF GuestDisconnected
  <2> QED BY <1>4, <2>1, <2>2 DEF GuestDisconnected, TypeOK
<1>8. CASE GuestConnected(b)
  <2>1. display' \in [Brokers -> Display]
    BY <1>8, Parts, StateNames, SetStateType DEF GuestConnected, Display
  <2> QED BY <1>8, <2>1 DEF GuestConnected, TypeOK
<1>5. CASE DisplayFails(b)
  <2>1. display' \in [Brokers -> Display]
    BY <1>5, Parts, StateNames, SetStateType DEF DisplayFails, Display
  <2>2. budget' \in [user : Nat, fault : Nat]
    BY <1>5, Parts, FaultType DEF DisplayFails
  <2> QED BY <1>5, <2>1, <2>2 DEF DisplayFails, TypeOK
<1>6. CASE SaveWindow(b)
  <2>1. display' \in [Brokers -> Display]
    BY <1>6, Parts, StateNames, SetStateType DEF SaveWindow, Display
  <2> QED BY <1>6, <2>1 DEF SaveWindow, TypeOK
<1>7. CASE DisplayCrash(b)
  <2>1. display' \in [Brokers -> Display]
    BY <1>7, Parts, StateNames, SetStateType DEF DisplayCrash, Display, Quit
  <2>2. inbox' \in [Brokers -> Seq(Command)]
    BY <1>7, Parts DEF DisplayCrash, Quit
  <2>3. budget' \in [user : Nat, fault : Nat]
    BY <1>7, Parts, FaultType DEF DisplayCrash
  <2> QED BY <1>7, <2>1, <2>2, <2>3 DEF DisplayCrash, TypeOK
<1> QED
  BY <1>1, <1>2, <1>3, <1>4, <1>5, <1>6, <1>7, <1>8
     DEF DisplayNext

\* Every step of a container keeps the types.
LEMMA TypeContainer ==
    ASSUME TypeOK, NEW s \in Sessions, ContainerNext(s)
    PROVE  TypeOK'
<1>1. CASE DesktopStarts(s)
  <2>1. container' \in [Sessions -> Container]
    <3> DEFINE phase == IF container[s].phase = "booting" THEN "up"
                                                    ELSE container[s].phase
               next == [container[s] EXCEPT !.ready = TRUE, !.phase = phase]
    <3>1. container \in [Sessions -> Container] /\ container[s] \in Container
      BY Parts
    <3>2. phase \in Phase
      BY <3>1, PhaseNames DEF Container
    <3>3. container' = [container EXCEPT ![s] = next]
      BY <1>1, <3>1 DEF DesktopStarts
    <3> HIDE DEF phase
    <3>4. next \in Container
      BY <3>1, <3>2 DEF Container
    <3> HIDE DEF next
    <3> QED BY <3>1, <3>3, <3>4
  <2> QED BY <1>1, <2>1 DEF DesktopStarts, TypeOK
<1>2. CASE GuestPoweroff(s)
  <2>1. container' \in [Sessions -> Container]
    BY <1>2, Parts, PhaseNames DEF GuestPoweroff, Container
  <2>2. budget' \in [user : Nat, fault : Nat]
    BY <1>2, Parts, ClickType DEF GuestPoweroff
  <2> QED BY <1>2, <2>1, <2>2 DEF GuestPoweroff, TypeOK
<1>3. CASE Halt(s)
  <2>1. PICK phase \in {"clean", "unclean"} :
        container' = [container EXCEPT ![s].phase = phase,
                          ![s].marker = IF container[s].ready THEN TRUE ELSE @]
    BY <1>3 DEF Halt
  <2>2. container \in [Sessions -> Container] /\ phase \in Phase
    BY <2>1, Parts, PhaseNames
  <2>3. container' \in [Sessions -> Container]
    <3> DEFINE marker == IF container[s].ready THEN TRUE ELSE container[s].marker
               next == [container[s] EXCEPT !.phase = phase, !.marker = marker]
    <3>1. container[s] \in Container
      BY <2>2
    <3>2. marker \in BOOLEAN
      BY <3>1 DEF Container
    <3>3. container' = [container EXCEPT ![s] = next]
      BY <2>1, <2>2
    <3> HIDE DEF marker
    <3>4. next \in Container
      BY <2>2, <3>1, <3>2 DEF Container
    <3> HIDE DEF next
    <3> QED BY <2>2, <3>3, <3>4
  <2> QED BY <1>3, <2>3 DEF Halt, TypeOK
<1>4. CASE ContainerCrash(s)
  <2>1. container' \in [Sessions -> Container]
    BY <1>4, Parts, KilledType DEF ContainerCrash
  <2>2. budget' \in [user : Nat, fault : Nat]
    BY <1>4, Parts, FaultType DEF ContainerCrash
  <2> QED BY <1>4, <2>1, <2>2 DEF ContainerCrash, TypeOK
<1>5. CASE DoomedExits(s)
  <2>1. container' \in [Sessions -> Container]
    BY <1>5, Parts, PhaseNames DEF DoomedExits, Container
  <2> QED BY <1>5, <2>1 DEF DoomedExits, TypeOK
<1> QED
  BY <1>1, <1>2, <1>3, <1>4, <1>5
     DEF ContainerNext

\* Every step of a launcher command keeps the types.
LEMMA TypeClient ==
    ASSUME TypeOK, NEW c \in Clients, ClientNext(c)
    PROVE  TypeOK'
<1>1. CASE Issue(c)
  <2>1. client' \in [Clients -> Client]
    BY <1>1, Parts, ClientPcNames DEF Issue, Client, Remember
  <2> QED BY <1>1, <2>1 DEF Issue, TypeOK, Served
<1>2. CASE JudgeStart(c)
  <2>1. client' \in [Clients -> Client]
    BY <1>2, Parts, ClientPcNames, ClientGotoType DEF JudgeStart
  <2> QED BY <1>2, <2>1 DEF JudgeStart, TypeOK, Served
<1>3. CASE SendStart(c)
  <2>1. inbox' \in [Brokers -> Seq(Command)]
    BY <1>3, Parts, SendType, ClientPcNames DEF SendStart, Command
  <2>2. client' \in [Clients -> Client]
    BY <1>3, Parts, ClientPcNames, SendType DEF SendStart, Command
  <2> QED BY <1>3, <2>1, <2>2 DEF SendStart, TypeOK, Served
<1>4. CASE AwaitSupervised(c)
  <2>1. client' \in [Clients -> Client]
    BY <1>4, Parts, ClientPcNames, ClientGotoType DEF AwaitSupervised
  <2> QED BY <1>4, <2>1 DEF AwaitSupervised, TypeOK, Served
<1>5. CASE AwaitTimeout(c)
  <2>1. client' \in [Clients -> Client]
    BY <1>5, Parts, ClientPcNames, ClientGotoType DEF AwaitTimeout
  <2> QED BY <1>5, <2>1 DEF AwaitTimeout, TypeOK, Served
<1>6. CASE RetryStart(c)
  <2>1. client' \in [Clients -> Client]
    BY <1>6, Parts, ClientPcNames, ClientGotoType DEF RetryStart
  <2> QED BY <1>6, <2>1 DEF RetryStart, TypeOK, Served
<1>7. ASSUME NEW b \in Brokers, Spawn(c, b) PROVE TypeOK'
  <2>1. broker' \in [Brokers -> Broker]
    BY <1>7, Parts, BrokerPcNames, GotoType DEF Spawn
  <2>2. client' \in [Clients -> Client]
    <3> DEFINE next == [client[c] EXCEPT !.pc = "watching", !.child = b]
    <3>1. client \in [Clients -> Client] /\ client[c] \in Client
      BY Parts
    <3>2. next \in Client
      BY <3>1, ClientPcNames DEF Client
    <3>3. client' = [client EXCEPT ![c] = next]
      BY <1>7, <3>1 DEF Spawn
    <3> HIDE DEF next
    <3> QED BY <3>1, <3>2, <3>3
  <2> QED BY <1>7, <2>1, <2>2 DEF Spawn, TypeOK, Served
<1>8. CASE WatchStart(c)
  <2>1. client' \in [Clients -> Client]
    BY <1>8, Parts, ClientPcNames, ClientGotoType DEF WatchStart
  <2> QED BY <1>8, <2>1 DEF WatchStart, TypeOK, Served
<1>9. CASE WatchTimeout(c)
  <2>1. client' \in [Clients -> Client]
    BY <1>9, Parts, ClientPcNames, ClientGotoType DEF WatchTimeout
  <2> QED BY <1>9, <2>1 DEF WatchTimeout, TypeOK, Served
<1>10. CASE JudgeStop(c)
  <2>1. runtime' \in RuntimeState
    <3>1. Saved("Stopped", Nobody, Nobody) \in RuntimeState
      BY StateNames, SavedType
    <3> QED BY <1>10, <3>1, Parts DEF JudgeStop
  <2>2. client' \in [Clients -> Client]
    BY <1>10, Parts, ClientPcNames, ClientGotoType DEF JudgeStop
  <2> QED BY <1>10, <2>1, <2>2 DEF JudgeStop, TypeOK, Served
<1>11. CASE SendStop(c)
  <2>1. inbox' \in [Brokers -> Seq(Command)]
    BY <1>11, Parts, SendType, ClientPcNames DEF SendStop, Command
  <2>2. client' \in [Clients -> Client]
    BY <1>11, Parts, ClientPcNames, SendType DEF SendStop, Command
  <2> QED BY <1>11, <2>1, <2>2 DEF SendStop, TypeOK, Served
<1>12. CASE SaveStopping(c)
  <2>1. runtime' \in RuntimeState
    BY <1>12, Parts, StateNames DEF SaveStopping, Client, RuntimeState
  <2>2. client' \in [Clients -> Client]
    BY <1>12, Parts, ClientPcNames, ClientGotoType DEF SaveStopping
  <2> QED BY <1>12, <2>1, <2>2 DEF SaveStopping, TypeOK, Served
<1>13. CASE SignalContainer(c)
  <2>1. container' \in [Sessions -> Container]
    BY <1>13, Parts, RequestShutdownType DEF SignalContainer
  <2>2. client' \in [Clients -> Client]
    BY <1>13, Parts, ClientPcNames, ClientGotoType DEF SignalContainer
  <2> QED BY <1>13, <2>1, <2>2 DEF SignalContainer, TypeOK, Served
<1>14. CASE ContainerGone(c)
  <2>1. client' \in [Clients -> Client]
    BY <1>14, Parts, ClientPcNames, ClientGotoType DEF ContainerGone
  <2> QED BY <1>14, <2>1 DEF ContainerGone, TypeOK, Served
<1>15. CASE KillContainer(c)
  <2>1. container' \in [Sessions -> Container]
    BY <1>15, Parts, KilledType DEF KillContainer
  <2>2. client' \in [Clients -> Client]
    BY <1>15, Parts, ClientPcNames, ClientGotoType DEF KillContainer
  <2> QED BY <1>15, <2>1, <2>2 DEF KillContainer, TypeOK, Served
<1>16. CASE MachineStopped(c)
  <2>1. client' \in [Clients -> Client]
    BY <1>16, Parts, ClientPcNames, ClientGotoType DEF MachineStopped
  <2> QED BY <1>16, <2>1 DEF MachineStopped, TypeOK, Served
<1>17. CASE StopTimeout(c)
  <2>1. client' \in [Clients -> Client]
    BY <1>17, Parts, ClientPcNames, ClientGotoType DEF StopTimeout
  <2> QED BY <1>17, <2>1 DEF StopTimeout, TypeOK, Served
<1>18. CASE SendClose(c)
  <2>1. inbox' \in [Brokers -> Seq(Command)]
    BY <1>18, Parts, SendType, ClientPcNames DEF SendClose, Command
  <2>2. client' \in [Clients -> Client]
    BY <1>18, Parts, ClientPcNames, SendType DEF SendClose, Command
  <2> QED BY <1>18, <2>1, <2>2 DEF SendClose, TypeOK, Served
<1>19. CASE JudgeMaintenance(c)
  <2>1. lock' \in Brokers \cup Clients \cup {Nobody}
    BY <1>19, Parts, DieType DEF JudgeMaintenance
  <2>2. broker' \in [Brokers -> Broker]
    BY <1>19, Parts, DieType DEF JudgeMaintenance
  <2>3. container' \in [Sessions -> Container]
    BY <1>19, Parts, DieType DEF JudgeMaintenance
  <2>4. client' \in [Clients -> Client]
    BY <1>19, Parts, ClientPcNames, ClientGotoType DEF JudgeMaintenance
  <2> QED BY <1>19, <2>1, <2>2, <2>3, <2>4 DEF JudgeMaintenance, TypeOK, Served
<1>20. CASE LockForMaintenance(c)
  <2>1. lock' \in Brokers \cup Clients \cup {Nobody}
    BY <1>20, Parts DEF LockForMaintenance
  <2>2. client' \in [Clients -> Client]
    BY <1>20, Parts, ClientPcNames, ClientGotoType DEF LockForMaintenance
  <2> QED BY <1>20, <2>1, <2>2 DEF LockForMaintenance, TypeOK, Served
<1>21. CASE MaintenanceTimeout(c)
  <2>1. client' \in [Clients -> Client]
    BY <1>21, Parts, ClientPcNames, ClientGotoType DEF MaintenanceTimeout
  <2> QED BY <1>21, <2>1 DEF MaintenanceTimeout, TypeOK, Served
<1>22. CASE EndMaintenance(c)
  <2>1. lock' \in Brokers \cup Clients \cup {Nobody}
    BY <1>22, Parts DEF EndMaintenance
  <2>2. client' \in [Clients -> Client]
    BY <1>22, Parts, ClientPcNames, ClientGotoType DEF EndMaintenance
  <2> QED BY <1>22, <2>1, <2>2 DEF EndMaintenance, TypeOK, Served
<1> QED
  BY <1>1, <1>2, <1>3, <1>4, <1>5, <1>6, <1>7, <1>8, <1>9, <1>10, <1>11,
     <1>12, <1>13, <1>14, <1>15, <1>16, <1>17, <1>18, <1>19, <1>20, <1>21,
     <1>22
     DEF ClientNext

-----------------------------------------------------------------------------
\* Ownership: the pc of a process says whether it holds machine.lock, and the
\* container and the window live only in between.  A step is summed up by what
\* it does to the pcs, the lock, the containers and the windows.

\* No container comes to life in the step, and no window opens.
NothingAppears ==
    /\ \A s \in Sessions : Alive(s)' => Alive(s)
    /\ \A b \in Brokers : display'[b].up => display[b].up

\* The commands that hold the lock are the same before and after.
SameHolders ==
    \A c \in Clients : client'[c].pc = "holding" <=> client[c].pc = "holding"

\* Every broker stays where it is.
NobodyMoves ==
    \A b \in Brokers :
        broker'[b].pc = broker[b].pc /\ broker'[b].session = broker[b].session

\* Only broker b moves, to pc, and its session stays the same.
MovesTo(b, pc) ==
    \A o \in Brokers : /\ broker'[o].pc = IF o = b THEN pc ELSE broker[o].pc
                       /\ broker'[o].session = broker[o].session

\* What every step does: it keeps the ownership, and it lets nobody begin to
\* use the rootfs while another uses it.
Kept == Ownership' /\ (Using' \subseteq Using \/ Using = {})

\* If nothing appears and the holders stay, nobody starts using the rootfs.
LEMMA UsingShrinks ==
    ASSUME NothingAppears, SameHolders
    PROVE  Using' \subseteq Using
  BY DEF NothingAppears, SameHolders, Using

\* Goto moves one broker and leaves its session.
LEMMA MovesByGoto ==
    ASSUME TypeOK, NEW b \in Brokers, NEW pc, Goto(b, pc)
    PROVE  MovesTo(b, pc)
<1>1. broker \in [Brokers -> Broker]
  BY DEF TypeOK
<1> QED BY <1>1 DEF Goto, MovesTo, Broker

\* Killing a container makes it, and only it, not alive.
LEMMA KilledAlive ==
    ASSUME TypeOK, NEW s \in Sessions \cup {Nobody}, container' = Killed(s)
    PROVE  /\ \A z \in Sessions : Alive(z)' => Alive(z)
           /\ s \in Sessions => ~Alive(s)'
<1>1. container \in [Sessions -> Container]
  BY DEF TypeOK
<1> QED BY <1>1 DEF Killed, Alive, Container

\* A halt signal revives nothing.
LEMMA ShutdownAlive ==
    ASSUME TypeOK, NEW s \in Sessions \cup {Nobody}, RequestShutdown(s)
    PROVE  \A z \in Sessions : Alive(z)' => Alive(z)
<1>1. container \in [Sessions -> Container]
  BY DEF TypeOK
<1>2. PICK phase \in AfterHaltSignal(container[s].phase) :
        container' = [container EXCEPT ![s].phase = phase]
  BY DEF RequestShutdown
<1>3. s \in Sessions /\ phase \in {"held", "booting", "up", "halting"} => Alive(s)
  BY <1>2 DEF AfterHaltSignal, Alive
<1> QED BY <1>1, <1>2, <1>3 DEF Alive, Container

\* What a broker waits for is a container or nothing.
LEMMA SessionType ==
    ASSUME TypeOK, NEW b \in Brokers
    PROVE  broker[b].session \in Sessions \cup {Nobody}
  BY DEF TypeOK, Broker

\* A container that is alive is the session of the owner of the lock.
LEMMA SessionIsOne ==
    ASSUME TypeOK, Ownership, NEW b \in Brokers, OwnsLock(b), NEW s \in Sessions,
           Alive(s)
    PROVE  InSession(b) /\ broker[b].session = s
<1>1. PICK o \in Brokers : broker[o].session = s /\ InSession(o)
  BY DEF Ownership, ContainerInSession
<1>2. OwnsLock(o)
  BY <1>1 DEF InSession, OwnsLock
<1>3. o = b
  BY <1>2 DEF Ownership, LockFollowsPc
<1> QED BY <1>1, <1>3

\* While a broker owns the lock no command holds it.
LEMMA OwnerExcludes ==
    ASSUME Ownership, NEW b \in Brokers, OwnsLock(b), NEW c \in Clients
    PROVE  client[c].pc # "holding"
<1>1. lock = b
  BY DEF Ownership, LockFollowsPc
<1>2. lock # c
  BY <1>1, ProcessesAreDistinct
<1> QED BY <1>2 DEF Ownership, LockFollowsPc

\* While the lock is free nobody uses the rootfs.
LEMMA FreeMeansUnused ==
    ASSUME Ownership, lock = Nobody
    PROVE  Using = {}
<1>1. \A p \in Brokers \cup Clients : lock # p
  BY ProcessesAreDistinct
<1>2. \A s \in Sessions : ~Alive(s)
  <2> SUFFICES ASSUME NEW s \in Sessions, Alive(s) PROVE FALSE
    OBVIOUS
  <2>1. PICK b \in Brokers : InSession(b)
    BY DEF Ownership, ContainerInSession
  <2> QED BY <1>1, <2>1 DEF Ownership, LockFollowsPc, InSession, OwnsLock
<1>3. \A c \in Clients : client[c].pc # "holding"
  BY <1>1 DEF Ownership, LockFollowsPc
<1> QED BY <1>2, <1>3 DEF Using

\* A step of the lock's owner inside its critical section.
LEMMA OwnerStep ==
    ASSUME TypeOK, Ownership, NEW b \in Brokers, NEW pc,
           OwnsLock(b), pc \notin {"unborn", "locking", "gone"},
           MovesTo(b, pc), NothingAppears, SameHolders, lock' = lock,
           \/ pc \in {"network", "waiting", "ready", "integrating", "running",
                      "diagnosed"}
           \/ \A s \in Sessions : broker[b].session = s /\ InSession(b)
                                    => ~Alive(s)'
    PROVE  Kept
<1>1. LockFollowsPc'
  <2>1. \A o \in Brokers : OwnsLock(o)' <=> OwnsLock(o)
    BY DEF MovesTo, OwnsLock
  <2> QED BY <2>1 DEF Ownership, LockFollowsPc, SameHolders
<1>2. ContainerInSession'
  <2> SUFFICES ASSUME NEW s \in Sessions, Alive(s)'
               PROVE  broker'[b].session = s /\ InSession(b)'
    BY DEF ContainerInSession, InSession
  <2>1. InSession(b) /\ broker[b].session = s
    BY SessionIsOne DEF NothingAppears
  <2> QED BY <2>1 DEF MovesTo, InSession
<1>3. WindowAfterLock'
  BY DEF Ownership, WindowAfterLock, NothingAppears, MovesTo
<1> QED BY <1>1, <1>2, <1>3, UsingShrinks DEF Ownership, Kept

\* A step that moves no broker and no command into or out of its section.
LEMMA AsideKeepsRest ==
    ASSUME Ownership, NobodyMoves, NothingAppears
    PROVE  ContainerInSession' /\ WindowAfterLock'
<1>1. ContainerInSession'
  <2> SUFFICES ASSUME NEW s \in Sessions, Alive(s)'
               PROVE  \E b \in Brokers : broker'[b].session = s /\ InSession(b)'
    BY DEF ContainerInSession, InSession
  <2>1. PICK b \in Brokers : broker[b].session = s /\ InSession(b)
    BY DEF NothingAppears, Ownership, ContainerInSession
  <2> QED BY <2>1 DEF NobodyMoves, InSession
<1>2. WindowAfterLock'
  BY DEF Ownership, WindowAfterLock, NothingAppears, NobodyMoves
<1> QED BY <1>1, <1>2

\* Nor does it disturb the lock if the commands keep what they hold.
LEMMA StepAside ==
    ASSUME TypeOK, Ownership, NobodyMoves, NothingAppears, SameHolders,
           lock' = lock
    PROVE  Kept
<1>1. LockFollowsPc'
  BY DEF Ownership, LockFollowsPc, OwnsLock, NobodyMoves, SameHolders
<1> QED BY <1>1, AsideKeepsRest, UsingShrinks DEF Ownership, Kept

\* A broker ends, in order or by a crash: its lock falls and its container is
\* no longer alive.
LEMMA BrokerEnds ==
    ASSUME TypeOK, Ownership, NEW b \in Brokers, BrokerAlive(b),
           MovesTo(b, "gone"), NothingAppears, SameHolders,
           lock' = (IF lock = b THEN Nobody ELSE lock),
           \A s \in Sessions : broker[b].session = s /\ InSession(b) => ~Alive(s)'
    PROVE  Kept
<1>1. LockFollowsPc'
  <2>1. \A o \in Brokers : OwnsLock(o)' <=> OwnsLock(o) /\ o # b
    BY DEF MovesTo, OwnsLock
  <2>2. \A o \in Brokers : o # Nobody
    BY ProcessesAreDistinct
  <2>3. \A c \in Clients : c # Nobody /\ c # b
    BY ProcessesAreDistinct
  <2> QED BY <2>1, <2>2, <2>3 DEF Ownership, LockFollowsPc, SameHolders
<1>2. ContainerInSession'
  <2> SUFFICES ASSUME NEW s \in Sessions, Alive(s)'
               PROVE  \E o \in Brokers : broker'[o].session = s /\ InSession(o)'
    BY DEF ContainerInSession, InSession
  <2>1. PICK o \in Brokers : broker[o].session = s /\ InSession(o)
    BY DEF NothingAppears, Ownership, ContainerInSession
  <2>2. o # b
    BY <2>1
  <2> QED BY <2>1, <2>2 DEF MovesTo, InSession
<1>3. WindowAfterLock'
  BY DEF Ownership, WindowAfterLock, NothingAppears, MovesTo
<1> QED BY <1>1, <1>2, <1>3, UsingShrinks DEF Ownership, Kept

\* A crash or a SIGTERM ends a broker wherever it is.
LEMMA OwnershipAfterDeath ==
    ASSUME TypeOK, Ownership, NEW b \in Brokers, BrokerAlive(b), Die(b),
           SameHolders, display' = display
    PROVE  Kept
<1>1. MovesTo(b, "gone")
  BY MovesByGoto DEF Die
<1>2. container \in [Sessions -> Container]
  BY DEF TypeOK
<1>3. /\ \A s \in Sessions : Alive(s)' => Alive(s)
      /\ \A s \in Sessions : broker[b].session = s => ~Alive(s)'
  BY <1>2 DEF Die, Alive, Container
<1>4. NothingAppears
  BY <1>3 DEF NothingAppears
<1>5. lock' = IF lock = b THEN Nobody ELSE lock
  BY DEF Die
<1> QED BY <1>1, <1>3, <1>4, <1>5, BrokerEnds

\* What the user or a queued command does to one window opens no other.
LEMMA ApplyElsewhere ==
    ASSUME display \in [Brokers -> Display], NEW b \in Brokers, display[b].up,
           NEW command \in Command \cup {"restart"}, Apply(b, command)
    PROVE  \A o \in Brokers : display'[o].up => display[o].up
<1>1. ASSUME NEW d, display' = [display EXCEPT ![b] = d]
      PROVE  \A o \in Brokers : display'[o].up => display[o].up
  BY <1>1
<1>2. CASE RequestStart(b)
  BY <1>1, <1>2 DEF RequestStart
<1>3. ASSUME NEW restart, RequestStop(b, restart)
      PROVE  \A o \in Brokers : display'[o].up => display[o].up
  BY <1>1, <1>3 DEF RequestStop
<1>4. CASE RequestClose(b)
  BY <1>1, <1>4 DEF RequestClose
<1> QED BY <1>2, <1>3, <1>4 DEF Apply, Command

\* A command that moves between places without the lock changes no holder.
LEMMA HoldersByGoto ==
    ASSUME TypeOK, NEW c \in Clients, client[c].pc # "holding", NEW pc,
           pc # "holding", ClientGoto(c, pc)
    PROVE  SameHolders
<1>1. client \in [Clients -> Client]
  BY DEF TypeOK
<1> QED BY <1>1 DEF ClientGoto, SameHolders, Client

\* Every step of a broker keeps the ownership.
LEMMA OwnershipBroker ==
    ASSUME TypeOK, Ownership, NEW b \in Brokers, BrokerNext(b)
    PROVE  Kept
<1>1. CASE AcquireLock(b)
  <2>1. MovesTo(b, "opening") /\ NothingAppears /\ SameHolders
    BY <1>1, MovesByGoto DEF AcquireLock, NothingAppears, Alive, SameHolders
  <2>2. LockFollowsPc'
    <3>1. \A o \in Brokers : OwnsLock(o)' <=> OwnsLock(o) \/ o = b
      BY <2>1 DEF MovesTo, OwnsLock
    <3>2. lock = Nobody /\ lock' = b
      BY <1>1 DEF AcquireLock
    <3>3. \A o \in Brokers \cup Clients : o # Nobody
      BY ProcessesAreDistinct
    <3>4. \A c \in Clients : c # b
      BY ProcessesAreDistinct
    <3> QED BY <2>1, <3>1, <3>2, <3>3, <3>4 DEF Ownership, LockFollowsPc, SameHolders
  <2>3. \A s \in Sessions : ~Alive(s)'
    <3> SUFFICES ASSUME NEW s \in Sessions, Alive(s) PROVE FALSE
      BY <2>1 DEF NothingAppears
    <3>1. PICK o \in Brokers : InSession(o)
      BY DEF Ownership, ContainerInSession
    <3>2. lock = o
      BY <3>1 DEF Ownership, LockFollowsPc, InSession, OwnsLock
    <3> QED BY <1>1, <3>2, ProcessesAreDistinct DEF AcquireLock
  <2>4. WindowAfterLock'
    BY <2>1 DEF Ownership, WindowAfterLock, NothingAppears, MovesTo
  <2> QED
    BY <2>1, <2>2, <2>3, <2>4, UsingShrinks
       DEF Ownership, ContainerInSession, Kept
<1>2. CASE LockTimeout(b)
  <2>1. /\ BrokerAlive(b) /\ ~InSession(b) /\ MovesTo(b, "gone")
        /\ ~OwnsLock(b) /\ lock' = lock
    BY <1>2, MovesByGoto DEF LockTimeout, BrokerAlive, OwnsLock, InSession
  <2>2. NothingAppears /\ SameHolders
    BY <1>2 DEF LockTimeout, NothingAppears, Alive, SameHolders
  <2>3. lock # b
    BY <2>1 DEF Ownership, LockFollowsPc
  <2> QED BY <2>1, <2>2, <2>3, BrokerEnds
<1>3. CASE OpenDisplay(b)
  <2>1. MovesTo(b, "begin") /\ broker[b].pc = "opening"
    BY <1>3, MovesByGoto DEF OpenDisplay
  <2>2. LockFollowsPc'
    <3>1. \A o \in Brokers : OwnsLock(o)' <=> OwnsLock(o)
      BY <2>1 DEF MovesTo, OwnsLock
    <3> QED BY <1>3, <3>1 DEF OpenDisplay, Ownership, LockFollowsPc
  <2>3. \A s \in Sessions : ~Alive(s)'
    BY <1>3, <2>1, SessionIsOne DEF OpenDisplay, Alive, OwnsLock, InSession
  <2>4. WindowAfterLock'
    <3>1. display \in [Brokers -> Display]
      BY DEF TypeOK
    <3>2. \A o \in Brokers \ {b} : display'[o].up <=> display[o].up
      BY <1>3, <3>1 DEF OpenDisplay
    <3> QED BY <2>1, <3>2 DEF Ownership, WindowAfterLock, MovesTo
  <2>5. Using' \subseteq Using
    BY <1>3 DEF OpenDisplay, Using, Alive
  <2> QED BY <2>2, <2>3, <2>4, <2>5 DEF Ownership, ContainerInSession, Kept
<1>4. CASE OpenDisplayFails(b)
  <2>1. OwnsLock(b) /\ ~InSession(b) /\ MovesTo(b, "unlocking") /\ SameHolders /\ lock' = lock
    BY <1>4, MovesByGoto DEF OpenDisplayFails, OwnsLock, SameHolders, InSession
  <2>2. NothingAppears
    BY <1>4 DEF OpenDisplayFails, NothingAppears, Alive
  <2> QED BY <2>1, <2>2, OwnerStep
<1>5. CASE BeginSession(b)
  <2>1. /\ OwnsLock(b) /\ ~InSession(b) /\ NothingAppears /\ SameHolders
        /\ lock' = lock
    BY <1>5 DEF BeginSession, OwnsLock, InSession, NothingAppears, Alive, SameHolders
  <2>2. \A o \in Brokers : broker'[o].pc = IF o = b THEN "spawning"
                                                     ELSE broker[o].pc
    <3>1. broker \in [Brokers -> Broker]
      BY DEF TypeOK
    <3> QED BY <1>5, <3>1 DEF BeginSession
  <2>3. LockFollowsPc'
    <3>1. \A o \in Brokers : OwnsLock(o)' <=> OwnsLock(o)
      BY <2>1, <2>2 DEF OwnsLock
    <3> QED BY <2>1, <3>1 DEF Ownership, LockFollowsPc, SameHolders
  <2>4. \A s \in Sessions : ~Alive(s)'
    BY <2>1, SessionIsOne DEF NothingAppears
  <2>5. WindowAfterLock'
    BY <2>1, <2>2 DEF Ownership, WindowAfterLock, NothingAppears
  <2> QED
    BY <2>1, <2>3, <2>4, <2>5, UsingShrinks
       DEF Ownership, ContainerInSession, Kept
<1>6. CASE SpawnFails(b)
  <2>1. OwnsLock(b) /\ ~InSession(b) /\ MovesTo(b, "failed") /\ SameHolders /\ lock' = lock
    BY <1>6, MovesByGoto DEF SpawnFails, OwnsLock, SameHolders, InSession
  <2>2. NothingAppears
    BY <1>6 DEF SpawnFails, NothingAppears, Alive
  <2> QED BY <2>1, <2>2, OwnerStep
<1>7. ASSUME NEW s \in Sessions, SpawnContainer(b, s) PROVE Kept
  <2>1. OwnsLock(b) /\ ~InSession(b) /\ lock' = lock /\ SameHolders
    BY <1>7 DEF SpawnContainer, OwnsLock, InSession, SameHolders
  <2>2. /\ broker'[b].pc = "network" /\ broker'[b].session = s
        /\ \A o \in Brokers \ {b} : broker'[o] = broker[o]
    <3>1. broker \in [Brokers -> Broker]
      BY DEF TypeOK
    <3> QED BY <1>7, <3>1 DEF SpawnContainer, Broker
  <2>3. LockFollowsPc'
    <3>1. \A o \in Brokers : OwnsLock(o)' <=> OwnsLock(o)
      BY <2>1, <2>2 DEF OwnsLock
    <3> QED BY <2>1, <3>1 DEF Ownership, LockFollowsPc, SameHolders
  <2>4. ContainerInSession'
    <3>1. \A z \in Sessions \ {s} : ~Alive(z)'
      <4>1. \A z \in Sessions \ {s} : Alive(z)' => Alive(z)
        BY <1>7 DEF SpawnContainer, Alive, TypeOK
      <4> QED BY <2>1, <4>1, SessionIsOne
    <3> QED BY <2>2, <3>1 DEF ContainerInSession, InSession
  <2>5. WindowAfterLock'
    BY <1>7, <2>2 DEF Ownership, WindowAfterLock, SpawnContainer
  <2>6. Using = {}
    BY <2>1, SessionIsOne, OwnerExcludes DEF Using
  <2> QED BY <2>3, <2>4, <2>5, <2>6 DEF Ownership, Kept
<1>8. CASE ReleaseBarrier(b)
  <2>1. OwnsLock(b) /\ MovesTo(b, "waiting") /\ SameHolders /\ lock' = lock
    BY <1>8, MovesByGoto DEF ReleaseBarrier, OwnsLock, SameHolders
  <2>2. NothingAppears
    <3>1. container \in [Sessions -> Container]
      BY DEF TypeOK
    <3>2. \A s \in Sessions : Alive(s)' => Alive(s)
      BY <1>8, <3>1 DEF ReleaseBarrier, Alive, Container
    <3> QED BY <1>8, <3>2 DEF ReleaseBarrier, NothingAppears
  <2> QED BY <2>1, <2>2, OwnerStep
<1>9. CASE NetworkFails(b)
  <2>1. OwnsLock(b) /\ MovesTo(b, "failed") /\ SameHolders /\ lock' = lock
    BY <1>9, MovesByGoto DEF NetworkFails, OwnsLock, SameHolders
  <2>2. NothingAppears /\ \A s \in Sessions : broker[b].session = s => ~Alive(s)'
    BY <1>9, KilledAlive, SessionType DEF NetworkFails, NothingAppears
  <2> QED BY <2>1, <2>2, OwnerStep
<1>10. CASE DesktopReady(b)
  <2>1. OwnsLock(b) /\ SameHolders /\ lock' = lock
    BY <1>10 DEF DesktopReady, OwnsLock, SameHolders, At
  <2>2. MovesTo(b, "ready")
    <3>1. broker \in [Brokers -> Broker]
      BY DEF TypeOK
    <3> QED BY <1>10, <3>1 DEF DesktopReady, MovesTo, Broker, At
  <2>3. NothingAppears
    BY <1>10 DEF DesktopReady, NothingAppears, Alive
  <2> QED BY <2>1, <2>2, <2>3, OwnerStep
<1>11. CASE ReadRequest(b)
  <2>1. OwnsLock(b) /\ SameHolders /\ lock' = lock
    BY <1>11 DEF ReadRequest, At, OwnsLock, SameHolders
  <2>2. broker[b].pc \in {"waiting", "running", "listening"}
    BY <1>11 DEF ReadRequest, At
  <2>3. MovesTo(b, broker[b].pc)
    <3>1. broker \in [Brokers -> Broker]
      BY DEF TypeOK
    <3> QED BY <1>11, <3>1 DEF ReadRequest, MovesTo, Broker
  <2>4. NothingAppears
    BY <1>11 DEF ReadRequest, NothingAppears, Alive
  <2>5. broker[b].pc = "listening" => ~InSession(b)
    BY DEF InSession
  <2> QED BY <2>1, <2>2, <2>3, <2>4, <2>5, OwnerStep
<1>12. CASE TakeRequest(b)
  <2>1. OwnsLock(b) /\ SameHolders /\ lock' = lock
    BY <1>12 DEF TakeRequest, OwnsLock, SameHolders
  <2>2. broker[b].pc \in {"waiting", "running"}
    BY <1>12 DEF TakeRequest
  <2>3. MovesTo(b, broker[b].pc)
    <3>1. broker \in [Brokers -> Broker]
      BY DEF TypeOK
    <3> QED BY <1>12, <3>1 DEF TakeRequest, MovesTo, Broker
  <2>4. NothingAppears
    <3>1. \A s \in Sessions : Alive(s)' => Alive(s)
      BY <1>12, ShutdownAlive, SessionType DEF TakeRequest, Alive
    <3> QED BY <1>12, <3>1 DEF TakeRequest, NothingAppears
  <2> QED BY <2>1, <2>2, <2>3, <2>4, OwnerStep
<1>13. CASE StartupExit(b)
  <2> PICK pc \in {"ended", "failed"} : Goto(b, pc)
    BY <1>13 DEF StartupExit
  <2>1. OwnsLock(b) /\ MovesTo(b, pc) /\ SameHolders /\ lock' = lock
    BY <1>13, MovesByGoto DEF StartupExit, OwnsLock, SameHolders, At
  <2>2. NothingAppears
    BY <1>13 DEF StartupExit, NothingAppears, Alive
  <2>3. \A s \in Sessions : broker[b].session = s => ~Alive(s)'
    BY <1>13 DEF StartupExit, Alive, Exited
  <2> QED BY <2>1, <2>2, <2>3, OwnerStep
<1>14. CASE StartupDeadline(b)
  <2>1. OwnsLock(b) /\ MovesTo(b, "failed") /\ SameHolders /\ lock' = lock
    BY <1>14, MovesByGoto DEF StartupDeadline, OwnsLock, SameHolders, At
  <2>2. NothingAppears /\ \A s \in Sessions : broker[b].session = s => ~Alive(s)'
    BY <1>14, KilledAlive, SessionType DEF StartupDeadline, NothingAppears
  <2> QED BY <2>1, <2>2, OwnerStep
<1>15. CASE SaveReady(b)
  <2>1. OwnsLock(b) /\ SameHolders /\ lock' = lock
    BY <1>15 DEF SaveReady, OwnsLock, SameHolders
  <2>2. MovesTo(b, "integrating")
    <3>1. broker \in [Brokers -> Broker]
      BY DEF TypeOK
    <3> QED BY <1>15, <3>1 DEF SaveReady, MovesTo, Broker
  <2>3. NothingAppears
    BY <1>15 DEF SaveReady, NothingAppears, Alive
  <2> QED BY <2>1, <2>2, <2>3, OwnerStep
<1>16. CASE SaveIntegrated(b)
  <2>1. OwnsLock(b) /\ MovesTo(b, "running") /\ SameHolders /\ lock' = lock
    BY <1>16, MovesByGoto DEF SaveIntegrated, OwnsLock, SameHolders
  <2>2. NothingAppears
    BY <1>16 DEF SaveIntegrated, NothingAppears, Alive
  <2> QED BY <2>1, <2>2, OwnerStep
<1>17. CASE ObserveExit(b)
  <2>1. OwnsLock(b) /\ MovesTo(b, "ended") /\ SameHolders /\ lock' = lock
    BY <1>17, MovesByGoto DEF ObserveExit, OwnsLock, SameHolders, At
  <2>2. NothingAppears
    BY <1>17 DEF ObserveExit, NothingAppears, Alive
  <2>3. \A s \in Sessions : broker[b].session = s => ~Alive(s)'
    BY <1>17 DEF ObserveExit, Alive, Exited
  <2> QED BY <2>1, <2>2, <2>3, OwnerStep
<1>18. CASE ObserveDisplayExit(b)
  <2>1. OwnsLock(b) /\ SameHolders /\ lock' = lock
    BY <1>18 DEF ObserveDisplayExit, OwnsLock, SameHolders, At
  <2>2. MovesTo(b, "running")
    <3>1. broker \in [Brokers -> Broker]
      BY DEF TypeOK
    <3> QED BY <1>18, <3>1 DEF ObserveDisplayExit, MovesTo, Broker, At
  <2>3. NothingAppears
    BY <1>18 DEF ObserveDisplayExit, NothingAppears, Alive
  <2> QED BY <2>1, <2>2, <2>3, OwnerStep
<1>19. CASE GraceExpires(b)
  <2>1. OwnsLock(b) /\ MovesTo(b, "failed") /\ SameHolders /\ lock' = lock
    BY <1>19, MovesByGoto DEF GraceExpires, OwnsLock, SameHolders, At
  <2>2. NothingAppears /\ \A s \in Sessions : broker[b].session = s => ~Alive(s)'
    BY <1>19, KilledAlive, SessionType DEF GraceExpires, NothingAppears
  <2> QED BY <2>1, <2>2, OwnerStep
<1>20. CASE NetworkDies(b)
  <2>1. OwnsLock(b) /\ MovesTo(b, "failed") /\ SameHolders /\ lock' = lock
    BY <1>20, MovesByGoto DEF NetworkDies, OwnsLock, SameHolders, At
  <2>2. NothingAppears /\ \A s \in Sessions : broker[b].session = s => ~Alive(s)'
    BY <1>20, KilledAlive, SessionType DEF NetworkDies, NothingAppears
  <2> QED BY <2>1, <2>2, OwnerStep
<1>21. CASE ReadForDiagnostics(b)
  <2>1. OwnsLock(b) /\ SameHolders /\ lock' = lock
    BY <1>21 DEF ReadForDiagnostics, OwnsLock, SameHolders, At
  <2>2. MovesTo(b, "diagnosed")
    <3>1. broker \in [Brokers -> Broker]
      BY DEF TypeOK
    <3> QED BY <1>21, <3>1 DEF ReadForDiagnostics, MovesTo, Broker, At
  <2>3. NothingAppears
    BY <1>21 DEF ReadForDiagnostics, NothingAppears, Alive
  <2> QED BY <2>1, <2>2, <2>3, OwnerStep
<1>22. CASE SaveDiagnostics(b)
  <2>1. OwnsLock(b) /\ MovesTo(b, "running") /\ SameHolders /\ lock' = lock
    BY <1>22, MovesByGoto DEF SaveDiagnostics, OwnsLock, SameHolders
  <2>2. NothingAppears
    BY <1>22 DEF SaveDiagnostics, NothingAppears, Alive
  <2> QED BY <2>1, <2>2, OwnerStep
<1>23. CASE ShutdownOnClose(b)
  <2>1. OwnsLock(b) /\ SameHolders /\ lock' = lock
    BY <1>23 DEF ShutdownOnClose, OwnsLock, SameHolders, At
  <2>2. MovesTo(b, "running")
    <3>1. broker \in [Brokers -> Broker]
      BY DEF TypeOK
    <3> QED BY <1>23, <3>1 DEF ShutdownOnClose, MovesTo, Broker, At
  <2>3. NothingAppears
    BY <1>23, ShutdownAlive, SessionType DEF ShutdownOnClose, NothingAppears
  <2> QED BY <2>1, <2>2, <2>3, OwnerStep
<1>24. CASE FinishSession(b)
  <2> PICK pc \in {"begin", "closing", "parked"} : Goto(b, pc)
    BY <1>24 DEF FinishSession
  <2>1. OwnsLock(b) /\ ~InSession(b) /\ MovesTo(b, pc) /\ SameHolders /\ lock' = lock
    BY <1>24, MovesByGoto DEF FinishSession, OwnsLock, SameHolders, InSession
  <2>2. NothingAppears
    BY <1>24 DEF FinishSession, NothingAppears, Alive
  <2> QED BY <2>1, <2>2, OwnerStep
<1>25. CASE FailSession(b)
  <2>1. OwnsLock(b) /\ ~InSession(b) /\ MovesTo(b, "parked") /\ SameHolders /\ lock' = lock
    BY <1>25, MovesByGoto DEF FailSession, OwnsLock, SameHolders, InSession
  <2>2. NothingAppears
    BY <1>25 DEF FailSession, NothingAppears, Alive
  <2> QED BY <2>1, <2>2, OwnerStep
<1>26. CASE DisplayStillOpen(b)
  <2>1. OwnsLock(b) /\ ~InSession(b) /\ MovesTo(b, "listening") /\ SameHolders /\ lock' = lock
    BY <1>26, MovesByGoto DEF DisplayStillOpen, OwnsLock, SameHolders, InSession
  <2>2. NothingAppears
    BY <1>26 DEF DisplayStillOpen, NothingAppears, Alive
  <2> QED BY <2>1, <2>2, OwnerStep
<1>27. CASE DisplayClosed(b)
  <2>1. OwnsLock(b) /\ ~InSession(b) /\ MovesTo(b, "closing") /\ SameHolders /\ lock' = lock
    BY <1>27, MovesByGoto DEF DisplayClosed, OwnsLock, SameHolders, InSession
  <2>2. NothingAppears
    BY <1>27 DEF DisplayClosed, NothingAppears, Alive
  <2> QED BY <2>1, <2>2, OwnerStep
<1>28. CASE TakeParkedRequest(b)
  <2>1. OwnsLock(b) /\ ~InSession(b) /\ SameHolders /\ lock' = lock
    BY <1>28 DEF TakeParkedRequest, InSession, OwnsLock, SameHolders
  <2> DEFINE pc == IF broker[b].taken = "stop" THEN "parked" ELSE "begin"
  <2>2. pc \in {"parked", "begin"}
    OBVIOUS
  <2>3. MovesTo(b, pc)
    <3>1. broker \in [Brokers -> Broker]
      BY DEF TypeOK
    <3> QED BY <1>28, <3>1 DEF TakeParkedRequest, MovesTo, Broker
  <2>4. NothingAppears
    BY <1>28 DEF TakeParkedRequest, NothingAppears, Alive
  <2> HIDE DEF pc
  <2> QED BY <2>1, <2>2, <2>3, <2>4, OwnerStep
<1>29. CASE NothingRequested(b)
  <2>1. OwnsLock(b) /\ ~InSession(b) /\ MovesTo(b, "parked") /\ SameHolders /\ lock' = lock
    BY <1>29, MovesByGoto DEF NothingRequested, OwnsLock, SameHolders, At, InSession
  <2>2. NothingAppears
    BY <1>29 DEF NothingRequested, NothingAppears, Alive
  <2> QED BY <2>1, <2>2, OwnerStep
<1>30. CASE CloseDisplay(b)
  <2>1. /\ OwnsLock(b) /\ ~InSession(b) /\ MovesTo(b, "unlocking")
        /\ SameHolders /\ lock' = lock
    BY <1>30, MovesByGoto DEF CloseDisplay, OwnsLock, InSession, SameHolders
  <2>2. NothingAppears
    <3>1. display \in [Brokers -> Display]
      BY DEF TypeOK
    <3> QED BY <1>30, <3>1 DEF CloseDisplay, NothingAppears, Alive, Display
  <2> QED BY <2>1, <2>2, OwnerStep
<1>31. CASE ReleaseLock(b)
  <2>1. /\ BrokerAlive(b) /\ ~InSession(b) /\ MovesTo(b, "gone")
        /\ OwnsLock(b) /\ lock' = Nobody
    BY <1>31, MovesByGoto DEF ReleaseLock, BrokerAlive, OwnsLock, InSession
  <2>2. NothingAppears /\ SameHolders
    BY <1>31 DEF ReleaseLock, NothingAppears, Alive, SameHolders
  <2>3. lock = b
    BY <2>1 DEF Ownership, LockFollowsPc
  <2> QED BY <2>1, <2>2, <2>3, BrokerEnds
<1>32. CASE BrokerCrash(b)
  <2>1. BrokerAlive(b) /\ Die(b) /\ SameHolders /\ display' = display
    BY <1>32 DEF BrokerCrash, SameHolders
  <2> QED BY <2>1, OwnershipAfterDeath
<1> QED
  BY <1>1, <1>2, <1>3, <1>4, <1>5, <1>6, <1>7, <1>8, <1>9, <1>10, <1>11,
     <1>12, <1>13, <1>14, <1>15, <1>16, <1>17, <1>18, <1>19, <1>20, <1>21,
     <1>22, <1>23, <1>24, <1>25, <1>26, <1>27, <1>28, <1>29, <1>30, <1>31,
     <1>32
     DEF BrokerNext

\* Every step of a display keeps the ownership: a window is never opened by it.
LEMMA OwnershipDisplay ==
    ASSUME TypeOK, Ownership, NEW b \in Brokers, DisplayNext(b)
    PROVE  Kept
<1>1. CASE UserActs(b)
  <2>1. NobodyMoves /\ SameHolders /\ lock' = lock /\ container' = container
    BY <1>1 DEF UserActs, NobodyMoves, SameHolders
  <2>2. \A o \in Brokers : display'[o].up => display[o].up
    <3>1. display \in [Brokers -> Display] /\ display[b].up
      BY <1>1 DEF UserActs, TypeOK
    <3>2. \E command \in Command \cup {"restart"} : Apply(b, command)
      BY <1>1 DEF UserActs
    <3> QED BY <3>1, <3>2, ApplyElsewhere
  <2>3. NothingAppears
    BY <2>1, <2>2 DEF NothingAppears, Alive
  <2> QED BY <2>1, <2>3, StepAside
<1>2. CASE ApplyCommand(b)
  <2>1. NobodyMoves /\ SameHolders /\ lock' = lock /\ container' = container
    BY <1>2 DEF ApplyCommand, NobodyMoves, SameHolders
  <2>2. \A o \in Brokers : display'[o].up => display[o].up
    <3>1. display \in [Brokers -> Display] /\ display[b].up
      BY <1>2 DEF ApplyCommand, TypeOK
    <3>2. Apply(b, Head(inbox[b])) /\ Head(inbox[b]) \in Command
      BY <1>2 DEF ApplyCommand, TypeOK
    <3> QED BY <3>1, <3>2, ApplyElsewhere
  <2>3. NothingAppears
    BY <2>1, <2>2 DEF NothingAppears, Alive
  <2> QED BY <2>1, <2>3, StepAside
<1>3. CASE Poll(b)
  <2>1. NobodyMoves /\ SameHolders /\ lock' = lock /\ container' = container
    BY <1>3 DEF Poll, NobodyMoves, SameHolders
  <2>2. \A o \in Brokers : display'[o].up => display[o].up
    <3>1. display \in [Brokers -> Display] /\ display[b].up
      BY <1>3 DEF Poll, TypeOK
    <3> QED BY <1>3, <3>1 DEF Poll, Display
  <2>3. NothingAppears
    BY <2>1, <2>2 DEF NothingAppears, Alive
  <2> QED BY <2>1, <2>3, StepAside
<1>4. CASE GuestDisconnected(b)
  <2>1. NobodyMoves /\ SameHolders /\ lock' = lock /\ container' = container
    BY <1>4 DEF GuestDisconnected, NobodyMoves, SameHolders
  <2>2. \A o \in Brokers : display'[o].up => display[o].up
    <3>1. display \in [Brokers -> Display] /\ display[b].up
      BY <1>4 DEF GuestDisconnected, TypeOK
    <3> QED BY <1>4, <3>1 DEF GuestDisconnected, Display, SetState
  <2>3. NothingAppears
    BY <2>1, <2>2 DEF NothingAppears, Alive
  <2> QED BY <2>1, <2>3, StepAside
<1>8. CASE GuestConnected(b)
  <2>1. NobodyMoves /\ SameHolders /\ lock' = lock /\ container' = container
    BY <1>8 DEF GuestConnected, NobodyMoves, SameHolders
  <2>2. \A o \in Brokers : display'[o].up => display[o].up
    <3>1. display \in [Brokers -> Display] /\ display[b].up
      BY <1>8 DEF GuestConnected, TypeOK
    <3> QED BY <1>8, <3>1 DEF GuestConnected, Display, SetState
  <2>3. NothingAppears
    BY <2>1, <2>2 DEF NothingAppears, Alive
  <2> QED BY <2>1, <2>3, StepAside
<1>5. CASE DisplayFails(b)
  <2>1. NobodyMoves /\ SameHolders /\ lock' = lock /\ container' = container
    BY <1>5 DEF DisplayFails, NobodyMoves, SameHolders
  <2>2. \A o \in Brokers : display'[o].up => display[o].up
    <3>1. display \in [Brokers -> Display] /\ display[b].up
      BY <1>5 DEF DisplayFails, TypeOK
    <3> QED BY <1>5, <3>1 DEF DisplayFails, Display, SetState
  <2>3. NothingAppears
    BY <2>1, <2>2 DEF NothingAppears, Alive
  <2> QED BY <2>1, <2>3, StepAside
<1>6. CASE SaveWindow(b)
  <2>1. NobodyMoves /\ SameHolders /\ lock' = lock /\ container' = container
    BY <1>6 DEF SaveWindow, NobodyMoves, SameHolders
  <2>2. \A o \in Brokers : display'[o].up => display[o].up
    <3>1. display \in [Brokers -> Display] /\ display[b].up
      BY <1>6 DEF SaveWindow, TypeOK
    <3> QED BY <1>6, <3>1 DEF SaveWindow, Display
  <2>3. NothingAppears
    BY <2>1, <2>2 DEF NothingAppears, Alive
  <2> QED BY <2>1, <2>3, StepAside
<1>7. CASE DisplayCrash(b)
  <2>1. NobodyMoves /\ SameHolders /\ lock' = lock /\ container' = container
    BY <1>7 DEF DisplayCrash, NobodyMoves, SameHolders
  <2>2. \A o \in Brokers : display'[o].up => display[o].up
    <3>1. display \in [Brokers -> Display] /\ display[b].up
      BY <1>7 DEF DisplayCrash, TypeOK
    <3> QED BY <1>7, <3>1 DEF DisplayCrash, Display, Quit
  <2>3. NothingAppears
    BY <2>1, <2>2 DEF NothingAppears, Alive
  <2> QED BY <2>1, <2>3, StepAside
<1> QED
  BY <1>1, <1>2, <1>3, <1>4, <1>5, <1>6, <1>7, <1>8
     DEF DisplayNext

\* Every step of a container keeps the ownership.
LEMMA OwnershipContainer ==
    ASSUME TypeOK, Ownership, NEW s \in Sessions, ContainerNext(s)
    PROVE  Kept
<1>1. CASE DesktopStarts(s)
  <2>1. NobodyMoves /\ SameHolders /\ lock' = lock /\ display' = display
    BY <1>1 DEF DesktopStarts, NobodyMoves, SameHolders
  <2>2. \A z \in Sessions : Alive(z)' => Alive(z)
    <3>1. container \in [Sessions -> Container]
      BY DEF TypeOK
    <3> QED BY <1>1, <3>1 DEF DesktopStarts, Alive, Container
  <2>3. NothingAppears
    BY <2>1, <2>2 DEF NothingAppears
  <2> QED BY <2>1, <2>3, StepAside
<1>2. CASE GuestPoweroff(s)
  <2>1. NobodyMoves /\ SameHolders /\ lock' = lock /\ display' = display
    BY <1>2 DEF GuestPoweroff, NobodyMoves, SameHolders
  <2>2. \A z \in Sessions : Alive(z)' => Alive(z)
    <3>1. container \in [Sessions -> Container]
      BY DEF TypeOK
    <3> QED BY <1>2, <3>1 DEF GuestPoweroff, Alive, Container
  <2>3. NothingAppears
    BY <2>1, <2>2 DEF NothingAppears
  <2> QED BY <2>1, <2>3, StepAside
<1>3. CASE Halt(s)
  <2>1. NobodyMoves /\ SameHolders /\ lock' = lock /\ display' = display
    BY <1>3 DEF Halt, NobodyMoves, SameHolders
  <2>2. \A z \in Sessions : Alive(z)' => Alive(z)
    <3>1. container \in [Sessions -> Container]
      BY DEF TypeOK
    <3> QED BY <1>3, <3>1 DEF Halt, Alive, Container
  <2>3. NothingAppears
    BY <2>1, <2>2 DEF NothingAppears
  <2> QED BY <2>1, <2>3, StepAside
<1>4. CASE ContainerCrash(s)
  <2>1. NobodyMoves /\ SameHolders /\ lock' = lock /\ display' = display
    BY <1>4 DEF ContainerCrash, NobodyMoves, SameHolders
  <2>2. \A z \in Sessions : Alive(z)' => Alive(z)
    <3>1. container \in [Sessions -> Container]
      BY DEF TypeOK
    <3> QED BY <1>4, KilledAlive DEF ContainerCrash
  <2>3. NothingAppears
    BY <2>1, <2>2 DEF NothingAppears
  <2> QED BY <2>1, <2>3, StepAside
<1>5. CASE DoomedExits(s)
  <2>1. NobodyMoves /\ SameHolders /\ lock' = lock /\ display' = display
    BY <1>5 DEF DoomedExits, NobodyMoves, SameHolders
  <2>2. \A z \in Sessions : Alive(z)' => Alive(z)
    <3>1. container \in [Sessions -> Container]
      BY DEF TypeOK
    <3> QED BY <1>5, <3>1 DEF DoomedExits, Alive, Container
  <2>3. NothingAppears
    BY <2>1, <2>2 DEF NothingAppears
  <2> QED BY <2>1, <2>3, StepAside
<1> QED
  BY <1>1, <1>2, <1>3, <1>4, <1>5
     DEF ContainerNext

\* Every step of a launcher command keeps the ownership.
LEMMA OwnershipClient ==
    ASSUME TypeOK, Ownership, NEW c \in Clients, ClientNext(c)
    PROVE  Kept
<1>1. CASE Issue(c)
  <2>1. NobodyMoves /\ NothingAppears /\ lock' = lock
    BY <1>1 DEF Issue, Served, NobodyMoves, NothingAppears, Alive
  <2>2. SameHolders
    <3>1. client \in [Clients -> Client]
      BY DEF TypeOK
    <3> QED BY <1>1, <3>1 DEF Issue, Remember, SameHolders
  <2> QED BY <2>1, <2>2, StepAside
<1>2. CASE JudgeStart(c)
  <2>1. NobodyMoves /\ NothingAppears /\ lock' = lock
    BY <1>2 DEF JudgeStart, Served, NobodyMoves, NothingAppears, Alive
  <2>2. SameHolders
    <3>1. client[c].pc # "holding"
      BY <1>2 DEF JudgeStart
    <3>2. PICK to \in {"ok", "sending", "spawning"} : ClientGoto(c, to)
      BY <1>2 DEF JudgeStart
    <3> QED BY <3>1, <3>2, HoldersByGoto
  <2> QED BY <2>1, <2>2, StepAside
<1>3. CASE SendStart(c)
  <2>1. NobodyMoves /\ NothingAppears /\ lock' = lock
    BY <1>3 DEF SendStart, NobodyMoves, NothingAppears, Alive
  <2>2. SameHolders
    <3>1. client[c].pc # "holding"
      BY <1>3 DEF SendStart
    <3>2. PICK to \in {"awaiting", "retrying", "error"} : ClientGoto(c, to)
      BY <1>3 DEF SendStart, Send
    <3> QED BY <3>1, <3>2, HoldersByGoto
  <2> QED BY <2>1, <2>2, StepAside
<1>4. CASE AwaitSupervised(c)
  <2>1. NobodyMoves /\ NothingAppears /\ lock' = lock
    BY <1>4 DEF AwaitSupervised, Served, NobodyMoves, NothingAppears, Alive
  <2>2. SameHolders
    <3>1. client[c].pc # "holding"
      BY <1>4 DEF AwaitSupervised
    <3>2. PICK to \in {"ok", "retrying"} : ClientGoto(c, to)
      BY <1>4 DEF AwaitSupervised
    <3> QED BY <3>1, <3>2, HoldersByGoto
  <2> QED BY <2>1, <2>2, StepAside
<1>5. CASE AwaitTimeout(c)
  <2>1. NobodyMoves /\ NothingAppears /\ lock' = lock
    BY <1>5 DEF AwaitTimeout, Served, NobodyMoves, NothingAppears, Alive
  <2>2. SameHolders
    <3>1. client[c].pc # "holding"
      BY <1>5 DEF AwaitTimeout
    <3>2. PICK to \in {"retrying"} : ClientGoto(c, to)
      BY <1>5 DEF AwaitTimeout
    <3> QED BY <3>1, <3>2, HoldersByGoto
  <2> QED BY <2>1, <2>2, StepAside
<1>6. CASE RetryStart(c)
  <2>1. NobodyMoves /\ NothingAppears /\ lock' = lock
    BY <1>6 DEF RetryStart, Served, NobodyMoves, NothingAppears, Alive
  <2>2. SameHolders
    <3>1. client[c].pc # "holding"
      BY <1>6 DEF RetryStart
    <3>2. PICK to \in {"error", "spawning"} : ClientGoto(c, to)
      BY <1>6 DEF RetryStart
    <3> QED BY <3>1, <3>2, HoldersByGoto
  <2> QED BY <2>1, <2>2, StepAside
<1>7. ASSUME NEW b \in Brokers, Spawn(c, b) PROVE Kept
  <2>1. MovesTo(b, "locking") /\ broker[b].pc = "unborn" /\ lock' = lock
    BY <1>7, MovesByGoto DEF Spawn
  <2>2. NothingAppears
    BY <1>7 DEF Spawn, NothingAppears, Alive
  <2>3. SameHolders
    <3>1. client \in [Clients -> Client]
      BY DEF TypeOK
    <3> QED BY <1>7, <3>1 DEF Spawn, SameHolders, Client
  <2>4. LockFollowsPc'
    <3>1. \A o \in Brokers : OwnsLock(o)' <=> OwnsLock(o)
      BY <2>1 DEF MovesTo, OwnsLock
    <3> QED BY <2>1, <2>3, <3>1 DEF Ownership, LockFollowsPc, SameHolders
  <2>5. ContainerInSession'
    <3> SUFFICES ASSUME NEW s \in Sessions, Alive(s)'
                 PROVE  \E o \in Brokers : broker'[o].session = s /\ InSession(o)'
      BY DEF ContainerInSession, InSession
    <3>1. PICK o \in Brokers : broker[o].session = s /\ InSession(o)
      BY <2>2 DEF NothingAppears, Ownership, ContainerInSession
    <3>2. o # b
      BY <2>1, <3>1 DEF InSession
    <3> QED BY <2>1, <3>1, <3>2 DEF MovesTo, InSession
  <2>6. WindowAfterLock'
    BY <2>1, <2>2 DEF Ownership, WindowAfterLock, NothingAppears, MovesTo
  <2> QED
    BY <2>2, <2>3, <2>4, <2>5, <2>6, UsingShrinks DEF Ownership, Kept
<1>8. CASE WatchStart(c)
  <2>1. NobodyMoves /\ NothingAppears /\ lock' = lock
    BY <1>8 DEF WatchStart, Served, NobodyMoves, NothingAppears, Alive
  <2>2. SameHolders
    <3>1. client[c].pc # "holding"
      BY <1>8 DEF WatchStart
    <3>2. PICK to \in {"ok", "error"} : ClientGoto(c, to)
      BY <1>8 DEF WatchStart
    <3> QED BY <3>1, <3>2, HoldersByGoto
  <2> QED BY <2>1, <2>2, StepAside
<1>9. CASE WatchTimeout(c)
  <2>1. NobodyMoves /\ NothingAppears /\ lock' = lock
    BY <1>9 DEF WatchTimeout, Served, NobodyMoves, NothingAppears, Alive
  <2>2. SameHolders
    <3>1. client[c].pc # "holding"
      BY <1>9 DEF WatchTimeout
    <3>2. PICK to \in {"error"} : ClientGoto(c, to)
      BY <1>9 DEF WatchTimeout
    <3> QED BY <3>1, <3>2, HoldersByGoto
  <2> QED BY <2>1, <2>2, StepAside
<1>10. CASE JudgeStop(c)
  <2>1. NobodyMoves /\ NothingAppears /\ lock' = lock
    BY <1>10 DEF JudgeStop, NobodyMoves, NothingAppears, Alive
  <2>2. SameHolders
    <3>1. client[c].pc # "holding"
      BY <1>10 DEF JudgeStop
    <3>2. PICK to \in {"closing", "ok", "sending", "saving"} : ClientGoto(c, to)
      BY <1>10 DEF JudgeStop
    <3> QED BY <3>1, <3>2, HoldersByGoto
  <2> QED BY <2>1, <2>2, StepAside
<1>11. CASE SendStop(c)
  <2>1. NobodyMoves /\ NothingAppears /\ lock' = lock
    BY <1>11 DEF SendStop, NobodyMoves, NothingAppears, Alive
  <2>2. SameHolders
    <3>1. client[c].pc # "holding"
      BY <1>11 DEF SendStop
    <3>2. PICK to \in {"stopping", "retrying", "error"} : ClientGoto(c, to)
      BY <1>11 DEF SendStop, Send
    <3> QED BY <3>1, <3>2, HoldersByGoto
  <2> QED BY <2>1, <2>2, StepAside
<1>12. CASE SaveStopping(c)
  <2>1. NobodyMoves /\ NothingAppears /\ lock' = lock
    BY <1>12 DEF SaveStopping, NobodyMoves, NothingAppears, Alive
  <2>2. SameHolders
    <3>1. client[c].pc # "holding"
      BY <1>12 DEF SaveStopping
    <3>2. PICK to \in {"killing"} : ClientGoto(c, to)
      BY <1>12 DEF SaveStopping
    <3> QED BY <3>1, <3>2, HoldersByGoto
  <2> QED BY <2>1, <2>2, StepAside
<1>13. CASE SignalContainer(c)
  <2>1. client[c].pc = "killing" /\ client[c].seen.container_pid \in Sessions \cup {Nobody}
    BY <1>13 DEF SignalContainer, TypeOK, Client, RuntimeState
  <2>2. NobodyMoves /\ lock' = lock /\ display' = display
    BY <1>13 DEF SignalContainer, NobodyMoves
  <2>3. NothingAppears
    BY <1>13, <2>1, <2>2, ShutdownAlive DEF SignalContainer, NothingAppears
  <2>4. PICK to \in {"stopping", "error", "exiting"} : ClientGoto(c, to)
    BY <1>13 DEF SignalContainer
  <2> QED BY <2>1, <2>2, <2>3, <2>4, HoldersByGoto, StepAside
<1>14. CASE ContainerGone(c)
  <2>1. NobodyMoves /\ NothingAppears /\ lock' = lock
    BY <1>14 DEF ContainerGone, Served, NobodyMoves, NothingAppears, Alive
  <2>2. SameHolders
    <3>1. client[c].pc # "holding"
      BY <1>14 DEF ContainerGone
    <3>2. PICK to \in {"stopping"} : ClientGoto(c, to)
      BY <1>14 DEF ContainerGone
    <3> QED BY <3>1, <3>2, HoldersByGoto
  <2> QED BY <2>1, <2>2, StepAside
<1>15. CASE KillContainer(c)
  <2>1. client[c].pc = "exiting" /\ client[c].seen.container_pid \in Sessions \cup {Nobody}
    BY <1>15 DEF KillContainer, TypeOK, Client, RuntimeState
  <2>2. NobodyMoves /\ lock' = lock /\ display' = display
    BY <1>15 DEF KillContainer, NobodyMoves
  <2>3. NothingAppears
    BY <1>15, <2>1, <2>2, KilledAlive DEF KillContainer, NothingAppears
  <2> QED BY <1>15, <2>1, <2>2, <2>3, HoldersByGoto, StepAside DEF KillContainer
<1>16. CASE MachineStopped(c)
  <2>1. NobodyMoves /\ NothingAppears /\ lock' = lock
    BY <1>16 DEF MachineStopped, Served, NobodyMoves, NothingAppears, Alive
  <2>2. SameHolders
    <3>1. client[c].pc # "holding"
      BY <1>16 DEF MachineStopped
    <3>2. PICK to \in {"ok"} : ClientGoto(c, to)
      BY <1>16 DEF MachineStopped
    <3> QED BY <3>1, <3>2, HoldersByGoto
  <2> QED BY <2>1, <2>2, StepAside
<1>17. CASE StopTimeout(c)
  <2>1. NobodyMoves /\ NothingAppears /\ lock' = lock
    BY <1>17 DEF StopTimeout, Served, NobodyMoves, NothingAppears, Alive
  <2>2. SameHolders
    <3>1. client[c].pc # "holding"
      BY <1>17 DEF StopTimeout
    <3>2. PICK to \in {"error"} : ClientGoto(c, to)
      BY <1>17 DEF StopTimeout
    <3> QED BY <3>1, <3>2, HoldersByGoto
  <2> QED BY <2>1, <2>2, StepAside
<1>18. CASE SendClose(c)
  <2>1. NobodyMoves /\ NothingAppears /\ lock' = lock
    BY <1>18 DEF SendClose, NobodyMoves, NothingAppears, Alive
  <2>2. SameHolders
    <3>1. client[c].pc # "holding"
      BY <1>18 DEF SendClose
    <3>2. PICK to \in {"ok", "locking", "retrying", "error"} : ClientGoto(c, to)
      BY <1>18 DEF SendClose, Send
    <3> QED BY <3>1, <3>2, HoldersByGoto
  <2> QED BY <2>1, <2>2, StepAside
<1>19. CASE JudgeMaintenance(c)
  <2> DEFINE r == client[c].seen
  <2>1. client[c].pc = "judging" /\ display' = display
    BY <1>19 DEF JudgeMaintenance
  <2>2. PICK to \in {"error", "closing", "locking"} : ClientGoto(c, to)
    BY <1>19 DEF JudgeMaintenance
  <2>3. SameHolders
    BY <2>1, <2>2, HoldersByGoto
  <2>4. CASE UNCHANGED <<lock, broker, container>>
    <3>1. NobodyMoves /\ NothingAppears /\ lock' = lock
      BY <2>1, <2>4 DEF NobodyMoves, NothingAppears, Alive
    <3> QED BY <2>3, <3>1, StepAside
  <2>5. CASE LauncherAlive(r) /\ Die(r.launcher_pid)
    <3>1. r.launcher_pid \in Brokers /\ BrokerAlive(r.launcher_pid)
      BY <2>5 DEF LauncherAlive, TypeOK, Client, RuntimeState
    <3> QED BY <2>1, <2>3, <2>5, <3>1, OwnershipAfterDeath
  <2> QED BY <1>19, <2>4, <2>5 DEF JudgeMaintenance
<1>20. CASE LockForMaintenance(c)
  <2>1. NobodyMoves /\ NothingAppears
    BY <1>20 DEF LockForMaintenance, NobodyMoves, NothingAppears, Alive
  <2>2. CASE lock' = lock /\ ClientGoto(c, "error")
    <3>1. client[c].pc = "locking"
      BY <1>20 DEF LockForMaintenance
    <3> QED BY <2>1, <2>2, <3>1, HoldersByGoto, StepAside
  <2>3. CASE lock = Nobody /\ lock' = c /\ ClientGoto(c, "holding")
    <3>1. \A d \in Clients : client'[d].pc = "holding"
                               <=> client[d].pc = "holding" \/ d = c
      BY <2>3 DEF ClientGoto, TypeOK, Client
    <3>2. \A o \in Brokers \cup Clients : o # Nobody
      BY ProcessesAreDistinct
    <3>3. \A o \in Brokers : o # c
      BY ProcessesAreDistinct
    <3>4. \A o \in Brokers : OwnsLock(o)' <=> OwnsLock(o)
      BY <2>1 DEF NobodyMoves, OwnsLock
    <3>5. LockFollowsPc'
      BY <2>3, <3>1, <3>2, <3>3, <3>4 DEF Ownership, LockFollowsPc
    <3>6. ContainerInSession' /\ WindowAfterLock'
      BY <2>1, AsideKeepsRest
    <3>7. Using = {}
      BY <2>3, FreeMeansUnused
    <3> QED BY <3>5, <3>6, <3>7 DEF Ownership, Kept
  <2> QED BY <1>20, <2>2, <2>3 DEF LockForMaintenance
<1>21. CASE MaintenanceTimeout(c)
  <2>1. NobodyMoves /\ NothingAppears /\ lock' = lock
    BY <1>21 DEF MaintenanceTimeout, Served, NobodyMoves, NothingAppears, Alive
  <2>2. SameHolders
    <3>1. client[c].pc # "holding"
      BY <1>21 DEF MaintenanceTimeout
    <3>2. PICK to \in {"error"} : ClientGoto(c, to)
      BY <1>21 DEF MaintenanceTimeout
    <3> QED BY <3>1, <3>2, HoldersByGoto
  <2> QED BY <2>1, <2>2, StepAside
<1>22. CASE EndMaintenance(c)
  <2>1. NobodyMoves /\ NothingAppears /\ client[c].pc = "holding" /\ lock' = Nobody
    BY <1>22 DEF EndMaintenance, NobodyMoves, NothingAppears, Alive
  <2>2. lock = c
    BY <2>1 DEF Ownership, LockFollowsPc
  <2>3. \A d \in Clients : client'[d].pc = "holding"
                             <=> client[d].pc = "holding" /\ d # c
    BY <1>22 DEF EndMaintenance, ClientGoto, TypeOK, Client
  <2>4. \A o \in Brokers \cup Clients : o # Nobody
    BY ProcessesAreDistinct
  <2>5. \A o \in Brokers : o # c
    BY ProcessesAreDistinct
  <2>6. \A o \in Brokers : OwnsLock(o)' <=> OwnsLock(o)
    BY <2>1 DEF NobodyMoves, OwnsLock
  <2>7. LockFollowsPc'
    BY <2>1, <2>2, <2>3, <2>4, <2>5, <2>6 DEF Ownership, LockFollowsPc
  <2>8. ContainerInSession' /\ WindowAfterLock'
    BY <2>1, AsideKeepsRest
  <2>9. Using' \subseteq Using
    BY <2>1, <2>3 DEF Using, NothingAppears
  <2> QED BY <2>7, <2>8, <2>9 DEF Ownership, Kept
<1> QED
  BY <1>1, <1>2, <1>3, <1>4, <1>5, <1>6, <1>7, <1>8, <1>9, <1>10, <1>11,
     <1>12, <1>13, <1>14, <1>15, <1>16, <1>17, <1>18, <1>19, <1>20, <1>21,
     <1>22
     DEF ClientNext

-----------------------------------------------------------------------------
\* The theorems

\* The state that create leaves has the types.
LEMMA TypeInit == Init => TypeOK
<1> SUFFICES ASSUME Init PROVE TypeOK
  OBVIOUS
<1>1. Saved("Stopped", Nobody, Nobody) \in RuntimeState
  BY StateNames, SavedType
<1>2. runtime \in RuntimeState /\ lock \in Brokers \cup Clients \cup {Nobody}
  BY <1>1 DEF Init
<1>3. broker \in [Brokers -> Broker]
  BY BrokerPcNames, StateNames DEF Init, Broker
<1>4. container \in [Sessions -> Container]
  BY PhaseNames DEF Init, Container
<1>5. display \in [Brokers -> Display]
  BY StateNames DEF Init, Display
<1>6. mailbox \in [Brokers -> Request \cup {"none"}]
  BY DEF Init
<1>7. inbox \in [Brokers -> Seq(Command)]
  BY DEF Init
<1>8. client \in [Clients -> Client]
  BY <1>1, ClientPcNames DEF Init, Client
<1>9. budget \in [user : Nat, fault : Nat]
  BY BoundsAreNatural DEF Init
<1> QED BY <1>2, <1>3, <1>4, <1>5, <1>6, <1>7, <1>8, <1>9 DEF TypeOK

\* Every step keeps the types.
LEMMA TypeStep == TypeOK /\ [Next]_vars => TypeOK'
<1> SUFFICES ASSUME TypeOK, [Next]_vars PROVE TypeOK'
  OBVIOUS
<1>1. CASE Next
  BY <1>1, TypeBroker, TypeDisplay, TypeContainer, TypeClient DEF Next
<1>2. CASE UNCHANGED vars
  BY <1>2 DEF vars, TypeOK
<1> QED BY <1>1, <1>2

\* The files and the memories of all processes always hold values of their
\* types; in particular no command the display or the launcher understands is
\* ever put where only a request is.
THEOREM TypeCorrect == Spec => []TypeOK
  BY TypeInit, TypeStep, PTL DEF Spec

\* At first nobody owns anything.
LEMMA OwnershipInit == Init => Ownership
<1> SUFFICES ASSUME Init PROVE Ownership
  OBVIOUS
<1>1. LockFollowsPc
  BY ProcessesAreDistinct DEF Init, LockFollowsPc, OwnsLock
<1>2. ContainerInSession
  BY DEF Init, ContainerInSession, Alive
<1>3. WindowAfterLock
  BY DEF Init, WindowAfterLock
<1> QED BY <1>1, <1>2, <1>3 DEF Ownership

\* Every step keeps the ownership.
LEMMA OwnershipStep == TypeOK /\ Ownership /\ [Next]_vars => Kept
<1> SUFFICES ASSUME TypeOK, Ownership, [Next]_vars PROVE Kept
  OBVIOUS
<1>1. CASE Next
  BY <1>1, OwnershipBroker, OwnershipDisplay, OwnershipContainer,
     OwnershipClient DEF Next
<1>2. CASE UNCHANGED vars
  BY <1>2, StepAside DEF vars, NobodyMoves, NothingAppears, SameHolders, Alive
<1> QED BY <1>1, <1>2

\* run_machine and lock_stopped_machine: who has reached which point of the
\* code decides who owns machine.lock, and containers and windows exist only
\* between its acquisition and its release.
THEOREM OwnershipCorrect == Spec => []Ownership
<1>1. TypeOK /\ Ownership /\ [Next]_vars => Ownership'
  BY OwnershipStep DEF Kept
<1> QED BY <1>1, TypeCorrect, OwnershipInit, PTL DEF Spec

\* The ownership implies the two promises of machine.lock.
LEMMA OwnershipProtects == Ownership => ContainerUnderLock /\ WindowUnderLock
<1> SUFFICES ASSUME Ownership PROVE ContainerUnderLock /\ WindowUnderLock
  OBVIOUS
<1>1. ContainerUnderLock
  <2> SUFFICES ASSUME NEW s \in Sessions, Alive(s)
               PROVE  \E b \in Brokers : lock = b /\ broker[b].session = s
                                                  /\ BrokerAlive(b)
    BY DEF ContainerUnderLock
  <2>1. PICK b \in Brokers : broker[b].session = s /\ InSession(b)
    BY DEF Ownership, ContainerInSession
  <2>2. OwnsLock(b) /\ BrokerAlive(b)
    BY <2>1 DEF InSession, OwnsLock, BrokerAlive
  <2> QED BY <2>1, <2>2 DEF Ownership, LockFollowsPc
<1>2. WindowUnderLock
  BY DEF Ownership, WindowAfterLock, LockFollowsPc, WindowUnderLock, OwnsLock,
         BrokerAlive
<1> QED BY <1>1, <1>2

\* Any number of brokers, commands, sessions and crashes: a container that has
\* not been condemned runs under the living broker that holds machine.lock.
THEOREM ContainerUnderLockCorrect == Spec => []ContainerUnderLock
  BY OwnershipCorrect, OwnershipProtects, PTL

\* The window of a living broker is open only while that broker holds
\* machine.lock: the display is dropped before the lock.
THEOREM WindowUnderLockCorrect == Spec => []WindowUnderLock
  BY OwnershipCorrect, OwnershipProtects, PTL

\* A record of a starting or running machine is written only by the broker
\* that holds machine.lock, and it names that broker.
THEOREM OnlyOwnerBringsUpCorrect == Spec => OnlyOwnerBringsUp
<1>1. TypeOK /\ Ownership /\ [Next]_vars =>
        (runtime' # runtime /\ runtime'.state \in {"Starting", "Running"} =>
            lock \in Brokers /\ runtime'.launcher_pid = lock)
  <2> SUFFICES ASSUME TypeOK, Ownership, [Next]_vars, runtime' # runtime,
                      runtime'.state \in {"Starting", "Running"}
               PROVE  lock \in Brokers /\ runtime'.launcher_pid = lock
    OBVIOUS
  <2>1. ASSUME NEW b \in Brokers, OwnsLock(b), runtime'.launcher_pid = b
        PROVE  lock \in Brokers /\ runtime'.launcher_pid = lock
    BY <2>1 DEF Ownership, LockFollowsPc
  <2>2. ASSUME NEW b \in Brokers, BrokerNext(b)
        PROVE  lock \in Brokers /\ runtime'.launcher_pid = lock
    <3>1. ASSUME NEW state, NEW s, runtime' = Saved(state, b, s), OwnsLock(b)
          PROVE  lock \in Brokers /\ runtime'.launcher_pid = lock
      BY <2>1, <3>1 DEF Saved
    <3>2. ASSUME NEW state, NEW p, NEW s, runtime' = Saved(state, p, s),
                 state \notin {"Starting", "Running"}
          PROVE  FALSE
      BY <3>2 DEF Saved
    <3>3. runtime \in RuntimeState
      BY DEF TypeOK
    <3>4. CASE BeginSession(b)
      BY <3>1, <3>4 DEF BeginSession, OwnsLock
    <3>5. CASE \E s \in Sessions : SpawnContainer(b, s)
      BY <3>1, <3>5 DEF SpawnContainer, OwnsLock
    <3>6. CASE TakeRequest(b)
      <4>1. \/ runtime' = Saved("Stopping", b, broker[b].session)
            \/ runtime' = [runtime EXCEPT !.state = "Stopping"]
            \/ runtime' = runtime
        BY <3>6 DEF TakeRequest
      <4> QED BY <3>2, <3>3, <4>1 DEF RuntimeState
    <3>7. CASE SaveReady(b) \/ SaveIntegrated(b) \/ SaveDiagnostics(b)
      BY <3>1, <3>7 DEF SaveReady, SaveIntegrated, SaveDiagnostics, OwnsLock
    <3>8. CASE ObserveExit(b) \/ ShutdownOnClose(b)
      BY <3>2, <3>8 DEF ObserveExit, ShutdownOnClose
    <3>9. CASE FinishSession(b)
      <4>1. \E p, state : /\ runtime' = Saved(state, p, Nobody)
                          /\ state \in {"Stopped", "Failed"}
        BY <3>9 DEF FinishSession
      <4> QED BY <3>2, <4>1
    <3>10. CASE FailSession(b) \/ DisplayClosed(b)
      BY <3>2, <3>10 DEF FailSession, DisplayClosed
    <3>11. CASE runtime' = runtime
      BY <3>11
    <3> QED
      BY <2>2, <3>4, <3>5, <3>6, <3>7, <3>8, <3>9, <3>10, <3>11
         DEF BrokerNext, AcquireLock, LockTimeout, OpenDisplay,
             OpenDisplayFails, SpawnFails, ReleaseBarrier, NetworkFails,
             DesktopReady, ReadRequest, StartupExit, StartupDeadline, ObserveDisplayExit,
             GraceExpires, NetworkDies, ReadForDiagnostics, DisplayStillOpen,
             TakeParkedRequest, NothingRequested, CloseDisplay, ReleaseLock,
             BrokerCrash
  <2>3. ASSUME NEW b \in Brokers, DisplayNext(b)
        PROVE  FALSE
    BY <2>3 DEF DisplayNext, UserActs, ApplyCommand, Poll, GuestConnected,
                GuestDisconnected, DisplayFails, SaveWindow, DisplayCrash
  <2>4. ASSUME NEW s \in Sessions, ContainerNext(s)
        PROVE  FALSE
    BY <2>4 DEF ContainerNext, DesktopStarts, GuestPoweroff, Halt,
                ContainerCrash, DoomedExits
  <2>5. ASSUME NEW c \in Clients, ClientNext(c)
        PROVE  FALSE
    <3>1. CASE JudgeStop(c)
      <4>1. runtime' = Saved("Stopped", Nobody, Nobody)
        BY <3>1 DEF JudgeStop
      <4> QED BY <4>1 DEF Saved
    <3>2. CASE SaveStopping(c)
      <4>1. client[c].seen \in RuntimeState
        BY DEF TypeOK, Client
      <4> QED BY <3>2, <4>1 DEF SaveStopping, RuntimeState
    <3>3. CASE runtime' = runtime
      BY <3>3
    <3> QED
      BY <2>5, <3>1, <3>2, <3>3
         DEF ClientNext, Served, Issue, JudgeStart, SendStart, AwaitSupervised,
             AwaitTimeout, RetryStart, Spawn, WatchStart, WatchTimeout, SendStop,
             SignalContainer, ContainerGone, KillContainer, MachineStopped,
             StopTimeout, SendClose, JudgeMaintenance, LockForMaintenance,
             MaintenanceTimeout, EndMaintenance
  <2>6. CASE UNCHANGED vars
    BY <2>6 DEF vars
  <2> QED BY <2>2, <2>3, <2>4, <2>5, <2>6 DEF Next
<1> QED BY <1>1, TypeCorrect, OwnershipCorrect, PTL DEF Spec, OnlyOwnerBringsUp

\* The lock does what it is for: the detailed specification implements the
\* hand-over of the rootfs from one user to the next.
LEMMA UsersAreOne == Ownership => \A u, v \in Using : u = v
<1> SUFFICES ASSUME Ownership, NEW u \in Using, NEW v \in Using PROVE u = v
  OBVIOUS
<1>1. ASSUME NEW s \in Sessions, Alive(s)
      PROVE  \E b \in Brokers : lock = b /\ broker[b].session = s
  BY <1>1, OwnershipProtects DEF ContainerUnderLock
<1>2. ASSUME NEW c \in Clients, client[c].pc = "holding"
      PROVE  lock = c
  BY <1>2 DEF Ownership, LockFollowsPc
<1>3. \A b \in Brokers, c \in Clients : b # c
  BY ProcessesAreDistinct
<1> QED BY <1>1, <1>2, <1>3 DEF Using

\* The same after the step.
LEMMA UsersAreOneNext == (Ownership => \A u, v \in Using : u = v)'
  BY UsersAreOne, PTL

\* Export, clone, delete and a container take turns on the rootfs: whatever the
\* number of brokers and commands, the rootfs is free between two users.
THEOREM RootfsUsedByOneCorrect == Spec => RootfsUsedByOne
<1>1. Init => Using = {}
  BY DEF Init, Using, Alive
<1>2. ASSUME TypeOK, Ownership, Ownership', [Next]_vars
      PROVE  [Rootfs!Next]_Using
  <2> SUFFICES ASSUME Using' # Using PROVE Rootfs!Next
    OBVIOUS
  <2>1. Using' \subseteq Using \/ Using = {}
    BY <1>2, OwnershipStep DEF Kept
  <2>2. \A u, v \in Using : u = v
    BY <1>2, UsersAreOne
  <2>3. \A u, v \in Using' : u = v
    BY <1>2, UsersAreOneNext
  <2>4. Using \subseteq Sessions \cup Clients
    BY DEF Using
  <2>5. Using' \subseteq Sessions \cup Clients
    BY DEF Using
  <2>6. CASE Using = {}
    <3>1. PICK u \in Using' : TRUE
      BY <2>6
    <3>2. Using' = {u}
      BY <2>3, <3>1
    <3> QED BY <2>5, <2>6, <3>1, <3>2 DEF Rootfs!Next, Rootfs!Enter
  <2>7. CASE Using # {}
    <3>1. PICK u \in Using : u \notin Using'
      BY <2>1, <2>7
    <3>2. Using = {u}
      BY <2>2, <3>1
    <3>3. Using' = {}
      BY <2>1, <2>7, <3>1, <3>2
    <3> QED BY <2>4, <3>1, <3>2, <3>3 DEF Rootfs!Next, Rootfs!Leave
  <2> QED BY <2>6, <2>7
<1> QED
  BY <1>1, <1>2, TypeCorrect, OwnershipCorrect, PTL
     DEF Spec, RootfsUsedByOne, Rootfs!Spec, Rootfs!Init

=============================================================================
