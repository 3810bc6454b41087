------------------------- MODULE MachineRecordProofs -------------------------
(***************************************************************************)
(* Theorems about what runtime.json tells of a machine, for any number of  *)
(* brokers, commands, containers, clicks and faults.                       *)
(*                                                                         *)
(* First the sessions: each broker runs a container of its own, and one    *)
(* that is outside its session has nothing left running (SessionsAreOwn).  *)
(* Then the records, also the old ones that commands hold: a record that   *)
(* names a living broker and a container that is not gone names what runs  *)
(* now (RecordsAreTrue).  Then the stops and restarts that a broker takes: *)
(* runtime.json keeps saying Stopping until the broker judges how the      *)
(* session ended, or a stop command's repair puts Stopped there            *)
(* (StopsAreKept).  Last the restarts: while the broker carries out one    *)
(* request it has no other in hand (RequestsAreSingle), so a restart leads *)
(* to the next session.                                                    *)
(*                                                                         *)
(* Three theorems are about a machine that is stopped from its window      *)
(* only, "stop" \notin Operations.  They are false without it: a stop      *)
(* command that finds the container gone saves Stopped before the broker   *)
(* has looked at how the session ended.                                    *)
(***************************************************************************)
EXTENDS MachineLifecycleProofs

-----------------------------------------------------------------------------
\* Sessions

\* A broker that has a container has it alone, and unless the broker is dead
\* that container has exited or its session still lasts.
SessionIsOwn(b) ==
    LET s == broker[b].session
    IN  s # Nobody =>
            /\ container[s].phase # "unborn"
            /\ broker[b].pc # "unborn"
            /\ \A o \in Brokers : broker[o].session = s => o = b
            /\ broker[b].pc = "gone" \/ Exited(s) \/ (InSession(b) /\ Alive(s))

SessionsAreOwn == \A b \in Brokers : SessionIsOwn(b)

\* What happens to containers while no broker dies: they exit or live on.
ContainersGoOn ==
    \A s \in Sessions :
        /\ Exited(s) => Exited(s)'
        /\ container[s].phase # "unborn" => container'[s].phase # "unborn"
        /\ Alive(s) => Alive(s)' \/ Exited(s)'

\* What every step does to brokers and containers, as seen from a record: who
\* had reached the lock has, who had died is dead, and the container a broker
\* had is still its own or has exited.
Evolves ==
    /\ \A b \in Brokers : broker[b].pc \notin {"unborn", "locking"} =>
          /\ broker'[b].pc \notin {"unborn", "locking"}
          /\ BrokerAlive(b)' => BrokerAlive(b)
          /\ \A s \in Sessions :
                broker[b].session = s => broker'[b].session = s \/ Exited(s)'
    /\ \A s \in Sessions : Exited(s) => Exited(s)'

SessionStep == SessionsAreOwn' /\ Evolves

\* Killing a container lets the others go on.
LEMMA KilledGoesOn ==
    ASSUME TypeOK, NEW s \in Sessions \cup {Nobody}, container' = Killed(s)
    PROVE  ContainersGoOn
<1>1. container \in [Sessions -> Container]
  BY DEF TypeOK
<1> QED BY <1>1 DEF Killed, Alive, Exited, Container, ContainersGoOn

\* So does a halt signal.
LEMMA ShutdownGoesOn ==
    ASSUME TypeOK, NEW s \in Sessions \cup {Nobody}, RequestShutdown(s)
    PROVE  ContainersGoOn
<1>1. container \in [Sessions -> Container]
  BY DEF TypeOK
<1>2. PICK phase \in AfterHaltSignal(container[s].phase) :
        container' = [container EXCEPT ![s].phase = phase]
  BY DEF RequestShutdown
<1>3. \/ phase = container[s].phase
      \/ phase = "halting" /\ Alive(s)
  BY <1>2 DEF AfterHaltSignal, Alive
<1> QED BY <1>1, <1>2, <1>3 DEF Alive, Exited, Container, ContainersGoOn

\* A broker that lives moves, and its container is not left running outside
\* the session.
LEMMA MoveKeepsSessions ==
    ASSUME TypeOK, SessionsAreOwn, NEW b \in Brokers, NEW pc,
           BrokerAlive(b), MovesTo(b, pc), ContainersGoOn,
           pc \notin {"unborn", "locking"},
           \/ pc = "gone" \/ ~InSession(b)
           \/ pc \in {"network", "waiting", "ready", "integrating", "running",
                      "diagnosed"}
           \/ \A s \in Sessions : broker[b].session = s => ~Alive(s)'
    PROVE  SessionStep
<1>1. \A o \in Brokers : broker[o].session \in Sessions \cup {Nobody}
  BY SessionType
<1>2. SessionsAreOwn'
  <2> SUFFICES ASSUME NEW o \in Brokers, NEW s \in Sessions,
                      broker'[o].session = s
               PROVE  /\ container'[s].phase # "unborn"
                      /\ broker'[o].pc # "unborn"
                      /\ \A q \in Brokers : broker'[q].session = s => q = o
                      /\ \/ broker'[o].pc = "gone" \/ Exited(s)'
                         \/ InSession(o)' /\ Alive(s)'
    BY <1>1 DEF SessionsAreOwn, SessionIsOwn, MovesTo
  <2>1. broker[o].session = s /\ s # Nobody
    BY ProcessesAreDistinct DEF MovesTo
  <2>2. /\ container[s].phase # "unborn" /\ broker[o].pc # "unborn"
        /\ \A q \in Brokers : broker[q].session = s => q = o
        /\ broker[o].pc = "gone" \/ Exited(s) \/ (InSession(o) /\ Alive(s))
    BY <2>1 DEF SessionsAreOwn, SessionIsOwn
  <2>3. /\ container'[s].phase # "unborn" /\ broker'[o].pc # "unborn"
        /\ \A q \in Brokers : broker'[q].session = s => q = o
    BY <2>2 DEF MovesTo, ContainersGoOn
  <2>4. CASE o # b
    BY <2>2, <2>4 DEF MovesTo, ContainersGoOn, InSession
  <2>5. CASE o = b
    BY <2>1, <2>2, <2>5 DEF MovesTo, ContainersGoOn, InSession, BrokerAlive
  <2> QED BY <2>3, <2>4, <2>5 DEF MovesTo
<1>3. Evolves
  BY DEF Evolves, MovesTo, ContainersGoOn, BrokerAlive
<1> QED BY <1>2, <1>3 DEF SessionStep

\* A step that moves no broker.
LEMMA StillSessions ==
    ASSUME TypeOK, SessionsAreOwn, NobodyMoves, ContainersGoOn
    PROVE  SessionStep
<1>1. \A o \in Brokers : broker[o].session \in Sessions \cup {Nobody}
  BY SessionType
<1>2. ASSUME NEW b \in Brokers PROVE SessionIsOwn(b)'
  <2>1. SessionIsOwn(b)
    BY DEF SessionsAreOwn
  <2> QED BY <1>1, <2>1 DEF SessionIsOwn, NobodyMoves, ContainersGoOn, InSession
<1>3. Evolves
  BY DEF Evolves, NobodyMoves, ContainersGoOn, BrokerAlive
<1> QED BY <1>2, <1>3 DEF SessionStep, SessionsAreOwn

\* Containers that nobody touches go on.
LEMMA UntouchedGoOn ==
    ASSUME UNCHANGED container
    PROVE  ContainersGoOn
  BY DEF ContainersGoOn, Alive, Exited

\* A broker that dies takes its container, and no other, with it.
LEMMA DeathKeepsSessions ==
    ASSUME TypeOK, SessionsAreOwn, NEW b \in Brokers, BrokerAlive(b), Die(b)
    PROVE  SessionStep
<1>0. container \in [Sessions -> Container]
  BY DEF TypeOK
<1>1. MovesTo(b, "gone")
  BY MovesByGoto DEF Die
<1>2. /\ \A s \in Sessions : broker[b].session # s => container'[s] = container[s]
      /\ \A s \in Sessions : Exited(s) => Exited(s)'
      /\ \A s \in Sessions :
            container[s].phase # "unborn" => container'[s].phase # "unborn"
  BY <1>0 DEF Die, Alive, Exited, Container
<1>3. ASSUME NEW o \in Brokers PROVE SessionIsOwn(o)'
  <2>1. broker[o].session \in Sessions \cup {Nobody} /\ SessionIsOwn(o)
    BY SessionType DEF SessionsAreOwn
  <2>2. CASE o = b
    BY <1>1, <1>2, <2>1, <2>2 DEF SessionIsOwn, MovesTo
  <2>3. CASE o # b
    BY <1>1, <1>2, <2>1, <2>3 DEF SessionIsOwn, MovesTo, InSession, Exited, Alive
  <2> QED BY <2>2, <2>3
<1>4. Evolves
  BY <1>1, <1>2 DEF Evolves, MovesTo, BrokerAlive
<1> QED BY <1>3, <1>4 DEF SessionStep, SessionsAreOwn

\* Every step of a broker keeps the sessions.
LEMMA SessionsBroker ==
    ASSUME TypeOK, SessionsAreOwn, NEW b \in Brokers, BrokerNext(b)
    PROVE  SessionStep
<1>0. /\ broker \in [Brokers -> Broker]
      /\ container \in [Sessions -> Container]
      /\ broker[b].session \in Sessions \cup {Nobody}
  BY SessionType DEF TypeOK
<1>1. CASE AcquireLock(b)
  <2>1. MovesTo(b, "opening") /\ BrokerAlive(b) /\ ~InSession(b)
    BY <1>1, MovesByGoto DEF AcquireLock, BrokerAlive, InSession
  <2>2. ContainersGoOn
    BY <1>1, UntouchedGoOn DEF AcquireLock
  <2> QED BY <2>1, <2>2, MoveKeepsSessions
<1>2. CASE LockTimeout(b)
  <2>1. MovesTo(b, "gone") /\ BrokerAlive(b)
    BY <1>2, MovesByGoto DEF LockTimeout, BrokerAlive
  <2>2. ContainersGoOn
    BY <1>2, UntouchedGoOn DEF LockTimeout
  <2> QED BY <2>1, <2>2, MoveKeepsSessions
<1>3. CASE OpenDisplay(b)
  <2>1. MovesTo(b, "begin") /\ BrokerAlive(b) /\ ~InSession(b)
    BY <1>3, MovesByGoto DEF OpenDisplay, BrokerAlive, InSession
  <2>2. ContainersGoOn
    BY <1>3, UntouchedGoOn DEF OpenDisplay
  <2> QED BY <2>1, <2>2, MoveKeepsSessions
<1>4. CASE OpenDisplayFails(b)
  <2>1. MovesTo(b, "unlocking") /\ BrokerAlive(b) /\ ~InSession(b)
    BY <1>4, MovesByGoto DEF OpenDisplayFails, BrokerAlive, InSession
  <2>2. ContainersGoOn
    BY <1>4, UntouchedGoOn DEF OpenDisplayFails
  <2> QED BY <2>1, <2>2, MoveKeepsSessions
<1>5. CASE BeginSession(b)
  <2>1. /\ BrokerAlive(b) /\ ~InSession(b) /\ broker[b].pc = "begin"
        /\ UNCHANGED container
    BY <1>5 DEF BeginSession, BrokerAlive, InSession
  <2>2. /\ broker'[b].pc = "spawning" /\ broker'[b].session = Nobody
        /\ \A o \in Brokers \ {b} : broker'[o] = broker[o]
    BY <1>0, <1>5 DEF BeginSession
  <2>3. broker[b].session # Nobody => Exited(broker[b].session)
    BY <2>1 DEF SessionsAreOwn, SessionIsOwn
  <2>4. ASSUME NEW o \in Brokers PROVE SessionIsOwn(o)'
    <3>1. CASE o = b
      BY <2>2, <3>1 DEF SessionIsOwn
    <3>2. CASE o # b
      BY <2>1, <2>2, <3>2 DEF SessionsAreOwn, SessionIsOwn, InSession, Exited, Alive
    <3> QED BY <3>1, <3>2
  <2>5. \A s \in Sessions : Exited(s) => Exited(s)'
    BY <2>1 DEF Exited
  <2>6. Evolves
    BY <2>1, <2>2, <2>3, <2>5, ProcessesAreDistinct DEF Evolves, BrokerAlive
  <2> QED BY <2>4, <2>6 DEF SessionStep, SessionsAreOwn
<1>6. CASE SpawnFails(b)
  <2>1. MovesTo(b, "failed") /\ BrokerAlive(b) /\ ~InSession(b)
    BY <1>6, MovesByGoto DEF SpawnFails, BrokerAlive, InSession
  <2>2. ContainersGoOn
    BY <1>6, UntouchedGoOn DEF SpawnFails
  <2> QED BY <2>1, <2>2, MoveKeepsSessions
<1>7. ASSUME NEW z \in Sessions, SpawnContainer(b, z) PROVE SessionStep
  <2>1. /\ BrokerAlive(b) /\ ~InSession(b) /\ broker[b].pc = "spawning"
        /\ container[z].phase = "unborn"
    BY <1>7 DEF SpawnContainer, BrokerAlive, InSession
  <2>2. /\ broker'[b].pc = "network" /\ broker'[b].session = z
        /\ \A o \in Brokers \ {b} : broker'[o] = broker[o]
    BY <1>0, <1>7 DEF SpawnContainer, Broker
  <2>3. /\ container'[z].phase = "held"
        /\ \A s \in Sessions \ {z} : container'[s] = container[s]
    BY <1>0, <1>7 DEF SpawnContainer, Container
  <2>4. broker[b].session # Nobody => Exited(broker[b].session)
    BY <2>1 DEF SessionsAreOwn, SessionIsOwn
  <2>5. \A o \in Brokers : broker[o].session # z
    BY <2>1, ProcessesAreDistinct DEF SessionsAreOwn, SessionIsOwn
  <2>6. ASSUME NEW o \in Brokers PROVE SessionIsOwn(o)'
    <3>1. CASE o = b
      BY <2>2, <2>3, <2>5, <3>1 DEF SessionIsOwn, InSession, Alive
    <3>2. CASE o # b
      <4>1. broker[o].session \in Sessions \cup {Nobody}
        BY SessionType
      <4>2. SessionIsOwn(o)
        BY DEF SessionsAreOwn
      <4> QED
        BY <2>2, <2>3, <2>5, <3>2, <4>1, <4>2
           DEF SessionIsOwn, InSession, Exited, Alive
    <3> QED BY <3>1, <3>2
  <2>7. \A s \in Sessions : Exited(s) => Exited(s)'
    BY <2>1, <2>3 DEF Exited
  <2>8. Evolves
    BY <2>1, <2>2, <2>4, <2>7, ProcessesAreDistinct DEF Evolves, BrokerAlive
  <2> QED BY <2>6, <2>8 DEF SessionStep, SessionsAreOwn
<1>8. CASE ReleaseBarrier(b)
  <2>1. MovesTo(b, "waiting") /\ BrokerAlive(b)
    BY <1>8, MovesByGoto DEF ReleaseBarrier, BrokerAlive
  <2>2. ContainersGoOn
    BY <1>0, <1>8 DEF ReleaseBarrier, ContainersGoOn, Alive, Exited, Container
  <2> QED BY <2>1, <2>2, MoveKeepsSessions
<1>9. CASE NetworkFails(b) \/ StartupDeadline(b) \/ GraceExpires(b) \/ NetworkDies(b)
  <2>1. /\ Goto(b, "failed") /\ BrokerAlive(b)
        /\ container' = Killed(broker[b].session)
    BY <1>9 DEF NetworkFails, StartupDeadline, GraceExpires, NetworkDies, At,
                BrokerAlive
  <2>2. MovesTo(b, "failed") /\ ContainersGoOn
    BY <1>0, <2>1, MovesByGoto, KilledGoesOn
  <2>3. \A s \in Sessions : broker[b].session = s => ~Alive(s)'
    BY <1>0, <2>1, KilledAlive
  <2> QED BY <2>1, <2>2, <2>3, MoveKeepsSessions
<1>10. CASE DesktopReady(b)
  <2>1. MovesTo(b, "ready") /\ BrokerAlive(b) /\ UNCHANGED container
    BY <1>0, <1>10 DEF DesktopReady, MovesTo, At, BrokerAlive, Broker
  <2> QED BY <2>1, UntouchedGoOn, MoveKeepsSessions
<1>11. CASE ReadRequest(b) \/ ObserveDisplayExit(b)
  <2>1. NobodyMoves /\ UNCHANGED container
    BY <1>0, <1>11 DEF ReadRequest, ObserveDisplayExit, NobodyMoves, Broker
  <2> QED BY <2>1, UntouchedGoOn, StillSessions
<1>12. CASE TakeRequest(b)
  <2>1. NobodyMoves
    BY <1>0, <1>12 DEF TakeRequest, NobodyMoves, Broker
  <2>2. UNCHANGED container \/ RequestShutdown(broker[b].session)
    BY <1>12 DEF TakeRequest
  <2>3. ContainersGoOn
    BY <1>0, <2>2, UntouchedGoOn, ShutdownGoesOn
  <2> QED BY <2>1, <2>3, StillSessions
<1>13. CASE StartupExit(b)
  <2>1. PICK pc \in {"ended", "failed"} : Goto(b, pc)
    BY <1>13 DEF StartupExit
  <2>2. /\ MovesTo(b, pc) /\ BrokerAlive(b) /\ UNCHANGED container
        /\ Exited(broker[b].session)
    BY <1>13, <2>1, MovesByGoto DEF StartupExit, At, BrokerAlive
  <2>3. \A s \in Sessions : broker[b].session = s => ~Alive(s)'
    BY <2>2 DEF Alive, Exited
  <2> QED BY <2>1, <2>2, <2>3, UntouchedGoOn, MoveKeepsSessions
<1>14. CASE SaveReady(b)
  <2>1. MovesTo(b, "integrating") /\ BrokerAlive(b) /\ UNCHANGED container
    BY <1>0, <1>14 DEF SaveReady, MovesTo, BrokerAlive, Broker
  <2> QED BY <2>1, UntouchedGoOn, MoveKeepsSessions
<1>15. CASE SaveIntegrated(b) \/ SaveDiagnostics(b)
  <2>1. Goto(b, "running") /\ BrokerAlive(b) /\ UNCHANGED container
    BY <1>15 DEF SaveIntegrated, SaveDiagnostics, BrokerAlive
  <2> QED BY <2>1, MovesByGoto, UntouchedGoOn, MoveKeepsSessions
<1>16. CASE ObserveExit(b)
  <2>1. /\ Goto(b, "ended") /\ BrokerAlive(b) /\ UNCHANGED container
        /\ Exited(broker[b].session)
    BY <1>16 DEF ObserveExit, At, BrokerAlive
  <2>2. \A s \in Sessions : broker[b].session = s => ~Alive(s)'
    BY <2>1 DEF Alive, Exited
  <2> QED BY <2>1, <2>2, MovesByGoto, UntouchedGoOn, MoveKeepsSessions
<1>17. CASE ReadForDiagnostics(b)
  <2>1. MovesTo(b, "diagnosed") /\ BrokerAlive(b) /\ UNCHANGED container
    BY <1>0, <1>17 DEF ReadForDiagnostics, MovesTo, At, BrokerAlive, Broker
  <2> QED BY <2>1, UntouchedGoOn, MoveKeepsSessions
<1>18. CASE ShutdownOnClose(b)
  <2>1. NobodyMoves /\ RequestShutdown(broker[b].session)
    BY <1>0, <1>18 DEF ShutdownOnClose, NobodyMoves, Broker
  <2> QED BY <1>0, <2>1, ShutdownGoesOn, StillSessions
<1>19. CASE FinishSession(b)
  <2>1. PICK pc \in {"begin", "closing", "parked"} : Goto(b, pc)
    BY <1>19 DEF FinishSession
  <2>2. BrokerAlive(b) /\ ~InSession(b) /\ UNCHANGED container
    BY <1>19 DEF FinishSession, BrokerAlive, InSession
  <2> QED BY <2>1, <2>2, MovesByGoto, UntouchedGoOn, MoveKeepsSessions
<1>20. CASE FailSession(b) \/ NothingRequested(b)
  <2>1. Goto(b, "parked") /\ BrokerAlive(b) /\ ~InSession(b) /\ UNCHANGED container
    BY <1>20 DEF FailSession, NothingRequested, At, BrokerAlive, InSession
  <2> QED BY <2>1, MovesByGoto, UntouchedGoOn, MoveKeepsSessions
<1>21. CASE DisplayStillOpen(b)
  <2>1. Goto(b, "listening") /\ BrokerAlive(b) /\ ~InSession(b) /\ UNCHANGED container
    BY <1>21 DEF DisplayStillOpen, BrokerAlive, InSession
  <2> QED BY <2>1, MovesByGoto, UntouchedGoOn, MoveKeepsSessions
<1>22. CASE DisplayClosed(b)
  <2>1. Goto(b, "closing") /\ BrokerAlive(b) /\ ~InSession(b) /\ UNCHANGED container
    BY <1>22 DEF DisplayClosed, BrokerAlive, InSession
  <2> QED BY <2>1, MovesByGoto, UntouchedGoOn, MoveKeepsSessions
<1>23. CASE TakeParkedRequest(b)
  <2>1. PICK pc \in {"parked", "begin"} : MovesTo(b, pc)
    BY <1>0, <1>23 DEF TakeParkedRequest, MovesTo, Broker
  <2>2. BrokerAlive(b) /\ ~InSession(b) /\ UNCHANGED container
    BY <1>23 DEF TakeParkedRequest, BrokerAlive, InSession
  <2> QED BY <2>1, <2>2, UntouchedGoOn, MoveKeepsSessions
<1>24. CASE CloseDisplay(b)
  <2>1. Goto(b, "unlocking") /\ BrokerAlive(b) /\ ~InSession(b) /\ UNCHANGED container
    BY <1>24 DEF CloseDisplay, BrokerAlive, InSession
  <2> QED BY <2>1, MovesByGoto, UntouchedGoOn, MoveKeepsSessions
<1>25. CASE ReleaseLock(b)
  <2>1. Goto(b, "gone") /\ BrokerAlive(b) /\ UNCHANGED container
    BY <1>25 DEF ReleaseLock, BrokerAlive
  <2> QED BY <2>1, MovesByGoto, UntouchedGoOn, MoveKeepsSessions
<1>26. CASE BrokerCrash(b)
  <2>1. BrokerAlive(b) /\ Die(b)
    BY <1>26 DEF BrokerCrash
  <2> QED BY <2>1, DeathKeepsSessions
<1> QED
  BY <1>1, <1>2, <1>3, <1>4, <1>5, <1>6, <1>7, <1>8, <1>9, <1>10, <1>11, <1>12,
     <1>13, <1>14, <1>15, <1>16, <1>17, <1>18, <1>19, <1>20, <1>21, <1>22,
     <1>23, <1>24, <1>25, <1>26 DEF BrokerNext

\* Nor do containers that start, halt or crash by themselves.
LEMMA SessionsContainer ==
    ASSUME TypeOK, SessionsAreOwn, NEW z \in Sessions, ContainerNext(z)
    PROVE  SessionStep
<1>0. container \in [Sessions -> Container]
  BY DEF TypeOK
<1>1. NobodyMoves
  BY DEF ContainerNext, DesktopStarts, GuestPoweroff, Halt, ContainerCrash,
         DoomedExits, NobodyMoves
<1>2. CASE ContainerCrash(z)
  BY <1>1, <1>2, KilledGoesOn, StillSessions DEF ContainerCrash
<1>3. CASE DesktopStarts(z)
  <2>1. ContainersGoOn
    BY <1>0, <1>3 DEF DesktopStarts, ContainersGoOn, Alive, Exited, Container
  <2> QED BY <1>1, <2>1, StillSessions
<1>4. CASE GuestPoweroff(z) \/ Halt(z) \/ DoomedExits(z)
  <2>1. ContainersGoOn
    BY <1>0, <1>4 DEF GuestPoweroff, Halt, DoomedExits, ContainersGoOn, Alive,
                      Exited, Container
  <2> QED BY <1>1, <2>1, StillSessions
<1> QED BY <1>2, <1>3, <1>4 DEF ContainerNext

\* Nor do the commands: they spawn a broker, signal or kill its container, or
\* terminate it.
LEMMA SessionsClient ==
    ASSUME TypeOK, SessionsAreOwn, NEW c \in Clients, ClientNext(c)
    PROVE  SessionStep
<1>0. /\ broker \in [Brokers -> Broker]
      /\ container \in [Sessions -> Container]
      /\ client[c].seen \in RuntimeState
  BY DEF TypeOK, Client
<1>1. CASE UNCHANGED <<broker, container>>
  <2>1. NobodyMoves
    BY <1>1 DEF NobodyMoves
  <2> QED BY <1>1, <2>1, UntouchedGoOn, StillSessions
<1>2. ASSUME NEW b \in Brokers, Spawn(c, b) PROVE SessionStep
  <2>1. /\ MovesTo(b, "locking") /\ broker[b].pc = "unborn"
        /\ UNCHANGED container
    BY <1>2, MovesByGoto DEF Spawn
  <2>2. broker[b].session = Nobody
    BY <2>1 DEF SessionsAreOwn, SessionIsOwn
  <2>3. ASSUME NEW o \in Brokers PROVE SessionIsOwn(o)'
    <3>1. SessionIsOwn(o)
      BY DEF SessionsAreOwn
    <3> QED
      BY <2>1, <2>2, <3>1
         DEF SessionIsOwn, MovesTo, InSession, Exited, Alive
  <2>4. Evolves
    BY <2>1 DEF Evolves, MovesTo, BrokerAlive, Exited
  <2> QED BY <2>3, <2>4 DEF SessionStep, SessionsAreOwn
<1>3. CASE SignalContainer(c)
  <2>1. NobodyMoves /\ RequestShutdown(client[c].seen.container_pid)
    BY <1>3 DEF SignalContainer, NobodyMoves
  <2>2. client[c].seen.container_pid \in Sessions \cup {Nobody}
    BY <1>0 DEF RuntimeState
  <2> QED BY <2>1, <2>2, ShutdownGoesOn, StillSessions
<1>4. CASE KillContainer(c)
  <2>1. NobodyMoves /\ container' = Killed(client[c].seen.container_pid)
    BY <1>4 DEF KillContainer, NobodyMoves
  <2>2. client[c].seen.container_pid \in Sessions \cup {Nobody}
    BY <1>0 DEF RuntimeState
  <2> QED BY <2>1, <2>2, KilledGoesOn, StillSessions
<1>5. CASE JudgeMaintenance(c)
  <2>1. \/ UNCHANGED <<broker, container>>
        \/ /\ LauncherAlive(client[c].seen)
           /\ Die(client[c].seen.launcher_pid)
    BY <1>5 DEF JudgeMaintenance
  <2>2. CASE LauncherAlive(client[c].seen) /\ Die(client[c].seen.launcher_pid)
    <3>1. client[c].seen.launcher_pid \in Brokers
      BY <1>0, <2>2 DEF RuntimeState, LauncherAlive
    <3> QED BY <2>2, <3>1, DeathKeepsSessions DEF LauncherAlive
  <2> QED BY <1>1, <2>1, <2>2
<1> QED
  BY <1>1, <1>2, <1>3, <1>4, <1>5
     DEF ClientNext, Served, Issue, JudgeStart, SendStart, AwaitSupervised,
         AwaitTimeout, RetryStart, WatchStart, WatchTimeout, JudgeStop, SendStop,
         SaveStopping, ContainerGone, MachineStopped, StopTimeout, SendClose,
         LockForMaintenance, MaintenanceTimeout, EndMaintenance

\* At the start nobody has a container.
LEMMA SessionsInit == Init => SessionsAreOwn
  BY DEF Init, SessionsAreOwn, SessionIsOwn

\* Every step keeps the sessions, and evolves brokers and containers.
LEMMA SessionsStep == TypeOK /\ SessionsAreOwn /\ [Next]_vars => SessionStep
<1> SUFFICES ASSUME TypeOK, SessionsAreOwn, [Next]_vars PROVE SessionStep
  OBVIOUS
<1>1. CASE UNCHANGED <<broker, container>>
  <2>1. NobodyMoves
    BY <1>1 DEF NobodyMoves
  <2> QED BY <1>1, <2>1, UntouchedGoOn, StillSessions
<1>2. ASSUME NEW b \in Brokers, DisplayNext(b) PROVE UNCHANGED <<broker, container>>
  BY <1>2 DEF DisplayNext, UserActs, ApplyCommand, Poll, GuestConnected,
              GuestDisconnected, DisplayFails, SaveWindow, DisplayCrash
<1>3. UNCHANGED vars => UNCHANGED <<broker, container>>
  BY DEF vars
<1> QED
  BY <1>1, <1>2, <1>3, SessionsBroker, SessionsContainer, SessionsClient DEF Next

-----------------------------------------------------------------------------
\* Records

\* A record that names a supervisor names one that has had the lock, and if that
\* one is alive the container beside it is its own, or has exited.
RecordIsTrue(r) ==
    /\ r.launcher_pid # Nobody =>
            broker[r.launcher_pid].pc \notin {"unborn", "locking"}
    /\ LauncherAlive(r) /\ r.container_pid # Nobody =>
            \/ broker[r.launcher_pid].session = r.container_pid
            \/ Exited(r.container_pid)

RecordsAreTrue == \A r \in Records : RecordIsTrue(r)

\* A record that a broker writes about itself while it owns the lock.
OwnRecord(r) ==
    \E b \in Brokers : /\ OwnsLock(b)'
                       /\ r.launcher_pid = b
                       /\ r.container_pid \in {broker'[b].session, Nobody}

\* Two records that name the same processes.
SamePids(r, q) == /\ r.launcher_pid = q.launcher_pid
                  /\ r.container_pid = q.container_pid

\* What a step may put into runtime.json: the processes it already names, those
\* of a record that some command holds, no supervisor, or the owner's own.
RuntimeWritten ==
    \/ \E q \in Records : SamePids(runtime', q)
    \/ runtime'.launcher_pid = Nobody
    \/ OwnRecord(runtime')

\* A command goes on with the record it has, or loads runtime.json.
SeenLoaded == \A c \in Clients : client'[c].seen \in {client[c].seen, runtime}

\* An old record stays true.
LEMMA OldRecord ==
    ASSUME NEW r \in RuntimeState, RecordIsTrue(r), Evolves
    PROVE  RecordIsTrue(r)'
<1>1. /\ r.launcher_pid \in Brokers \cup {Nobody}
      /\ r.container_pid \in Sessions \cup {Nobody}
  BY DEF RuntimeState
<1>2. ASSUME r.launcher_pid # Nobody
      PROVE  broker'[r.launcher_pid].pc \notin {"unborn", "locking"}
  BY <1>1, <1>2 DEF RecordIsTrue, Evolves
<1>3. ASSUME LauncherAlive(r)', r.container_pid # Nobody
      PROVE  \/ broker'[r.launcher_pid].session = r.container_pid
             \/ Exited(r.container_pid)'
  <2>1. r.launcher_pid \in Brokers /\ r.container_pid \in Sessions
    BY <1>1, <1>3 DEF LauncherAlive
  <2>2. broker[r.launcher_pid].pc \notin {"unborn", "locking"}
    BY <2>1, ProcessesAreDistinct DEF RecordIsTrue
  <2>3. LauncherAlive(r)
    BY <1>3, <2>1, <2>2, ProcessesAreDistinct DEF Evolves, LauncherAlive
  <2>4. broker[r.launcher_pid].session = r.container_pid \/ Exited(r.container_pid)
    BY <1>3, <2>3 DEF RecordIsTrue
  <2> QED BY <2>1, <2>2, <2>4 DEF Evolves
<1> QED BY <1>2, <1>3 DEF RecordIsTrue

\* So the records of the next state are true.
LEMMA RecordsFollow ==
    ASSUME TypeOK, RecordsAreTrue, Evolves, RuntimeWritten, SeenLoaded
    PROVE  RecordsAreTrue'
<1>1. \A r \in Records : r \in RuntimeState /\ RecordIsTrue(r)'
  <2>1. \A r \in Records : r \in RuntimeState
    BY DEF TypeOK, Records, Client
  <2> QED BY <2>1, OldRecord DEF RecordsAreTrue
<1>2. RecordIsTrue(runtime)'
  <2>1. CASE \E q \in Records : SamePids(runtime', q)
    <3>1. PICK q \in Records : SamePids(runtime', q)
      BY <2>1
    <3>2. RecordIsTrue(q)'
      BY <1>1
    <3> QED BY <3>1, <3>2 DEF SamePids, RecordIsTrue, LauncherAlive
  <2>2. CASE runtime'.launcher_pid = Nobody
    BY <2>2 DEF RecordIsTrue, LauncherAlive
  <2>3. CASE OwnRecord(runtime')
    BY <2>3 DEF OwnRecord, RecordIsTrue, OwnsLock
  <2> QED BY <2>1, <2>2, <2>3 DEF RuntimeWritten
<1>3. ASSUME NEW c \in Clients PROVE RecordIsTrue(client[c].seen)'
  <2>1. client'[c].seen \in Records
    BY DEF SeenLoaded, Records
  <2>2. \A r \in Records : RecordIsTrue(r)'
    BY <1>1
  <2> QED BY <2>1, <2>2 DEF RecordIsTrue, LauncherAlive
<1> QED BY <1>2, <1>3 DEF RecordsAreTrue, Records

\* A step that leaves runtime.json and the commands alone, and more generally one
\* that keeps the processes they name.
LEMMA PidsKept ==
    ASSUME \/ runtime' = runtime
           \/ SamePids(runtime', runtime)
    PROVE  RuntimeWritten
  BY DEF RuntimeWritten, Records, SamePids

\* A broker writes about itself, and only while it owns the lock.
LEMMA RecordsBroker ==
    ASSUME TypeOK, NEW b \in Brokers, BrokerNext(b)
    PROVE  RuntimeWritten /\ SeenLoaded
<1>0. broker \in [Brokers -> Broker] /\ runtime \in RuntimeState
  BY DEF TypeOK
<1>1. SeenLoaded
  BY DEF BrokerNext, AcquireLock, LockTimeout, OpenDisplay, OpenDisplayFails,
         BeginSession, SpawnFails, SpawnContainer, ReleaseBarrier, NetworkFails,
         DesktopReady, ReadRequest, TakeRequest, StartupExit, StartupDeadline,
         SaveReady, SaveIntegrated, ObserveExit, ObserveDisplayExit,
         GraceExpires, NetworkDies, ReadForDiagnostics, SaveDiagnostics,
         ShutdownOnClose, FinishSession, FailSession, DisplayStillOpen,
         DisplayClosed, TakeParkedRequest, NothingRequested, CloseDisplay,
         ReleaseLock, BrokerCrash, SeenLoaded
<1> SUFFICES RuntimeWritten
  BY <1>1
<1>2. ASSUME OwnsLock(b)', NEW state, NEW q \in {broker'[b].session, Nobody},
             runtime' = Saved(state, b, q)
      PROVE  RuntimeWritten
  BY <1>2 DEF Saved, OwnRecord, RuntimeWritten
<1>3. ASSUME NEW state, NEW q, runtime' = Saved(state, Nobody, q)
      PROVE  RuntimeWritten
  BY <1>3 DEF Saved, RuntimeWritten
<1>4. CASE runtime' = runtime
  BY <1>4, PidsKept
<1>5. CASE BeginSession(b)
  <2>1. OwnsLock(b)' /\ runtime' = Saved("Starting", b, Nobody)
    BY <1>0, <1>5 DEF BeginSession, OwnsLock
  <2> QED BY <1>2, <2>1
<1>6. ASSUME NEW s \in Sessions, SpawnContainer(b, s) PROVE RuntimeWritten
  <2>1. OwnsLock(b)' /\ broker'[b].session = s
    BY <1>0, <1>6 DEF SpawnContainer, OwnsLock, Broker
  <2>2. runtime' = Saved(broker[b].memory, b, s)
    BY <1>6 DEF SpawnContainer
  <2> QED BY <1>2, <2>1, <2>2
<1>7. CASE TakeRequest(b)
  <2>1. OwnsLock(b)' /\ broker'[b].session = broker[b].session
    BY <1>0, <1>7 DEF TakeRequest, OwnsLock, Broker
  <2>2. \/ runtime' = runtime
        \/ runtime' = Saved("Stopping", b, broker[b].session)
        \/ runtime' = [runtime EXCEPT !.state = "Stopping"]
    BY <1>7 DEF TakeRequest
  <2>3. CASE runtime' = [runtime EXCEPT !.state = "Stopping"]
    BY <1>0, <2>3, PidsKept DEF SamePids, RuntimeState
  <2> QED BY <1>2, <1>4, <2>1, <2>2, <2>3
<1>8. CASE SaveReady(b)
  <2>1. OwnsLock(b)' /\ broker'[b].session = broker[b].session
    BY <1>0, <1>8 DEF SaveReady, OwnsLock, Broker
  <2>2. runtime' = Saved("Running", b, broker[b].session)
    BY <1>8 DEF SaveReady
  <2> QED BY <1>2, <2>1, <2>2
<1>9. CASE SaveIntegrated(b) \/ SaveDiagnostics(b)
  <2>1. OwnsLock(b)' /\ broker'[b].session = broker[b].session
    BY <1>0, <1>9 DEF SaveIntegrated, SaveDiagnostics, Goto, OwnsLock, Broker
  <2>2. runtime' = Saved(broker[b].memory, b, broker[b].session)
    BY <1>9 DEF SaveIntegrated, SaveDiagnostics
  <2> QED BY <1>2, <2>1, <2>2
<1>10. CASE ObserveExit(b)
  <2>1. OwnsLock(b)' /\ broker'[b].session = broker[b].session
    BY <1>0, <1>10 DEF ObserveExit, Goto, OwnsLock, Broker
  <2>2. runtime' = Saved("Stopping", b, broker[b].session) \/ runtime' = runtime
    BY <1>10 DEF ObserveExit
  <2> QED BY <1>2, <1>4, <2>1, <2>2
<1>11. CASE ShutdownOnClose(b)
  <2>1. OwnsLock(b)' /\ broker'[b].session = broker[b].session
    BY <1>0, <1>11 DEF ShutdownOnClose, At, OwnsLock, Broker
  <2>2. runtime' = Saved("Stopping", b, broker[b].session)
    BY <1>11 DEF ShutdownOnClose
  <2> QED BY <1>2, <2>1, <2>2
<1>12. CASE FinishSession(b)
  <2>1. OwnsLock(b)'
    <3>1. PICK pc \in {"begin", "closing", "parked"} : Goto(b, pc)
      BY <1>12 DEF FinishSession
    <3> QED BY <1>0, <3>1 DEF Goto, OwnsLock
  <2>2. \E state, p : runtime' = Saved(state, p, Nobody) /\ p \in {b, Nobody}
    BY <1>12 DEF FinishSession
  <2> QED BY <1>2, <1>3, <2>1, <2>2
<1>13. CASE FailSession(b)
  <2>1. OwnsLock(b)' /\ runtime' = Saved("Failed", b, Nobody)
    BY <1>0, <1>13 DEF FailSession, Goto, OwnsLock
  <2> QED BY <1>2, <2>1
<1>14. CASE DisplayClosed(b)
  BY <1>3, <1>14 DEF DisplayClosed
<1> QED
  BY <1>4, <1>5, <1>6, <1>7, <1>8, <1>9, <1>10, <1>11, <1>12, <1>13, <1>14
     DEF BrokerNext, AcquireLock, LockTimeout, OpenDisplay, OpenDisplayFails,
         SpawnFails, ReleaseBarrier, NetworkFails, DesktopReady, ReadRequest,
         StartupExit, StartupDeadline, ObserveDisplayExit, GraceExpires,
         NetworkDies, ReadForDiagnostics, DisplayStillOpen, TakeParkedRequest,
         NothingRequested, CloseDisplay, ReleaseLock, BrokerCrash

\* A command writes a record it has loaded, or one without a supervisor.
LEMMA RecordsClient ==
    ASSUME TypeOK, NEW c \in Clients, ClientNext(c)
    PROVE  RuntimeWritten /\ SeenLoaded
<1>0. client \in [Clients -> Client] /\ client[c].seen \in RuntimeState
  BY DEF TypeOK, Client
<1>1. SeenLoaded
  <2>1. CASE Issue(c)
    <3>1. PICK op \in Operations : Remember(c, op, "judging")
      BY <2>1 DEF Issue
    <3> QED BY <1>0, <3>1 DEF Remember, SeenLoaded
  <2>2. ASSUME NEW pc, ClientGoto(c, pc) PROVE SeenLoaded
    BY <1>0, <2>2 DEF ClientGoto, SeenLoaded, Client
  <2>3. ASSUME NEW b \in Brokers, Spawn(c, b) PROVE SeenLoaded
    BY <1>0, <2>3 DEF Spawn, SeenLoaded, Client
  <2>4. CASE \E pc : ClientGoto(c, pc)
    BY <2>2, <2>4
  <2>5. CASE SendStart(c) \/ SendStop(c) \/ SendClose(c)
    <3>1. \E pc : ClientGoto(c, pc)
      BY <2>5 DEF SendStart, SendStop, SendClose, Send
    <3> QED BY <2>4, <3>1
  <2>6. CASE JudgeStart(c) \/ JudgeStop(c) \/ JudgeMaintenance(c)
    <3>1. \E pc : ClientGoto(c, pc)
      BY <2>6 DEF JudgeStart, JudgeStop, JudgeMaintenance
    <3> QED BY <2>4, <3>1
  <2>7. CASE \/ AwaitSupervised(c) \/ AwaitTimeout(c) \/ RetryStart(c)
             \/ WatchStart(c) \/ WatchTimeout(c)
    <3>1. \E pc : ClientGoto(c, pc)
      BY <2>7 DEF AwaitSupervised, AwaitTimeout, RetryStart, WatchStart,
                  WatchTimeout
    <3> QED BY <2>4, <3>1
  <2>8. CASE \/ SaveStopping(c) \/ SignalContainer(c) \/ ContainerGone(c)
             \/ KillContainer(c) \/ MachineStopped(c) \/ StopTimeout(c)
             \/ LockForMaintenance(c) \/ MaintenanceTimeout(c)
             \/ EndMaintenance(c)
    <3>1. \E pc : ClientGoto(c, pc)
      BY <2>8 DEF SaveStopping, SignalContainer, ContainerGone, KillContainer,
                  MachineStopped, StopTimeout, LockForMaintenance,
                  MaintenanceTimeout, EndMaintenance
    <3> QED BY <2>4, <3>1
  <2> QED BY <2>1, <2>3, <2>5, <2>6, <2>7, <2>8 DEF ClientNext
<1>2. RuntimeWritten
  <2>1. CASE JudgeStop(c)
    <3>1. runtime' = Saved("Stopped", Nobody, Nobody) \/ runtime' = runtime
      BY <2>1 DEF JudgeStop
    <3> QED BY <3>1, PidsKept DEF Saved, RuntimeWritten
  <2>2. CASE SaveStopping(c)
    <3>1. SamePids(runtime', client[c].seen)
      BY <1>0, <2>2 DEF SaveStopping, SamePids, RuntimeState
    <3> QED BY <3>1 DEF RuntimeWritten, Records
  <2>3. CASE runtime' = runtime
    BY <2>3, PidsKept
  <2> QED
    BY <2>1, <2>2, <2>3
       DEF ClientNext, Served, Issue, JudgeStart, SendStart, AwaitSupervised,
           AwaitTimeout, RetryStart, Spawn, WatchStart, WatchTimeout, SendStop,
           SignalContainer, ContainerGone, KillContainer, MachineStopped,
           StopTimeout, SendClose, JudgeMaintenance, LockForMaintenance,
           MaintenanceTimeout, EndMaintenance
<1> QED BY <1>1, <1>2

\* At the start no record names anybody.
LEMMA RecordsInit == Init => RecordsAreTrue
  BY DEF Init, RecordsAreTrue, RecordIsTrue, Records, Saved, LauncherAlive

\* Every step keeps the records true.
LEMMA RecordsStep ==
    TypeOK /\ SessionsAreOwn /\ RecordsAreTrue /\ [Next]_vars => RecordsAreTrue'
<1> SUFFICES ASSUME TypeOK, SessionsAreOwn, RecordsAreTrue, [Next]_vars
             PROVE  RecordsAreTrue'
  OBVIOUS
<1>1. Evolves
  BY SessionsStep DEF SessionStep
<1>2. CASE UNCHANGED <<runtime, client>>
  <2>1. SeenLoaded
    BY <1>2 DEF SeenLoaded
  <2> QED BY <1>1, <1>2, <2>1, PidsKept, RecordsFollow
<1>3. ASSUME NEW b \in Brokers, DisplayNext(b) PROVE UNCHANGED <<runtime, client>>
  BY <1>3 DEF DisplayNext, UserActs, ApplyCommand, Poll, GuestConnected,
              GuestDisconnected, DisplayFails, SaveWindow, DisplayCrash
<1>4. ASSUME NEW s \in Sessions, ContainerNext(s) PROVE UNCHANGED <<runtime, client>>
  BY <1>4 DEF ContainerNext, DesktopStarts, GuestPoweroff, Halt, ContainerCrash,
              DoomedExits
<1>5. UNCHANGED vars => UNCHANGED <<runtime, client>>
  BY DEF vars
<1> QED
  BY <1>1, <1>2, <1>3, <1>4, <1>5, RecordsBroker, RecordsClient, RecordsFollow
     DEF Next

\* What the two invariants are for.
LEMMA TrueRecordsTell ==
    TypeOK /\ Ownership /\ SessionsAreOwn /\ RecordsAreTrue => LiveRecordIsTrue
<1> SUFFICES ASSUME TypeOK, Ownership, SessionsAreOwn, RecordsAreTrue,
                    NEW r \in Records, LauncherAlive(r)
             PROVE  /\ lock = r.launcher_pid
                    /\ RuntimeIsLive(r) =>
                            /\ Alive(r.container_pid)
                            /\ broker[r.launcher_pid].session = r.container_pid
  BY DEF LiveRecordIsTrue, RuntimeIsLive
<1>1. r \in RuntimeState
  BY DEF TypeOK, Records, Client
<1>2. r.launcher_pid \in Brokers
  BY <1>1 DEF LauncherAlive, RuntimeState
<1>3. OwnsLock(r.launcher_pid)
  BY <1>2, ProcessesAreDistinct
     DEF RecordsAreTrue, RecordIsTrue, LauncherAlive, BrokerAlive, OwnsLock
<1>4. lock = r.launcher_pid
  BY <1>2, <1>3 DEF Ownership, LockFollowsPc
<1>5. ASSUME RuntimeIsLive(r)
      PROVE  /\ Alive(r.container_pid)
             /\ broker[r.launcher_pid].session = r.container_pid
  <2>1. r.container_pid # Nobody /\ ~Exited(r.container_pid)
    BY <1>5 DEF RuntimeIsLive
  <2>2. broker[r.launcher_pid].session = r.container_pid
    BY <2>1 DEF RecordsAreTrue, RecordIsTrue
  <2> QED
    BY <1>2, <1>3, <2>1, <2>2 DEF SessionsAreOwn, SessionIsOwn, OwnsLock
<1> QED BY <1>4, <1>5

\* However old the record is that a command judges by, a supervisor it finds
\* alive holds the machine's lock, and a container it finds not gone is the one
\* that this supervisor runs.
THEOREM LiveRecordIsTrueCorrect == Spec => []LiveRecordIsTrue
<1>1. Spec => [](SessionsAreOwn /\ RecordsAreTrue)
  <2>1. TypeOK /\ SessionsAreOwn /\ [Next]_vars => SessionsAreOwn'
    BY SessionsStep DEF SessionStep
  <2> QED BY <2>1, SessionsInit, RecordsInit, RecordsStep, TypeCorrect, PTL DEF Spec
<1> QED BY <1>1, TypeCorrect, OwnershipCorrect, TrueRecordsTell, PTL

-----------------------------------------------------------------------------
\* Stops

\* What runtime.json says while a stop or restart is being carried out.
StopRecorded ==
    \/ runtime.state = "Stopping"
    \/ /\ "stop" \in Operations
       /\ runtime = Saved("Stopped", Nobody, Nobody)

\* The stop a broker took is recorded, and remembered where the record will be
\* written again from memory.  A session that nobody could stop yet has no stop
\* to remember, and diagnostics adopt what only a command can have added since.
StopIsKept(b) ==
    /\ broker[b].asked # "none"
            /\ broker[b].pc \in {"waiting", "running", "diagnosed", "ended"}
        => StopRecorded
    /\ broker[b].asked # "none" /\ broker[b].pc \in {"running", "diagnosed"}
        => broker[b].memory = "Stopping"
    /\ broker[b].pc \in {"spawning", "network", "ready", "integrating"}
        => broker[b].asked = "none"
    /\ broker[b].pc = "diagnosed" /\ runtime.state = "Stopping"
        => broker[b].memory = "Stopping" \/ "stop" \in Operations

StopsAreKept ==
    /\ \A b \in Brokers : StopIsKept(b)
    /\ \A c \in Clients : client[c].pc = "saving" => "stop" \in Operations

\* The places of a broker that the invariant says nothing of.
Elsewhere == BrokerPc \ {"waiting", "running", "diagnosed", "ended", "spawning",
                         "network", "ready", "integrating"}

\* A broker that goes elsewhere has nothing to keep.
LEMMA NothingToKeep ==
    ASSUME NEW b \in Brokers, broker'[b].pc \in Elsewhere
    PROVE  StopIsKept(b)'
  BY DEF StopIsKept, Elsewhere

\* Only the owner of the lock, among the brokers, writes runtime.json.
LEMMA OwnerWrites ==
    ASSUME NEW b \in Brokers, BrokerNext(b), runtime' # runtime
    PROVE  OwnsLock(b)
  BY DEF BrokerNext, AcquireLock, LockTimeout, OpenDisplay, OpenDisplayFails,
         BeginSession, SpawnFails, SpawnContainer, ReleaseBarrier, NetworkFails,
         DesktopReady, ReadRequest, TakeRequest, StartupExit, StartupDeadline,
         SaveReady, SaveIntegrated, ObserveExit, ObserveDisplayExit,
         GraceExpires, NetworkDies, ReadForDiagnostics, SaveDiagnostics,
         ShutdownOnClose, FinishSession, FailSession, DisplayStillOpen,
         DisplayClosed, TakeParkedRequest, NothingRequested, CloseDisplay,
         ReleaseLock, BrokerCrash, OwnsLock, At

\* A step of one broker is nothing to the others.
LEMMA OtherStopsKept ==
    ASSUME TypeOK, Ownership, NEW b \in Brokers, BrokerNext(b),
           NEW o \in Brokers, o # b, StopIsKept(o)
    PROVE  StopIsKept(o)'
<1>0. broker \in [Brokers -> Broker]
  BY DEF TypeOK
<1>1. broker'[o] = broker[o]
  <2>1. ASSUME NEW pc, Goto(b, pc) PROVE broker'[o] = broker[o]
    BY <1>0, <2>1 DEF Goto
  <2>2. CASE \E pc : Goto(b, pc)
    BY <2>1, <2>2
  <2>3. CASE BrokerCrash(b)
    BY <2>1, <2>3 DEF BrokerCrash, Die
  <2>4. CASE StartupExit(b) \/ FinishSession(b)
    <3>1. \E pc : Goto(b, pc)
      BY <2>4 DEF StartupExit, FinishSession
    <3> QED BY <2>2, <3>1
  <2>5. CASE \/ BeginSession(b) \/ DesktopReady(b) \/ ReadRequest(b)
             \/ TakeRequest(b) \/ SaveReady(b) \/ ObserveDisplayExit(b)
             \/ ReadForDiagnostics(b) \/ ShutdownOnClose(b)
             \/ TakeParkedRequest(b) \/ \E s \in Sessions : SpawnContainer(b, s)
    BY <1>0, <2>5
       DEF BeginSession, DesktopReady, ReadRequest, TakeRequest, SaveReady,
           ObserveDisplayExit, ReadForDiagnostics, ShutdownOnClose,
           TakeParkedRequest, SpawnContainer
  <2>6. CASE \/ AcquireLock(b) \/ LockTimeout(b) \/ OpenDisplay(b)
             \/ OpenDisplayFails(b) \/ SpawnFails(b) \/ ReleaseBarrier(b)
             \/ NetworkFails(b) \/ StartupDeadline(b) \/ SaveIntegrated(b)
             \/ ObserveExit(b) \/ GraceExpires(b) \/ NetworkDies(b)
             \/ SaveDiagnostics(b) \/ FailSession(b) \/ DisplayStillOpen(b)
             \/ DisplayClosed(b) \/ NothingRequested(b) \/ CloseDisplay(b)
             \/ ReleaseLock(b)
    <3>1. \E pc : Goto(b, pc)
      BY <2>6
         DEF AcquireLock, LockTimeout, OpenDisplay, OpenDisplayFails, SpawnFails,
             ReleaseBarrier, NetworkFails, StartupDeadline, SaveIntegrated,
             ObserveExit, GraceExpires, NetworkDies, SaveDiagnostics,
             FailSession, DisplayStillOpen, DisplayClosed, NothingRequested,
             CloseDisplay, ReleaseLock
    <3> QED BY <2>2, <3>1
  <2> QED BY <2>3, <2>4, <2>5, <2>6 DEF BrokerNext
<1>2. CASE runtime' = runtime
  BY <1>1, <1>2 DEF StopIsKept, StopRecorded
<1>3. CASE runtime' # runtime
  <2>1. OwnsLock(b)
    BY <1>3, OwnerWrites
  <2>2. ~OwnsLock(o)
    BY <2>1 DEF Ownership, LockFollowsPc
  <2> QED BY <1>1, <2>2 DEF StopIsKept, OwnsLock
<1> QED BY <1>2, <1>3

\* Every step of a broker keeps its own stop.
LEMMA OwnStopKept ==
    ASSUME TypeOK, NEW b \in Brokers, BrokerNext(b), StopIsKept(b)
    PROVE  StopIsKept(b)'
<1>0. /\ broker \in [Brokers -> Broker] /\ broker[b] \in Broker
      /\ runtime \in RuntimeState
  BY DEF TypeOK
<1>1. ASSUME NEW pc, Goto(b, pc)
      PROVE  /\ broker'[b].pc = pc /\ broker'[b].asked = broker[b].asked
             /\ broker'[b].memory = broker[b].memory
  BY <1>0, <1>1 DEF Goto, Broker
<1>2. ASSUME NEW pc \in Elsewhere, Goto(b, pc) PROVE StopIsKept(b)'
  BY <1>1, <1>2, NothingToKeep
<1>3. CASE \/ AcquireLock(b) \/ LockTimeout(b) \/ OpenDisplay(b)
           \/ OpenDisplayFails(b) \/ SpawnFails(b) \/ NetworkFails(b)
           \/ StartupDeadline(b) \/ GraceExpires(b) \/ NetworkDies(b)
           \/ FailSession(b) \/ DisplayStillOpen(b) \/ DisplayClosed(b)
           \/ NothingRequested(b) \/ CloseDisplay(b) \/ ReleaseLock(b)
           \/ BrokerCrash(b) \/ FinishSession(b)
  <2>1. \E pc \in Elsewhere : Goto(b, pc)
    <3>1. \A pc \in {"opening", "gone", "begin", "unlocking", "failed",
                      "parked", "listening", "closing"} : pc \in Elsewhere
      BY DEF Elsewhere, BrokerPc
    <3>2. \E pc \in {"opening", "gone", "begin", "unlocking", "failed",
                      "parked", "listening", "closing"} : Goto(b, pc)
      BY <1>3
         DEF AcquireLock, LockTimeout, OpenDisplay, OpenDisplayFails, SpawnFails,
             NetworkFails, StartupDeadline, GraceExpires, NetworkDies,
             FailSession, DisplayStillOpen, DisplayClosed, NothingRequested,
             CloseDisplay, ReleaseLock, BrokerCrash, Die, FinishSession
    <3> QED BY <3>1, <3>2
  <2> QED BY <1>2, <2>1
<1>4. CASE BeginSession(b)
  <2>1. broker'[b].asked = "none" /\ broker'[b].pc = "spawning"
    BY <1>0, <1>4 DEF BeginSession
  <2> QED BY <2>1 DEF StopIsKept
<1>5. ASSUME NEW s \in Sessions, SpawnContainer(b, s) PROVE StopIsKept(b)'
  <2>1. /\ broker'[b].asked = broker[b].asked /\ broker'[b].pc = "network"
        /\ broker[b].pc = "spawning"
    BY <1>0, <1>5 DEF SpawnContainer, Broker
  <2> QED BY <2>1 DEF StopIsKept
<1>6. CASE ReleaseBarrier(b)
  <2>1. /\ broker'[b].asked = broker[b].asked /\ broker'[b].pc = "waiting"
        /\ broker[b].pc = "network"
    BY <1>1, <1>6 DEF ReleaseBarrier
  <2> QED BY <2>1 DEF StopIsKept
<1>7. CASE DesktopReady(b)
  <2>1. broker'[b].asked = "none" /\ broker'[b].pc = "ready"
    BY <1>0, <1>7 DEF DesktopReady, Broker
  <2> QED BY <2>1 DEF StopIsKept
<1>8. CASE ReadRequest(b) \/ ObserveDisplayExit(b)
  <2>1. /\ broker'[b].asked = broker[b].asked /\ broker'[b].pc = broker[b].pc
        /\ broker'[b].memory = broker[b].memory /\ runtime' = runtime
    BY <1>0, <1>8 DEF ReadRequest, ObserveDisplayExit, Broker
  <2> QED BY <2>1 DEF StopIsKept, StopRecorded
<1>9. CASE TakeRequest(b)
  <2>1. /\ broker[b].pc \in {"waiting", "running"}
        /\ broker'[b].pc = broker[b].pc
    BY <1>0, <1>9 DEF TakeRequest, Broker
  <2>2. CASE broker[b].taken = "start"
    <3>1. /\ broker'[b].asked = broker[b].asked
          /\ broker'[b].memory = broker[b].memory /\ runtime' = runtime
      BY <1>0, <1>9, <2>2 DEF TakeRequest, Broker
    <3> QED BY <2>1, <3>1 DEF StopIsKept, StopRecorded
  <2>3. CASE broker[b].taken # "start"
    <3>1. runtime'.state = "Stopping"
      BY <1>0, <1>9, <2>3 DEF TakeRequest, Saved, RuntimeState
    <3>2. broker[b].pc = "running" => broker'[b].memory = "Stopping"
      BY <1>0, <1>9, <2>3 DEF TakeRequest, Broker
    <3> QED BY <2>1, <3>1, <3>2 DEF StopIsKept, StopRecorded
  <2> QED BY <2>2, <2>3
<1>10. CASE StartupExit(b)
  <2>1. PICK pc \in {"ended", "failed"} : Goto(b, pc)
    BY <1>10 DEF StartupExit
  <2>2. /\ broker'[b].asked = broker[b].asked /\ broker'[b].pc = pc
        /\ broker[b].pc = "waiting" /\ runtime' = runtime
    BY <1>1, <1>10, <2>1 DEF StartupExit, At
  <2> QED BY <2>2 DEF StopIsKept, StopRecorded
<1>11. CASE SaveReady(b)
  <2>1. /\ broker'[b].asked = broker[b].asked /\ broker'[b].pc = "integrating"
        /\ broker[b].pc = "ready"
    BY <1>0, <1>11 DEF SaveReady, Broker
  <2> QED BY <2>1 DEF StopIsKept
<1>12. CASE SaveIntegrated(b)
  <2>1. /\ broker'[b].asked = broker[b].asked /\ broker'[b].pc = "running"
        /\ broker[b].pc = "integrating"
    BY <1>1, <1>12 DEF SaveIntegrated
  <2> QED BY <2>1 DEF StopIsKept
<1>13. CASE ObserveExit(b)
  <2>1. /\ broker'[b].asked = broker[b].asked /\ broker'[b].pc = "ended"
        /\ broker[b].pc = "running"
    BY <1>1, <1>13 DEF ObserveExit, At
  <2>2. runtime'.state = "Stopping" \/ runtime' = runtime
    BY <1>13 DEF ObserveExit, Saved
  <2> QED BY <2>1, <2>2 DEF StopIsKept, StopRecorded
<1>14. CASE ReadForDiagnostics(b)
  <2>1. /\ broker'[b].asked = broker[b].asked /\ broker'[b].pc = "diagnosed"
        /\ broker'[b].memory = IF runtime.state = "Stopping" THEN "Stopping"
                               ELSE broker[b].memory
        /\ broker[b].pc = "running" /\ runtime' = runtime
    BY <1>0, <1>14 DEF ReadForDiagnostics, At, Broker
  <2> QED BY <2>1 DEF StopIsKept, StopRecorded
<1>15. CASE SaveDiagnostics(b)
  <2>1. /\ broker'[b].asked = broker[b].asked /\ broker'[b].pc = "running"
        /\ broker'[b].memory = broker[b].memory /\ broker[b].pc = "diagnosed"
    BY <1>1, <1>15 DEF SaveDiagnostics
  <2>2. runtime'.state = broker[b].memory
    BY <1>15 DEF SaveDiagnostics, Saved
  <2> QED BY <2>1, <2>2 DEF StopIsKept, StopRecorded
<1>16. CASE ShutdownOnClose(b)
  <2>1. /\ broker'[b].pc = "running" /\ broker'[b].memory = "Stopping"
    BY <1>0, <1>16 DEF ShutdownOnClose, At, Broker
  <2>2. runtime'.state = "Stopping"
    BY <1>16 DEF ShutdownOnClose, Saved
  <2> QED BY <2>1, <2>2 DEF StopIsKept, StopRecorded
<1>17. CASE TakeParkedRequest(b)
  <2>1. broker'[b].pc \in {"parked", "begin"}
    BY <1>0, <1>17 DEF TakeParkedRequest, Broker
  <2> QED BY <2>1 DEF StopIsKept
<1> QED
  BY <1>3, <1>4, <1>5, <1>6, <1>7, <1>8, <1>9, <1>10, <1>11, <1>12, <1>13,
     <1>14, <1>15, <1>16, <1>17 DEF BrokerNext

\* A command that saves Stopping, or repairs the record, is a stop.
LEMMA StopsClient ==
    ASSUME TypeOK, StopsAreKept, NEW c \in Clients, ClientNext(c)
    PROVE  StopsAreKept'
<1>0. /\ broker \in [Brokers -> Broker] /\ client \in [Clients -> Client]
      /\ client[c] \in Client
  BY DEF TypeOK
<1>1. ASSUME NEW d \in Clients, client'[d].pc = "saving"
      PROVE  "stop" \in Operations
  <2>1. CASE client[d].pc = "saving"
    BY <2>1 DEF StopsAreKept
  <2>2. CASE JudgeStop(c)
    BY <1>0, <2>2, KnownOperations DEF JudgeStop, Client
  <2>3. CASE client'[d].pc # "saving"
    BY <1>1, <2>3
  <2>4. ASSUME NEW pc, ClientGoto(c, pc), pc # "saving", client[d].pc # "saving"
        PROVE  FALSE
    BY <1>0, <1>1, <2>4 DEF ClientGoto, Client
  <2>5. CASE \E pc : ClientGoto(c, pc) /\ pc # "saving"
    BY <2>1, <2>4, <2>5
  <2>6. CASE Issue(c)
    <3>1. PICK op \in Operations : Remember(c, op, "judging")
      BY <2>6 DEF Issue
    <3> QED BY <1>0, <1>1, <2>1, <3>1 DEF Remember
  <2>7. ASSUME NEW b \in Brokers, Spawn(c, b) PROVE "stop" \in Operations
    BY <1>0, <1>1, <2>1, <2>7 DEF Spawn, Client
  <2>8. CASE SendStart(c) \/ SendStop(c) \/ SendClose(c)
    <3>1. \E pc : ClientGoto(c, pc) /\ pc # "saving"
      BY <2>8 DEF SendStart, SendStop, SendClose, Send
    <3> QED BY <2>5, <3>1
  <2>9. CASE JudgeStart(c) \/ JudgeMaintenance(c)
    <3>1. \E pc : ClientGoto(c, pc) /\ pc # "saving"
      BY <2>9 DEF JudgeStart, JudgeMaintenance
    <3> QED BY <2>5, <3>1
  <2>10. CASE \/ AwaitSupervised(c) \/ AwaitTimeout(c) \/ RetryStart(c)
              \/ WatchStart(c) \/ WatchTimeout(c)
    <3>1. \E pc : ClientGoto(c, pc) /\ pc # "saving"
      BY <2>10 DEF AwaitSupervised, AwaitTimeout, RetryStart, WatchStart,
                   WatchTimeout
    <3> QED BY <2>5, <3>1
  <2>11. CASE \/ SaveStopping(c) \/ SignalContainer(c) \/ ContainerGone(c)
              \/ KillContainer(c) \/ MachineStopped(c) \/ StopTimeout(c)
              \/ LockForMaintenance(c) \/ MaintenanceTimeout(c)
              \/ EndMaintenance(c)
    <3>1. \E pc : ClientGoto(c, pc) /\ pc # "saving"
      BY <2>11 DEF SaveStopping, SignalContainer, ContainerGone, KillContainer,
                   MachineStopped, StopTimeout, LockForMaintenance,
                   MaintenanceTimeout, EndMaintenance
    <3> QED BY <2>5, <3>1
  <2> QED BY <2>2, <2>6, <2>7, <2>8, <2>9, <2>10, <2>11 DEF ClientNext
<1>2. ASSUME NEW b \in Brokers PROVE StopIsKept(b)'
  <2>1. StopIsKept(b)
    BY DEF StopsAreKept
  <2>2. \/ runtime' = runtime
        \/ "stop" \in Operations /\ runtime' = Saved("Stopped", Nobody, Nobody)
        \/ "stop" \in Operations /\ runtime'.state = "Stopping"
    <3>1. CASE JudgeStop(c)
      BY <1>0, <3>1, KnownOperations DEF JudgeStop, Client
    <3>2. CASE SaveStopping(c)
      BY <1>0, <3>2 DEF SaveStopping, StopsAreKept, Client, RuntimeState
    <3> QED
      BY <3>1, <3>2
         DEF ClientNext, Served, Issue, JudgeStart, SendStart, AwaitSupervised,
             AwaitTimeout, RetryStart, Spawn, WatchStart, WatchTimeout, SendStop,
             SignalContainer, ContainerGone, KillContainer, MachineStopped,
             StopTimeout, SendClose, JudgeMaintenance, LockForMaintenance,
             MaintenanceTimeout, EndMaintenance
  <2>3. broker'[b] = broker[b] \/ broker'[b].pc \in {"locking", "gone"}
    <3>1. ASSUME NEW o, NEW pc \in {"locking", "gone"}, Goto(o, pc)
          PROVE  broker'[b] = broker[b] \/ broker'[b].pc \in {"locking", "gone"}
      BY <1>0, <3>1 DEF Goto, Broker
    <3>2. CASE \E o \in Brokers : Spawn(c, o)
      BY <3>1, <3>2 DEF Spawn
    <3>3. CASE JudgeMaintenance(c)
      BY <3>1, <3>3 DEF JudgeMaintenance, Die
    <3> QED
      BY <3>2, <3>3
         DEF ClientNext, Served, Issue, JudgeStart, SendStart, AwaitSupervised,
             AwaitTimeout, RetryStart, WatchStart, WatchTimeout, JudgeStop,
             SendStop, SaveStopping, SignalContainer, ContainerGone,
             KillContainer, MachineStopped, StopTimeout, SendClose,
             LockForMaintenance, MaintenanceTimeout, EndMaintenance
  <2>4. CASE broker'[b].pc \in {"locking", "gone"}
    BY <2>4 DEF StopIsKept
  <2>5. CASE broker'[b] = broker[b]
    BY <2>1, <2>2, <2>5 DEF StopIsKept, StopRecorded, Saved
  <2> QED BY <2>3, <2>4, <2>5
<1> QED BY <1>1, <1>2 DEF StopsAreKept

\* At the start nobody has been asked anything.
LEMMA StopsInit == Init => StopsAreKept
  BY DEF Init, StopsAreKept, StopIsKept

\* Every step keeps the stops that brokers took.
LEMMA StopsStep ==
    TypeOK /\ Ownership /\ StopsAreKept /\ [Next]_vars => StopsAreKept'
<1> SUFFICES ASSUME TypeOK, Ownership, StopsAreKept, [Next]_vars
             PROVE  StopsAreKept'
  OBVIOUS
<1>1. CASE UNCHANGED <<runtime, broker, client>>
  BY <1>1 DEF StopsAreKept, StopIsKept, StopRecorded
<1>2. ASSUME NEW b \in Brokers, BrokerNext(b) PROVE StopsAreKept'
  <2>1. \A o \in Brokers : StopIsKept(o)'
    BY <1>2, OtherStopsKept, OwnStopKept DEF StopsAreKept
  <2>2. UNCHANGED client
    BY <1>2
       DEF BrokerNext, AcquireLock, LockTimeout, OpenDisplay, OpenDisplayFails,
           BeginSession, SpawnFails, SpawnContainer, ReleaseBarrier,
           NetworkFails, DesktopReady, ReadRequest, TakeRequest, StartupExit,
           StartupDeadline, SaveReady, SaveIntegrated, ObserveExit,
           ObserveDisplayExit, GraceExpires, NetworkDies, ReadForDiagnostics,
           SaveDiagnostics, ShutdownOnClose, FinishSession, FailSession,
           DisplayStillOpen, DisplayClosed, TakeParkedRequest, NothingRequested,
           CloseDisplay, ReleaseLock, BrokerCrash
  <2> QED BY <2>1, <2>2 DEF StopsAreKept
<1>3. ASSUME NEW b \in Brokers, DisplayNext(b)
      PROVE  UNCHANGED <<runtime, broker, client>>
  BY <1>3 DEF DisplayNext, UserActs, ApplyCommand, Poll, GuestConnected,
              GuestDisconnected, DisplayFails, SaveWindow, DisplayCrash
<1>4. ASSUME NEW s \in Sessions, ContainerNext(s)
      PROVE  UNCHANGED <<runtime, broker, client>>
  BY <1>4 DEF ContainerNext, DesktopStarts, GuestPoweroff, Halt, ContainerCrash,
              DoomedExits
<1>5. UNCHANGED vars => UNCHANGED <<runtime, broker, client>>
  BY DEF vars
<1> QED BY <1>1, <1>2, <1>3, <1>4, <1>5, StopsClient DEF Next

\* So the invariant holds at every step.
LEMMA StopsCorrect == Spec => []StopsAreKept
  BY StopsInit, StopsStep, TypeCorrect, OwnershipCorrect, PTL DEF Spec

\* From the moment a broker takes a stop or restart until it judges how the
\* session ended, runtime.json says Stopping, unless a stop command put Stopped
\* in its place: no diagnostics, readiness or exit of the session writes over it.
THEOREM TakenStopIsKeptCorrect == Spec => []TakenStopIsKept
<1>1. StopsAreKept => TakenStopIsKept
  BY DEF StopsAreKept, StopIsKept, StopRecorded, TakenStopIsKept
<1> QED BY <1>1, StopsCorrect, PTL

\* What a broker does not do itself leaves it where it is, or kills it, or is
\* its birth.
LEMMA OnlyItself ==
    ASSUME TypeOK, [Next]_vars, NEW b \in Brokers, ~BrokerNext(b)
    PROVE  \/ broker'[b] = broker[b]
           \/ broker'[b].pc = "gone"
           \/ broker[b].pc = "unborn" /\ broker'[b].pc = "locking"
<1>0. broker \in [Brokers -> Broker]
  BY DEF TypeOK
<1> DEFINE Stays == \/ broker'[b] = broker[b]
                    \/ broker'[b].pc = "gone"
                    \/ broker[b].pc = "unborn" /\ broker'[b].pc = "locking"
<1>1. CASE UNCHANGED broker
  BY <1>1
<1>2. ASSUME NEW o \in Brokers, BrokerNext(o), o # b PROVE Stays
  <2>1. CASE BrokerCrash(o)
    BY <1>0, <1>2, <2>1 DEF BrokerCrash, Die, Goto
  <2>2. CASE StartupExit(o) \/ FinishSession(o)
    <3>1. \E pc : Goto(o, pc)
      BY <2>2 DEF StartupExit, FinishSession
    <3> QED BY <1>0, <1>2, <3>1 DEF Goto
  <2>3. CASE \/ BeginSession(o) \/ DesktopReady(o) \/ ReadRequest(o)
             \/ TakeRequest(o) \/ SaveReady(o) \/ ObserveDisplayExit(o)
             \/ ReadForDiagnostics(o) \/ ShutdownOnClose(o)
             \/ TakeParkedRequest(o) \/ \E s \in Sessions : SpawnContainer(o, s)
    BY <1>0, <1>2, <2>3
       DEF BeginSession, DesktopReady, ReadRequest, TakeRequest, SaveReady,
           ObserveDisplayExit, ReadForDiagnostics, ShutdownOnClose,
           TakeParkedRequest, SpawnContainer
  <2> QED
    BY <1>0, <1>2, <2>1, <2>2, <2>3
       DEF BrokerNext, AcquireLock, LockTimeout, OpenDisplay, OpenDisplayFails,
           SpawnFails, ReleaseBarrier, NetworkFails, StartupDeadline,
           SaveIntegrated, ObserveExit, GraceExpires, NetworkDies,
           SaveDiagnostics, FailSession, DisplayStillOpen, DisplayClosed,
           NothingRequested, CloseDisplay, ReleaseLock, Goto
<1>3. ASSUME NEW c \in Clients, ClientNext(c) PROVE Stays
  <2>1. ASSUME NEW o, Goto(o, "gone") PROVE Stays
    BY <1>0, <2>1 DEF Goto, Broker
  <2>2. ASSUME NEW o \in Brokers, Spawn(c, o) PROVE Stays
    BY <1>0, <2>2 DEF Spawn, Goto, Broker
  <2>3. CASE JudgeMaintenance(c)
    BY <1>1, <2>1, <2>3 DEF JudgeMaintenance, Die
  <2> QED
    BY <1>3, <2>2, <2>3
       DEF ClientNext, Served, Issue, JudgeStart, SendStart, AwaitSupervised,
           AwaitTimeout, RetryStart, WatchStart, WatchTimeout, JudgeStop,
           SendStop, SaveStopping, SignalContainer, ContainerGone,
           KillContainer, MachineStopped, StopTimeout, SendClose,
           LockForMaintenance, MaintenanceTimeout, EndMaintenance
<1>4. ASSUME NEW o \in Brokers, DisplayNext(o) PROVE UNCHANGED broker
  BY <1>4 DEF DisplayNext, UserActs, ApplyCommand, Poll, GuestConnected,
              GuestDisconnected, DisplayFails, SaveWindow, DisplayCrash
<1>5. ASSUME NEW s \in Sessions, ContainerNext(s) PROVE UNCHANGED broker
  BY <1>5 DEF ContainerNext, DesktopStarts, GuestPoweroff, Halt, ContainerCrash,
              DoomedExits
<1>6. UNCHANGED vars => UNCHANGED broker
  BY DEF vars
<1> QED
  BY <1>1, <1>2, <1>3, <1>4, <1>5, <1>6 DEF Next

LEMMA CrashIsTheEnd ==
    ASSUME TypeOK, NEW b \in Brokers, BrokerCrash(b)
    PROVE  broker'[b].pc = "gone"
<1>1. broker \in [Brokers -> Broker]
  BY DEF TypeOK
<1> QED BY <1>1 DEF BrokerCrash, Die, Goto, Broker

\* Only FinishSession takes a living broker away from the end of a session, and
\* only SaveDiagnostics from the diagnostics back to the loop.
LEMMA WhoLeaves ==
    ASSUME TypeOK, [Next]_vars, NEW b \in Brokers
    PROVE  /\ broker[b].pc = "ended" /\ broker'[b].pc \notin {"ended", "gone"}
                => FinishSession(b)
           /\ broker[b].pc = "diagnosed" /\ broker'[b].pc = "running"
                => SaveDiagnostics(b)
<1>1. ASSUME BrokerNext(b), broker[b].pc \in {"ended", "diagnosed"}
      PROVE  FinishSession(b) \/ SaveDiagnostics(b) \/ BrokerCrash(b)
  BY <1>1
     DEF BrokerNext, AcquireLock, LockTimeout, OpenDisplay, OpenDisplayFails,
         BeginSession, SpawnFails, SpawnContainer, ReleaseBarrier, NetworkFails,
         DesktopReady, ReadRequest, TakeRequest, StartupExit, StartupDeadline,
         SaveReady, SaveIntegrated, ObserveExit, ObserveDisplayExit,
         GraceExpires, NetworkDies, ReadForDiagnostics, ShutdownOnClose,
         FailSession, DisplayStillOpen, DisplayClosed, TakeParkedRequest,
         NothingRequested, CloseDisplay, ReleaseLock, At
<1>2. FinishSession(b) => broker[b].pc = "ended"
  BY DEF FinishSession
<1>3. SaveDiagnostics(b) => broker[b].pc = "diagnosed"
  BY DEF SaveDiagnostics
<1> QED BY <1>1, <1>2, <1>3, OnlyItself, CrashIsTheEnd

\* While the machine is stopped from its window only, a stop or restart that the
\* broker took ends in Stopped, however the container went down.
THEOREM RequestedStopSucceedsFromTheWindow ==
    ASSUME "stop" \notin Operations
    PROVE  Spec => RequestedStopSucceeds
<1>1. TypeOK /\ StopsAreKept /\ [Next]_vars =>
        [\A b \in Brokers :
            broker[b].asked # "none" /\ broker[b].pc = "ended"
                    /\ broker'[b].pc # "ended" /\ broker'[b].pc # "gone"
                => runtime'.state = "Stopped"]_vars
  <2> SUFFICES ASSUME TypeOK, StopsAreKept, [Next]_vars, NEW b \in Brokers,
                      broker[b].asked # "none", broker[b].pc = "ended",
                      broker'[b].pc # "ended", broker'[b].pc # "gone"
               PROVE  runtime'.state = "Stopped"
    OBVIOUS
  <2>1. FinishSession(b)
    BY WhoLeaves
  <2>2. runtime.state = "Stopping"
    BY DEF StopsAreKept, StopIsKept, StopRecorded
  <2> QED BY <2>1, <2>2 DEF FinishSession, Saved
<1> QED BY <1>1, TypeCorrect, StopsCorrect, PTL DEF Spec, RequestedStopSucceeds

\* While the machine is stopped from its window only, diagnostics never put an
\* older Running over Stopping: what the run "erased" shows takes a stop command.
THEOREM DiagnosticsKeepStoppingFromTheWindow ==
    ASSUME "stop" \notin Operations
    PROVE  Spec => DiagnosticsKeepStopping
<1>1. TypeOK /\ StopsAreKept /\ [Next]_vars =>
        [\A b \in Brokers :
            broker[b].pc = "diagnosed" /\ broker'[b].pc = "running"
                => ~(runtime.state = "Stopping" /\ runtime'.state = "Running")]_vars
  <2> SUFFICES ASSUME TypeOK, StopsAreKept, [Next]_vars, NEW b \in Brokers,
                      broker[b].pc = "diagnosed", broker'[b].pc = "running",
                      runtime.state = "Stopping"
               PROVE  runtime'.state # "Running"
    OBVIOUS
  <2>1. SaveDiagnostics(b)
    BY WhoLeaves
  <2>2. broker[b].memory = "Stopping"
    BY DEF StopsAreKept, StopIsKept
  <2> QED BY <2>1, <2>2 DEF SaveDiagnostics, Saved
<1> QED BY <1>1, TypeCorrect, StopsCorrect, PTL DEF Spec, DiagnosticsKeepStopping

-----------------------------------------------------------------------------
\* Restarts

\* While a stop or restart is being carried out no other request is in hand.
RequestsAreSingle ==
    \A b \in Brokers :
        broker[b].asked # "none" /\ broker[b].pc \in {"waiting", "running", "diagnosed"}
            => broker[b].taken = "none"

\* A broker that gets into one of its loops comes from a place where it has
\* been asked nothing, or has nothing in hand.
LEMMA OwnRequestSingle ==
    ASSUME TypeOK, StopsAreKept, RequestsAreSingle,
           NEW b \in Brokers, BrokerNext(b),
           broker'[b].asked # "none",
           broker'[b].pc \in {"waiting", "running", "diagnosed"}
    PROVE  broker'[b].taken = "none"
<1>1. broker \in [Brokers -> Broker]
  BY DEF TypeOK
<1>2. CASE ReleaseBarrier(b) \/ SaveIntegrated(b)
  <2>1. broker[b].asked = "none"
    BY <1>2 DEF ReleaseBarrier, SaveIntegrated, StopsAreKept, StopIsKept
  <2>2. \E pc : Goto(b, pc)
    BY <1>2 DEF ReleaseBarrier, SaveIntegrated
  <2> QED BY <1>1, <2>1, <2>2 DEF Goto, Broker
<1>3. CASE SaveDiagnostics(b)
  BY <1>1, <1>3 DEF SaveDiagnostics, Goto, RequestsAreSingle, Broker
<1>4. CASE ReadRequest(b)
  BY <1>1, <1>4 DEF ReadRequest, At, Broker
<1>5. CASE TakeRequest(b)
  BY <1>1, <1>5 DEF TakeRequest, Broker
<1>6. CASE ObserveDisplayExit(b)
  BY <1>1, <1>6 DEF ObserveDisplayExit, At, Broker
<1>7. CASE ReadForDiagnostics(b)
  BY <1>1, <1>7 DEF ReadForDiagnostics, At, Broker
<1>8. CASE ShutdownOnClose(b)
  BY <1>1, <1>8 DEF ShutdownOnClose, At, Broker
<1>9. CASE TakeParkedRequest(b) \/ BeginSession(b) \/ DesktopReady(b) \/ SaveReady(b)
  <2>1. broker'[b].pc \in {"parked", "begin", "spawning", "ready", "integrating"}
    BY <1>1, <1>9 DEF TakeParkedRequest, BeginSession, DesktopReady, SaveReady, Broker
  <2> QED BY <2>1
<1>10. CASE \E s \in Sessions : SpawnContainer(b, s)
  <2>1. broker'[b].pc = "network"
    BY <1>1, <1>10 DEF SpawnContainer, Broker
  <2> QED BY <2>1
<1>11. ASSUME NEW pc \in BrokerPc \ {"waiting", "running", "diagnosed"}, Goto(b, pc)
       PROVE  FALSE
  BY <1>1, <1>11 DEF Goto, Broker
<1>12. CASE StartupExit(b) \/ FinishSession(b)
  <2>1. \E pc \in BrokerPc \ {"waiting", "running", "diagnosed"} : Goto(b, pc)
    BY <1>12 DEF StartupExit, FinishSession, BrokerPc
  <2> QED BY <1>11, <2>1
<1>13. CASE BrokerCrash(b)
  BY <1>13, CrashIsTheEnd
<1> QED
  BY <1>2, <1>3, <1>4, <1>5, <1>6, <1>7, <1>8, <1>9, <1>10, <1>11, <1>12, <1>13
     DEF BrokerNext, AcquireLock, LockTimeout, OpenDisplay, OpenDisplayFails,
         SpawnFails, NetworkFails, StartupDeadline, ObserveExit, GraceExpires,
         NetworkDies, FailSession, DisplayStillOpen, DisplayClosed,
         NothingRequested, CloseDisplay, ReleaseLock, BrokerPc

LEMMA SinglesStep ==
    TypeOK /\ StopsAreKept /\ RequestsAreSingle /\ [Next]_vars
        => RequestsAreSingle'
<1> SUFFICES ASSUME TypeOK, StopsAreKept, RequestsAreSingle, [Next]_vars,
                    NEW b \in Brokers, broker'[b].asked # "none",
                    broker'[b].pc \in {"waiting", "running", "diagnosed"}
             PROVE  broker'[b].taken = "none"
  BY DEF RequestsAreSingle
<1>1. CASE BrokerNext(b)
  BY <1>1, OwnRequestSingle
<1>2. CASE ~BrokerNext(b)
  BY <1>2, OnlyItself DEF RequestsAreSingle
<1> QED BY <1>1, <1>2

LEMMA SinglesCorrect == Spec => []RequestsAreSingle
<1>1. Init => RequestsAreSingle
  BY DEF Init, RequestsAreSingle
<1> QED BY <1>1, SinglesStep, TypeCorrect, StopsCorrect, PTL DEF Spec

\* What a broker does in the loop of a running machine, once it has taken a
\* restart and the record says Stopping.
LEMMA RestartStep ==
    ASSUME TypeOK, RequestsAreSingle, NEW b \in Brokers, BrokerNext(b),
           broker[b].asked = "restart",
           broker[b].pc \in {"running", "diagnosed", "ended"},
           runtime.state = "Stopping"
    PROVE  \/ /\ broker'[b].asked = "restart"
              /\ broker'[b].pc \in {"running", "diagnosed", "ended"}
           \/ broker'[b].pc \in {"begin", "gone"}
           \/ budget'.fault < budget.fault
<1> DEFINE Keeps == /\ broker'[b].asked = "restart"
                    /\ broker'[b].pc \in {"running", "diagnosed", "ended"}
<1>1. broker \in [Brokers -> Broker] /\ budget \in [user : Nat, fault : Nat]
  BY DEF TypeOK
<1>2. CASE ObserveExit(b) \/ SaveDiagnostics(b)
  <2>1. \E pc \in {"running", "ended"} : Goto(b, pc)
    BY <1>2 DEF ObserveExit, SaveDiagnostics
  <2>2. Keeps
    BY <1>1, <2>1 DEF Goto, Broker
  <2> QED BY <2>2
<1>3. CASE ObserveDisplayExit(b)
  <2>1. Keeps
    BY <1>1, <1>3 DEF ObserveDisplayExit, At, Broker
  <2> QED BY <2>1
<1>4. CASE ReadForDiagnostics(b)
  <2>1. Keeps
    BY <1>1, <1>4 DEF ReadForDiagnostics, Broker
  <2> QED BY <2>1
<1>5. CASE ShutdownOnClose(b)
  <2>1. Keeps
    BY <1>1, <1>5 DEF ShutdownOnClose, At, Broker
  <2> QED BY <2>1
<1>6. CASE TakeRequest(b)
  <2>1. broker[b].taken # "none" /\ broker[b].pc = "running"
    BY <1>6 DEF TakeRequest
  <2> QED BY <2>1 DEF RequestsAreSingle
<1>7. CASE FinishSession(b)
  <2>1. Goto(b, "begin")
    BY <1>7 DEF FinishSession
  <2>2. broker'[b].pc = "begin"
    BY <1>1, <2>1 DEF Goto, Broker
  <2> QED BY <2>2
<1>8. CASE NetworkDies(b)
  BY <1>1, <1>8 DEF NetworkDies, Fault
<1>9. CASE BrokerCrash(b)
  BY <1>9, CrashIsTheEnd
<1>10. ~GraceExpires(b)
  BY DEF GraceExpires
<1> QED
  BY <1>2, <1>3, <1>4, <1>5, <1>6, <1>7, <1>8, <1>9, <1>10
     DEF BrokerNext, AcquireLock, LockTimeout, OpenDisplay, OpenDisplayFails,
         BeginSession, SpawnFails, SpawnContainer, ReleaseBarrier, NetworkFails,
         DesktopReady, ReadRequest, StartupExit, StartupDeadline, SaveReady,
         SaveIntegrated, FailSession, DisplayStillOpen, DisplayClosed,
         TakeParkedRequest, NothingRequested, CloseDisplay, ReleaseLock, At

\* While the machine is stopped from its window only, a restart that the broker
\* took from a running machine leads to the next session, unless something fails.
THEOREM RestartIsKeptFromTheWindow ==
    ASSUME "stop" \notin Operations
    PROVE  Spec => RestartIsKept
<1> DEFINE Ending == {"running", "diagnosed", "ended"}
           Holds(b) ==
             broker[b].asked = "restart" /\ broker[b].pc \in Ending
                => \/ /\ broker'[b].asked = "restart"
                      /\ broker'[b].pc \in Ending
                   \/ broker'[b].pc \in {"begin", "gone"}
                   \/ budget'.fault < budget.fault
<1>1. TypeOK /\ StopsAreKept /\ RequestsAreSingle /\ [Next]_vars
        => [\A b \in Brokers : Holds(b)]_vars
  <2> SUFFICES ASSUME TypeOK, StopsAreKept, RequestsAreSingle, [Next]_vars,
                      NEW b \in Brokers,
                      broker[b].asked = "restart", broker[b].pc \in Ending
               PROVE  Holds(b)
    OBVIOUS
  <2>1. runtime.state = "Stopping"
    BY DEF StopsAreKept, StopIsKept, StopRecorded
  <2>2. CASE BrokerNext(b)
    BY <2>1, <2>2, RestartStep
  <2>3. CASE ~BrokerNext(b)
    BY <2>3, OnlyItself
  <2> QED BY <2>2, <2>3
<1> QED
  BY <1>1, TypeCorrect, StopsCorrect, SinglesCorrect, PTL DEF Spec, RestartIsKept
=============================================================================
