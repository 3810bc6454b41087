-------------------------- MODULE MachineLifecycle --------------------------
(***************************************************************************)
(* The life of one Buzzard OS machine: the broker processes that run its   *)
(* systemd container, the native display each of them owns, the launcher   *)
(* commands that start it, stop it or take it for export, clone or         *)
(* deletion, and the files they meet in:                                   *)
(*                                                                         *)
(*   machine.lock       lock      flock held by one broker or command      *)
(*   runtime.json       runtime   replaced whole, read and written apart   *)
(*   host-request.json  mailbox   one slot per broker, display to broker   *)
(*   window.json        display[b].window     display to broker            *)
(*   control socket     inbox     launcher to display, acknowledged when   *)
(*                                queued and applied later                 *)
(*                                                                         *)
(* A process reads these files in one step and writes them in a later one: *)
(* what it read is in its own record.  Read and write are one step only    *)
(* where nothing slower than the call itself stands between them: in a     *)
(* callback of the display, at the end of a session, and where             *)
(* wait_for_desktop marks a startup as Stopping.  A process identity is    *)
(* used once: pids are not recycled.  Timeouts may expire at any time.     *)
(***************************************************************************)
EXTENDS Naturals, FiniteSets, Sequences

CONSTANTS
    Brokers,       \* broker processes, each spawned at most once
    Clients,       \* launcher commands, each issued at most once
    Sessions,      \* container (namespace PID 1) processes
    Operations,    \* the commands issued: some of "start", "stop", "maintain"
    Nobody,        \* no process: a free lock, an absent pid
    UserBudget,    \* bound: clicks in the host windows
    FaultBudget,   \* bound: crashes and failures of helpers
    InboxBound     \* bound: control commands queued at one display

ASSUME ProcessesAreDistinct ==
    /\ Brokers \cap Clients = {}
    /\ Nobody \notin Brokers \cup Clients \cup Sessions
ASSUME BoundsAreNatural == {UserBudget, FaultBudget, InboxBound} \subseteq Nat
ASSUME KnownOperations == Operations \subseteq {"start", "stop", "maintain"}

VARIABLES runtime, lock, broker, container, display, mailbox, inbox, client,
          budget

vars == <<runtime, lock, broker, container, display, mailbox, inbox, client,
          budget>>

-----------------------------------------------------------------------------
\* The records that the variables hold

Request == {"start", "stop", "restart"}     \* from the window to the broker
Command == {"start", "stop", "close"}       \* from a command to the window

MachineState == {"Starting", "Running", "Stopping", "Stopped", "Failed"}
Terminal == {"Stopped", "Failed"}

RuntimeState == [state : MachineState,
                 launcher_pid : Brokers \cup {Nobody},
                 container_pid : Sessions \cup {Nobody}]

Saved(state, launcher, pid) ==
    [state |-> state, launcher_pid |-> launcher, container_pid |-> pid]

BrokerPc == {"unborn", "locking", "opening", "begin", "spawning", "network",
             "waiting", "ready", "integrating", "running", "diagnosed",
             "ended", "failed", "parked", "listening", "closing",
             "unlocking", "gone"}

Broker == [pc : BrokerPc,
           session : Sessions \cup {Nobody},   \* the child it waits for
           memory : MachineState,              \* its RuntimeState.state
           asked : {"none", "stop", "restart"},
           taken : Request \cup {"none"},       \* read, not yet removed
           closeSeen : BOOLEAN,                \* close_shutdown_requested
           displayExit : {"no", "expected", "grace"}]

Phase == {"unborn", "held", "booting", "up", "halting",
          "doomed", "clean", "unclean"}

Container == [phase : Phase,
              ready : BOOLEAN,    \* desktop-ready and the first frame exist
              marker : BOOLEAN]   \* guest-poweroff-requested exists

Display == [up : BOOLEAN,
            state : MachineState,     \* MonitorState
            close : BOOLEAN,          \* close_requested of the window
            window : BOOLEAN]         \* close_requested in window.json

ClientPc == {"new", "judging", "sending", "awaiting", "retrying", "spawning",
             "watching", "saving", "killing", "exiting", "stopping",
             "closing", "locking", "holding", "ok", "error"}

Client == [pc : ClientPc,
           op : Operations \cup {"none"},
           seen : RuntimeState,                \* what it loaded
           child : Brokers \cup {Nobody}]      \* the broker it spawned

TypeOK ==
    /\ runtime \in RuntimeState
    /\ lock \in Brokers \cup Clients \cup {Nobody}
    /\ broker \in [Brokers -> Broker]
    /\ container \in [Sessions -> Container]
    /\ display \in [Brokers -> Display]
    /\ mailbox \in [Brokers -> Request \cup {"none"}]
    /\ inbox \in [Brokers -> Seq(Command)]
    /\ client \in [Clients -> Client]
    /\ budget \in [user : Nat, fault : Nat]

-----------------------------------------------------------------------------
\* What processes can see of each other

BrokerAlive(b) == broker[b].pc \notin {"unborn", "gone"}

Alive(s) == container[s].phase \in {"held", "booting", "up", "halting"}
Exited(s) == container[s].phase \in {"clean", "unclean"}

\* pid_alive and broker_matches_machine: the recorded supervisor exists.
LauncherAlive(r) == r.launcher_pid # Nobody /\ BrokerAlive(r.launcher_pid)

\* runtime_is_live: the recorded container and its supervisor both exist.
RuntimeIsLive(r) ==
    /\ LauncherAlive(r)
    /\ r.container_pid # Nobody
    /\ ~Exited(r.container_pid)

\* supervisor_is_live: the supervisor exists and its control socket does.
SupervisorIsLive(r) == LauncherAlive(r) /\ display[r.launcher_pid].up

\* Namespace PID 1 ignores a signal it has no handler for: until systemd has
\* installed its own, SIGRTMIN+3 is lost.
AfterHaltSignal(phase) ==
    CASE phase = "booting" -> {"booting", "halting"}
      [] phase = "up"      -> {"halting"}
      [] OTHER             -> {phase}

RequestShutdown(s) ==
    \E phase \in AfterHaltSignal(container[s].phase) :
        container' = [container EXCEPT ![s].phase = phase]

Killed(s) ==
    IF Alive(s) THEN [container EXCEPT ![s].phase = "unclean"] ELSE container

Fault == budget.fault > 0 /\ budget' = [budget EXCEPT !.fault = @ - 1]
Click == budget.user > 0 /\ budget' = [budget EXCEPT !.user = @ - 1]

\* The broker is there and not in the middle of taking a request.
At(b, pc) == broker[b].pc = pc /\ broker[b].taken = "none"

Goto(b, pc) == broker' = [broker EXCEPT ![b].pc = pc]
ClientGoto(c, pc) == client' = [client EXCEPT ![c].pc = pc]

-----------------------------------------------------------------------------
\* The broker: run_machine, launch_container, wait_for_desktop

AcquireLock_Unchecked(b) ==
    /\ broker[b].pc = "locking"
    /\ lock' = b
    /\ Goto(b, "opening")
    /\ UNCHANGED <<runtime, container, display, mailbox, inbox, client, budget>>

\* lock_machine, once the machine directory has been validated.
AcquireLock(b) ==
    /\ broker[b].pc = "locking"
    /\ lock = Nobody
    /\ lock' = b
    /\ Goto(b, "opening")
    /\ UNCHANGED <<runtime, container, display, mailbox, inbox, client, budget>>

\* The two seconds of patience run out while another process holds it.
LockTimeout(b) ==
    /\ broker[b].pc = "locking"
    /\ lock # Nobody
    /\ Goto(b, "gone")
    /\ UNCHANGED <<runtime, lock, container, display, mailbox, inbox, client,
                   budget>>

\* start_display_gateway: the window exists before the first session.
OpenDisplay(b) ==
    /\ broker[b].pc = "opening"
    /\ display' = [display EXCEPT ![b] = [up |-> TRUE, state |-> "Starting",
                                          close |-> FALSE, window |-> FALSE]]
    /\ Goto(b, "begin")
    /\ UNCHANGED <<runtime, lock, container, mailbox, inbox, client, budget>>

OpenDisplayFails(b) ==
    /\ broker[b].pc = "opening"
    /\ Fault
    /\ Goto(b, "unlocking")
    /\ UNCHANGED <<runtime, lock, container, display, mailbox, inbox, client>>

\* clear_session_runtime drops a waiting request but keeps window.json; then
\* a fresh Starting record without a container replaces runtime.json.
BeginSession(b) ==
    /\ broker[b].pc = "begin"
    /\ mailbox' = [mailbox EXCEPT ![b] = "none"]
    /\ runtime' = Saved("Starting", b, Nobody)
    /\ broker' = [broker EXCEPT ![b] =
            [pc |-> "spawning", session |-> Nobody, memory |-> "Starting",
             asked |-> "none", taken |-> "none", closeSeen |-> FALSE,
             displayExit |-> "no"]]
    /\ UNCHANGED <<lock, container, display, inbox, client, budget>>

\* Bubblewrap reports PID 1, held behind the start barrier, and its pid is
\* saved with the state the broker remembers, whatever the file says now.
SpawnContainer(b, s) ==
    /\ broker[b].pc = "spawning"
    /\ container[s].phase = "unborn"
    /\ container' = [container EXCEPT ![s].phase = "held"]
    /\ runtime' = Saved(broker[b].memory, b, s)
    /\ broker' = [broker EXCEPT ![b].pc = "network", ![b].session = s]
    /\ UNCHANGED <<lock, display, mailbox, inbox, client, budget>>

\* Any error before the child exists: namespaces, cgroup, configuration.  When
\* the instance has no container left to give it always fails.
SpawnFails(b) ==
    /\ broker[b].pc = "spawning"
    /\ \/ Fault
       \/ /\ \A s \in Sessions : container[s].phase # "unborn"
          /\ UNCHANGED budget
    /\ Goto(b, "failed")
    /\ UNCHANGED <<runtime, lock, container, display, mailbox, inbox, client>>

\* The network helper is up, or not wanted: the barrier is released.
ReleaseBarrier(b) ==
    /\ broker[b].pc = "network"
    /\ container' = IF Alive(broker[b].session)
                    THEN [container EXCEPT ![broker[b].session].phase = "booting"]
                    ELSE container
    /\ Goto(b, "waiting")
    /\ UNCHANGED <<runtime, lock, display, mailbox, inbox, client, budget>>

\* SlirpRuntime::start fails: the container is terminated behind the barrier.
NetworkFails(b) ==
    /\ broker[b].pc = "network"
    /\ Fault
    /\ container' = Killed(broker[b].session)
    /\ Goto(b, "failed")
    /\ UNCHANGED <<runtime, lock, display, mailbox, inbox, client>>

\* wait_for_desktop sees the session token and a painted frame.  What it had
\* been asked meanwhile was its own local and is gone with it.
DesktopReady(b) ==
    /\ At(b, "waiting")
    /\ container[broker[b].session].ready
    /\ broker' = [broker EXCEPT ![b].pc = "ready", ![b].asked = "none"]
    /\ UNCHANGED <<runtime, lock, container, display, mailbox, inbox, client,
                   budget>>

\* take_host_request, first half: read the slot.  Both loops take requests
\* until one stop or restart; a parked broker takes none once the window has
\* accepted Close.
ReadRequest(b) ==
    /\ \/ (At(b, "waiting") \/ At(b, "running")) /\ broker[b].asked = "none"
       \/ At(b, "listening") /\ ~display[b].window
    /\ mailbox[b] # "none"
    /\ broker' = [broker EXCEPT ![b].taken = mailbox[b]]
    /\ UNCHANGED <<runtime, lock, container, display, mailbox, inbox, client,
                   budget>>

TakeRequest_NotSaved(b) ==
    /\ broker[b].pc \in {"waiting", "running"}
    /\ broker[b].taken # "none"
    /\ mailbox' = [mailbox EXCEPT ![b] = "none"]
    /\ broker' = [broker EXCEPT ![b].taken = "none",
            ![b].asked = IF broker[b].taken = "start" THEN @ ELSE broker[b].taken]
    /\ IF broker[b].taken = "start" THEN UNCHANGED container
       ELSE RequestShutdown(broker[b].session)
    /\ UNCHANGED <<runtime, lock, display, inbox, client, budget>>

\* Second half: the slot is emptied, of whatever it holds by now.  In either
\* loop Stopping is saved and PID 1 is told to halt.
TakeRequest(b) ==
    LET request == broker[b].taken
        running == broker[b].pc = "running"
    IN  /\ broker[b].pc \in {"waiting", "running"}
        /\ request # "none"
        /\ mailbox' = [mailbox EXCEPT ![b] = "none"]
        /\ broker' = [broker EXCEPT ![b].taken = "none",
                ![b].asked = IF request = "start" THEN @ ELSE request,
                ![b].memory = IF running /\ request # "start"
                              THEN "Stopping" ELSE @]
        /\ IF request = "start"
           THEN UNCHANGED <<runtime, container>>
           ELSE /\ runtime' = IF running
                              THEN Saved("Stopping", b, broker[b].session)
                              ELSE [runtime EXCEPT !.state = "Stopping"]
                /\ RequestShutdown(broker[b].session)
        /\ UNCHANGED <<lock, display, inbox, client, budget>>

\* The container exits before the desktop is ready: an error unless somebody
\* asked for it, through the window or through runtime.json.
StartupExit(b) ==
    /\ At(b, "waiting")
    /\ Exited(broker[b].session)
    /\ Goto(b, IF broker[b].asked # "none" \/ runtime.state = "Stopping"
               THEN "ended" ELSE "failed")
    /\ UNCHANGED <<runtime, lock, container, display, mailbox, inbox, client,
                   budget>>

StartupDeadline_Abandons(b) ==
    /\ At(b, "waiting")
    /\ Goto(b, "failed")
    /\ UNCHANGED <<runtime, lock, container, display, mailbox, inbox, client,
                   budget>>

\* Ninety seconds without a ready desktop: the container is terminated.
StartupDeadline(b) ==
    /\ At(b, "waiting")
    /\ container' = Killed(broker[b].session)
    /\ Goto(b, "failed")
    /\ UNCHANGED <<runtime, lock, display, mailbox, inbox, client, budget>>

\* Running is saved over whatever the file says.
SaveReady(b) ==
    /\ broker[b].pc = "ready"
    /\ runtime' = Saved("Running", b, broker[b].session)
    /\ broker' = [broker EXCEPT ![b].pc = "integrating", ![b].memory = "Running"]
    /\ UNCHANGED <<lock, container, display, mailbox, inbox, client, budget>>

\* After the first integration pass, which takes its time, the same again.
SaveIntegrated(b) ==
    /\ broker[b].pc = "integrating"
    /\ runtime' = Saved(broker[b].memory, b, broker[b].session)
    /\ Goto(b, "running")
    /\ UNCHANGED <<lock, container, display, mailbox, inbox, client, budget>>

-----------------------------------------------------------------------------
\* The broker: the loop of launch_container while the machine runs

\* The container is gone.  An orderly guest poweroff, a window that vanished
\* or one that asked to close turn the exit into an expected one.
ObserveExit(b) ==
    /\ At(b, "running")
    /\ Exited(broker[b].session)
    /\ runtime' = IF \/ broker[b].displayExit = "grace"
                     \/ container[broker[b].session].marker
                     \/ display[b].window
                  THEN Saved("Stopping", b, broker[b].session)
                  ELSE runtime
    /\ Goto(b, "ended")
    /\ UNCHANGED <<lock, container, display, mailbox, inbox, client, budget>>

\* The display is gone: expected while stopping, else a grace period starts.
ObserveDisplayExit(b) ==
    /\ At(b, "running")
    /\ broker[b].displayExit = "no"
    /\ ~display[b].up
    /\ broker' = [broker EXCEPT ![b].displayExit =
            IF display[b].window \/ runtime.state = "Stopping"
            THEN "expected" ELSE "grace"]
    /\ UNCHANGED <<runtime, lock, container, display, mailbox, inbox, client,
                   budget>>

\* Five seconds later the container still runs and nobody is stopping it.
GraceExpires(b) ==
    /\ At(b, "running")
    /\ broker[b].displayExit = "grace"
    /\ runtime.state # "Stopping"
    /\ container' = Killed(broker[b].session)
    /\ Goto(b, "failed")
    /\ UNCHANGED <<runtime, lock, display, mailbox, inbox, client, budget>>

NetworkDies(b) ==
    /\ At(b, "running")
    /\ Fault
    /\ container' = Killed(broker[b].session)
    /\ Goto(b, "failed")
    /\ UNCHANGED <<runtime, lock, display, mailbox, inbox, client>>

\* save_diagnostics_preserving_stop, first half: adopt a Stopping it reads.
ReadForDiagnostics(b) ==
    /\ At(b, "running")
    /\ broker' = [broker EXCEPT ![b].pc = "diagnosed",
            ![b].memory = IF runtime.state = "Stopping" THEN "Stopping" ELSE @]
    /\ UNCHANGED <<runtime, lock, container, display, mailbox, inbox, client,
                   budget>>

\* Second half: save what is remembered.
SaveDiagnostics(b) ==
    /\ broker[b].pc = "diagnosed"
    /\ runtime' = Saved(broker[b].memory, b, broker[b].session)
    /\ Goto(b, "running")
    /\ UNCHANGED <<lock, container, display, mailbox, inbox, client, budget>>

\* window.json says that the host window was closed.
ShutdownOnClose(b) ==
    /\ At(b, "running")
    /\ ~broker[b].closeSeen
    /\ display[b].window
    /\ runtime' = Saved("Stopping", b, broker[b].session)
    /\ RequestShutdown(broker[b].session)
    /\ broker' = [broker EXCEPT ![b].closeSeen = TRUE, ![b].memory = "Stopping"]
    /\ UNCHANGED <<lock, display, mailbox, inbox, client, budget>>

-----------------------------------------------------------------------------
\* The broker: between sessions, in run_machine

FinishSession_DropsRestart(b) ==
    /\ broker[b].pc = "ended"
    /\ runtime' = Saved("Stopped", Nobody, Nobody)
    /\ Goto(b, "closing")
    /\ UNCHANGED <<lock, container, display, mailbox, inbox, client, budget>>

\* A session that ended by itself: Stopped when the exit was clean or the file
\* says it was asked for, else Failed.  A restart begins the next one at once.
FinishSession(b) ==
    LET restart == broker[b].asked = "restart"
        orderly == \/ container[broker[b].session].phase = "clean"
                   \/ runtime.state = "Stopping"
    IN  /\ broker[b].pc = "ended"
        /\ runtime' = IF orderly
                      THEN Saved("Stopped", IF restart THEN b ELSE Nobody, Nobody)
                      ELSE Saved("Failed", b, Nobody)
        /\ Goto(b, CASE restart -> "begin"
                     [] orderly /\ ~restart -> "closing"
                     [] OTHER -> "parked")
        /\ UNCHANGED <<lock, container, display, mailbox, inbox, client, budget>>

\* A session that could not be started or was torn down: the window stays to
\* show why.
FailSession(b) ==
    /\ broker[b].pc = "failed"
    /\ runtime' = Saved("Failed", b, Nobody)
    /\ Goto(b, "parked")
    /\ UNCHANGED <<lock, container, display, mailbox, inbox, client, budget>>

\* Parked without a session, the broker first looks for its display ...
DisplayStillOpen(b) ==
    /\ broker[b].pc = "parked"
    /\ display[b].up
    /\ Goto(b, "listening")
    /\ UNCHANGED <<runtime, lock, container, display, mailbox, inbox, client,
                   budget>>

DisplayClosed(b) ==
    /\ broker[b].pc = "parked"
    /\ ~display[b].up
    /\ runtime' = Saved("Stopped", Nobody, Nobody)
    /\ Goto(b, "closing")
    /\ UNCHANGED <<lock, container, display, mailbox, inbox, client, budget>>

TakeParkedRequest_StartOnly(b) ==
    /\ broker[b].pc = "listening"
    /\ broker[b].taken = "start"
    /\ mailbox' = [mailbox EXCEPT ![b] = "none"]
    /\ broker' = [broker EXCEPT ![b].taken = "none", ![b].pc = "begin"]
    /\ UNCHANGED <<runtime, lock, container, display, inbox, client, budget>>

\* ... and then takes the request it read: a start or restart begins a session.
TakeParkedRequest(b) ==
    /\ broker[b].pc = "listening"
    /\ broker[b].taken # "none"
    /\ mailbox' = [mailbox EXCEPT ![b] = "none"]
    /\ broker' = [broker EXCEPT ![b].taken = "none",
            ![b].pc = IF broker[b].taken = "stop" THEN "parked" ELSE "begin"]
    /\ UNCHANGED <<runtime, lock, container, display, inbox, client, budget>>

NothingRequested(b) ==
    /\ At(b, "listening")
    /\ display[b].window \/ mailbox[b] = "none"
    /\ Goto(b, "parked")
    /\ UNCHANGED <<runtime, lock, container, display, mailbox, inbox, client,
                   budget>>

CloseDisplay_LockFirst(b) ==
    /\ broker[b].pc = "closing"
    /\ lock' = Nobody
    /\ Goto(b, "unlocking")
    /\ UNCHANGED <<runtime, container, display, mailbox, inbox, client, budget>>

\* run_machine returns: its locals are dropped, the display first ...
CloseDisplay(b) ==
    /\ broker[b].pc = "closing"
    /\ display' = [display EXCEPT ![b].up = FALSE]
    /\ inbox' = [inbox EXCEPT ![b] = <<>>]
    /\ Goto(b, "unlocking")
    /\ UNCHANGED <<runtime, lock, container, mailbox, client, budget>>

\* ... the lock last, at process exit.
ReleaseLock(b) ==
    /\ broker[b].pc = "unlocking"
    /\ lock' = Nobody
    /\ Goto(b, "gone")
    /\ UNCHANGED <<runtime, container, display, mailbox, inbox, client, budget>>

\* The broker dies: flock falls, Bubblewrap's --die-with-parent dooms PID 1,
\* the files and the display window stay.
Die(b) ==
    /\ lock' = IF lock = b THEN Nobody ELSE lock
    /\ container' = [s \in Sessions |->
            IF s = broker[b].session /\ Alive(s)
            THEN [container[s] EXCEPT !.phase = "doomed"] ELSE container[s]]
    /\ Goto(b, "gone")

BrokerCrash(b) ==
    /\ BrokerAlive(b)
    /\ Fault
    /\ Die(b)
    /\ UNCHANGED <<runtime, display, mailbox, inbox, client>>

-----------------------------------------------------------------------------
\* The container: systemd and the guest desktop, as the broker relies on them

DesktopStarts(s) ==
    /\ container[s].phase \in {"booting", "halting"}
    /\ ~container[s].ready
    /\ \E b \in Brokers : broker[b].session = s /\ display[b].up
    /\ container' = [container EXCEPT ![s].ready = TRUE,
            ![s].phase = IF @ = "booting" THEN "up" ELSE @]
    /\ UNCHANGED <<runtime, lock, broker, display, mailbox, inbox, client,
                   budget>>

GuestPoweroff(s) ==
    /\ container[s].phase = "up"
    /\ Click
    /\ container' = [container EXCEPT ![s].phase = "halting"]
    /\ UNCHANGED <<runtime, lock, broker, display, mailbox, inbox, client>>

\* An orderly halt stops the desktop service, whose ExecStop leaves the marker.
Halt(s) ==
    /\ container[s].phase = "halting"
    /\ \E phase \in {"clean", "unclean"} :
        container' = [container EXCEPT ![s].phase = phase,
                          ![s].marker = IF container[s].ready THEN TRUE ELSE @]
    /\ UNCHANGED <<runtime, lock, broker, display, mailbox, inbox, client,
                   budget>>

ContainerCrash(s) ==
    /\ container[s].phase \in {"booting", "up", "halting"}
    /\ Fault
    /\ container' = Killed(s)
    /\ UNCHANGED <<runtime, lock, broker, display, mailbox, inbox, client>>

\* The kernel's SIGKILL after the broker's death arrives.
DoomedExits(s) ==
    /\ container[s].phase = "doomed"
    /\ container' = [container EXCEPT ![s].phase = "unclean"]
    /\ UNCHANGED <<runtime, lock, broker, display, mailbox, inbox, client,
                   budget>>

-----------------------------------------------------------------------------
\* The display: NativeApplication of the host window

SetState_NoWindowFile(d, state) == [d EXCEPT !.state = state]

\* set_state publishes the window's close flag as it is at that moment.
SetState(d, state) == [d EXCEPT !.state = state, !.window = d.close]

Quit(b) ==
    /\ display' = [display EXCEPT ![b].up = FALSE]
    /\ inbox' = [inbox EXCEPT ![b] = <<>>]

\* request_start, request_stop: the slot is overwritten, then the state shown.
\* The close flag follows a stop only after window.json was written.
RequestStart(b) ==
    /\ mailbox' = [mailbox EXCEPT ![b] = "start"]
    /\ display' = [display EXCEPT ![b] = SetState(@, "Starting")]

RequestStop(b, restart) ==
    /\ mailbox' = [mailbox EXCEPT ![b] = IF restart THEN "restart" ELSE "stop"]
    /\ display' = [display EXCEPT ![b] =
            [SetState(@, "Stopping") EXCEPT !.close = ~restart]]

RequestClose_AsRequest(b) ==
    /\ mailbox' = [mailbox EXCEPT ![b] = "close"]
    /\ display' = [display EXCEPT ![b] =
            SetState([@ EXCEPT !.close = TRUE], "Stopping")]

\* request_close: a window that shows no machine just quits.
RequestClose(b) ==
    \/ /\ display[b].state \in Terminal
       /\ display' = [display EXCEPT ![b].up = FALSE]
       /\ mailbox' = mailbox
    \/ /\ display[b].state \notin Terminal
       /\ mailbox' = [mailbox EXCEPT ![b] = "stop"]
       /\ display' = [display EXCEPT ![b] =
            SetState([@ EXCEPT !.close = TRUE], "Stopping")]

\* apply_host_command, as far as it is about the machine.
Apply(b, command) ==
    CASE command = "start"   -> RequestStart(b)
      [] command = "stop"    -> RequestStop(b, FALSE)
      [] command = "restart" -> RequestStop(b, TRUE)
      [] command = "close"   -> RequestClose(b)

\* The user works in the window.
UserActs(b) ==
    /\ display[b].up
    /\ Click
    /\ \E command \in Command \cup {"restart"} : Apply(b, command)
    /\ inbox' = IF display'[b].up THEN inbox ELSE [inbox EXCEPT ![b] = <<>>]
    /\ UNCHANGED <<runtime, lock, broker, container, client>>

\* poll drains the commands that the control socket queued.
ApplyCommand(b) ==
    /\ display[b].up
    /\ inbox[b] # <<>>
    /\ Apply(b, Head(inbox[b]))
    /\ inbox' = [inbox EXCEPT ![b] = IF display'[b].up THEN Tail(@) ELSE <<>>]
    /\ UNCHANGED <<runtime, lock, broker, container, client, budget>>

\* refresh_runtime_state: follow runtime.json; leave once it is terminal and
\* Close was accepted.
Poll(b) ==
    /\ display[b].up
    /\ \/ display[b].state # runtime.state
       \/ display[b].close /\ runtime.state \in Terminal
    /\ display' = [display EXCEPT ![b] =
            [(IF @.state # runtime.state THEN SetState(@, runtime.state) ELSE @)
             EXCEPT !.up = ~(display[b].close /\ runtime.state \in Terminal)]]
    /\ inbox' = IF display'[b].up THEN inbox ELSE [inbox EXCEPT ![b] = <<>>]
    /\ UNCHANGED <<runtime, lock, broker, container, mailbox, client, budget>>

\* A guest compositor connects: the window shows Starting until it polls.
GuestConnected(b) ==
    /\ display[b].up
    /\ display[b].state # "Starting"
    /\ broker[b].session # Nobody
    /\ container[broker[b].session].phase \in {"booting", "up", "halting"}
    /\ display' = [display EXCEPT ![b] = SetState(@, "Starting")]
    /\ UNCHANGED <<runtime, lock, broker, container, mailbox, inbox, client,
                   budget>>

\* It disconnects, at shutdown or in a crash of its own: the window shows
\* Stopped, or Failed when the connection broke, until it polls.
GuestDisconnected(b) ==
    /\ display[b].up
    /\ display[b].state \notin Terminal
    /\ broker[b].session # Nobody
    /\ container[broker[b].session].ready
    /\ \/ container[broker[b].session].phase = "up" /\ Fault
       \/ container[broker[b].session].phase # "up" /\ UNCHANGED budget
    /\ \E state \in Terminal :
        display' = [display EXCEPT ![b] = SetState(@, state)]
    /\ UNCHANGED <<runtime, lock, broker, container, mailbox, inbox, client>>

\* A frame or a mode that GTK cannot take shows the window as failed.
DisplayFails(b) ==
    /\ display[b].up
    /\ display[b].state # "Failed"
    /\ Fault
    /\ display' = [display EXCEPT ![b] = SetState(@, "Failed")]
    /\ UNCHANGED <<runtime, lock, broker, container, mailbox, inbox, client>>

\* The window was moved, resized or maximised: window.json is written again.
SaveWindow(b) ==
    /\ display[b].up
    /\ display' = [display EXCEPT ![b].window = display[b].close]
    /\ UNCHANGED <<runtime, lock, broker, container, mailbox, inbox, client,
                   budget>>

DisplayCrash(b) ==
    /\ display[b].up
    /\ Fault
    /\ Quit(b)
    /\ UNCHANGED <<runtime, lock, broker, container, mailbox, client>>

-----------------------------------------------------------------------------
\* The launcher commands: start, stop, lock_stopped_machine

Served == <<runtime, lock, broker, container, display, mailbox, inbox, budget>>

Remember(c, op, pc) ==
    client' = [client EXCEPT ![c] =
        [pc |-> pc, op |-> op, seen |-> runtime, child |-> Nobody]]

\* send_host_control: the one control socket of the machine answers when the
\* command is queued; it belongs to the display of a living broker if any.
Listens(b) ==
    /\ display[b].up
    /\ BrokerAlive(b) \/ \A o \in Brokers : BrokerAlive(o) => ~display[o].up

Send(c, command, pc) ==
    \/ \E b \in Brokers :
        /\ Listens(b)
        /\ Len(inbox[b]) < InboxBound
        /\ inbox' = [inbox EXCEPT ![b] = Append(@, command)]
        /\ ClientGoto(c, pc)
    \/ /\ \A b \in Brokers : ~Listens(b)
       /\ ClientGoto(c, IF client[c].op = "start" THEN "retrying" ELSE "error")
       /\ UNCHANGED inbox

\* Each command loads runtime.json first and then judges what it saw against
\* the processes that exist at that later moment.
Issue(c) ==
    /\ client[c].pc = "new"
    /\ \E op \in Operations : Remember(c, op, "judging")
    /\ UNCHANGED Served

\* start: raise a running machine's window, ask a live supervisor, or spawn.
JudgeStart(c) ==
    LET r == client[c].seen IN
    /\ client[c].pc = "judging" /\ client[c].op = "start"
    /\ ClientGoto(c, CASE r.state = "Running" /\ RuntimeIsLive(r) -> "ok"
                       [] SupervisorIsLive(r) /\ ~(r.state = "Running"
                                    /\ RuntimeIsLive(r)) -> "sending"
                       [] OTHER -> "spawning")
    /\ UNCHANGED Served

SendStart(c) ==
    /\ client[c].pc = "sending" /\ client[c].op = "start"
    /\ Send(c, "start", "awaiting")
    /\ UNCHANGED <<runtime, lock, broker, container, display, mailbox, budget>>

\* wait_for_supervised_start: the first load may still show what was there
\* before the request was taken.
AwaitSupervised(c) ==
    /\ client[c].pc = "awaiting"
    /\ \/ /\ runtime.state = "Running" /\ RuntimeIsLive(runtime)
          /\ ClientGoto(c, "ok")
       \/ /\ runtime.state = "Failed" \/ ~SupervisorIsLive(runtime)
          /\ ClientGoto(c, "retrying")
    /\ UNCHANGED Served

AwaitTimeout(c) ==
    /\ client[c].pc = "awaiting"
    /\ ClientGoto(c, "retrying")
    /\ UNCHANGED Served

\* The reused window failed: report it if a supervisor is still there, else
\* open a new one.
RetryStart(c) ==
    /\ client[c].pc = "retrying"
    /\ ClientGoto(c, IF SupervisorIsLive(runtime) THEN "error" ELSE "spawning")
    /\ UNCHANGED Served

Spawn(c, b) ==
    /\ client[c].pc = "spawning"
    /\ broker[b].pc = "unborn"
    /\ Goto(b, "locking")
    /\ client' = [client EXCEPT ![c].pc = "watching", ![c].child = b]
    /\ UNCHANGED <<runtime, lock, container, display, mailbox, inbox, budget>>

\* wait_for_detached_start
WatchStart(c) ==
    LET b == client[c].child IN
    /\ client[c].pc = "watching"
    /\ \/ /\ runtime.launcher_pid = b /\ runtime.state = "Running"
          /\ RuntimeIsLive(runtime)
          /\ ClientGoto(c, "ok")
       \/ /\ runtime.launcher_pid = b /\ runtime.state = "Failed"
          /\ ClientGoto(c, "error")
       \/ /\ broker[b].pc = "gone"
          /\ ClientGoto(c, "error")
    /\ UNCHANGED Served

WatchTimeout(c) ==
    /\ client[c].pc = "watching"
    /\ ClientGoto(c, "error")
    /\ UNCHANGED Served

\* stop: close a window without a machine, cancel a startup, halt a live
\* machine, or repair the record of a dead one.
JudgeStop(c) ==
    LET r == client[c].seen
        repair == \/ r.state = "Starting" /\ ~LauncherAlive(r)
                  \/ r.state # "Starting" /\ ~RuntimeIsLive(r)
    IN
    /\ client[c].pc = "judging" /\ client[c].op = "stop"
    /\ \/ /\ r.state \in Terminal /\ SupervisorIsLive(r)
          /\ ClientGoto(c, "closing")
          /\ UNCHANGED runtime
       \/ /\ ~(r.state \in Terminal /\ SupervisorIsLive(r))
          /\ repair
          /\ runtime' = Saved("Stopped", Nobody, Nobody)
          /\ ClientGoto(c, "ok")
       \/ /\ ~(r.state \in Terminal /\ SupervisorIsLive(r))
          /\ ~repair
          /\ ClientGoto(c, IF r.container_pid = Nobody
                           THEN "sending" ELSE "saving")
          /\ UNCHANGED runtime
    /\ UNCHANGED <<lock, broker, container, display, mailbox, inbox, budget>>

SendStop(c) ==
    /\ client[c].pc = "sending" /\ client[c].op = "stop"
    /\ Send(c, "stop", "stopping")
    /\ UNCHANGED <<runtime, lock, broker, container, display, mailbox, budget>>

SaveStopping_Unchanged(c) ==
    /\ client[c].pc = "saving"
    /\ runtime' = client[c].seen
    /\ ClientGoto(c, "killing")
    /\ UNCHANGED <<lock, broker, container, display, mailbox, inbox, budget>>

\* Only the state of the loaded record is changed before it is saved back.
SaveStopping(c) ==
    /\ client[c].pc = "saving"
    /\ runtime' = [client[c].seen EXCEPT !.state = "Stopping"]
    /\ ClientGoto(c, "killing")
    /\ UNCHANGED <<lock, broker, container, display, mailbox, inbox, budget>>

\* kill(RTMIN+3): a startup cancellation tolerates a vanished process and
\* only waits for the record; a stop of a running machine waits for the pid.
SignalContainer(c) ==
    LET r == client[c].seen IN
    /\ client[c].pc = "killing"
    /\ RequestShutdown(r.container_pid)
    /\ ClientGoto(c, CASE r.state = "Starting" -> "stopping"
                       [] r.state # "Starting" /\ Exited(r.container_pid) -> "error"
                       [] OTHER -> "exiting")
    /\ UNCHANGED <<runtime, lock, broker, display, mailbox, inbox, budget>>

ContainerGone(c) ==
    /\ client[c].pc = "exiting"
    /\ Exited(client[c].seen.container_pid)
    /\ ClientGoto(c, "stopping")
    /\ UNCHANGED Served

\* After twenty seconds, and SIGTERM, to which systemd does not exit: SIGKILL.
KillContainer(c) ==
    /\ client[c].pc = "exiting"
    /\ ~Exited(client[c].seen.container_pid)
    /\ container' = Killed(client[c].seen.container_pid)
    /\ ClientGoto(c, "stopping")
    /\ UNCHANGED <<runtime, lock, broker, display, mailbox, inbox, budget>>

\* wait_for_machine_stopped
MachineStopped(c) ==
    /\ client[c].pc = "stopping"
    /\ runtime.state \in Terminal /\ runtime.container_pid = Nobody
    /\ ClientGoto(c, "ok")
    /\ UNCHANGED Served

StopTimeout(c) ==
    /\ client[c].pc = "stopping"
    /\ ClientGoto(c, "error")
    /\ UNCHANGED Served

\* The stopped window of a machine is closed, by stop or before maintenance.
SendClose(c) ==
    /\ client[c].pc = "closing"
    /\ Send(c, "close", IF client[c].op = "stop" THEN "ok" ELSE "locking")
    /\ UNCHANGED <<runtime, lock, broker, container, display, mailbox, budget>>

\* lock_stopped_machine: refuse unless the record is terminal, get rid of a
\* living supervisor (by its window, or by SIGTERM when it has none yet) ...
JudgeMaintenance(c) ==
    LET r == client[c].seen IN
    /\ client[c].pc = "judging" /\ client[c].op = "maintain"
    /\ \/ /\ r.state \notin Terminal \/ RuntimeIsLive(r)
          /\ ClientGoto(c, "error")
          /\ UNCHANGED <<lock, broker, container>>
       \/ /\ r.state \in Terminal /\ ~RuntimeIsLive(r)
          /\ SupervisorIsLive(r)
          /\ ClientGoto(c, "closing")
          /\ UNCHANGED <<lock, broker, container>>
       \/ /\ r.state \in Terminal /\ ~RuntimeIsLive(r)
          /\ ~SupervisorIsLive(r)
          /\ ClientGoto(c, "locking")
          /\ IF LauncherAlive(r) THEN Die(r.launcher_pid)
             ELSE UNCHANGED <<lock, broker, container>>
    /\ UNCHANGED <<runtime, display, mailbox, inbox, budget>>

LockForMaintenance_Blindly(c) ==
    /\ client[c].pc = "locking"
    /\ ~LauncherAlive(client[c].seen)
    /\ lock' = c
    /\ ClientGoto(c, "holding")
    /\ UNCHANGED <<runtime, broker, container, display, mailbox, inbox, budget>>

\* ... wait for its exit and try the lock once.  runtime.json is not read again.
LockForMaintenance(c) ==
    /\ client[c].pc = "locking"
    /\ ~LauncherAlive(client[c].seen)
    /\ IF lock = Nobody
       THEN lock' = c /\ ClientGoto(c, "holding")
       ELSE lock' = lock /\ ClientGoto(c, "error")
    /\ UNCHANGED <<runtime, broker, container, display, mailbox, inbox, budget>>

MaintenanceTimeout(c) ==
    /\ client[c].pc = "locking"
    /\ LauncherAlive(client[c].seen)
    /\ ClientGoto(c, "error")
    /\ UNCHANGED Served

EndMaintenance(c) ==
    /\ client[c].pc = "holding"
    /\ lock' = Nobody
    /\ ClientGoto(c, "ok")
    /\ UNCHANGED <<runtime, broker, container, display, mailbox, inbox, budget>>

-----------------------------------------------------------------------------
\* create leaves a Stopped record that names no live process.
Init ==
    /\ runtime = Saved("Stopped", Nobody, Nobody)
    /\ lock = Nobody
    /\ broker = [b \in Brokers |->
            [pc |-> "unborn", session |-> Nobody, memory |-> "Starting",
             asked |-> "none", taken |-> "none", closeSeen |-> FALSE,
             displayExit |-> "no"]]
    /\ container = [s \in Sessions |->
            [phase |-> "unborn", ready |-> FALSE, marker |-> FALSE]]
    /\ display = [b \in Brokers |-> [up |-> FALSE, state |-> "Starting",
                                     close |-> FALSE, window |-> FALSE]]
    /\ mailbox = [b \in Brokers |-> "none"]
    /\ inbox = [b \in Brokers |-> <<>>]
    /\ client = [c \in Clients |-> [pc |-> "new", op |-> "none",
            seen |-> Saved("Stopped", Nobody, Nobody), child |-> Nobody]]
    /\ budget = [user |-> UserBudget, fault |-> FaultBudget]

BrokerNext(b) ==
    \/ AcquireLock(b) \/ LockTimeout(b) \/ OpenDisplay(b) \/ OpenDisplayFails(b)
    \/ BeginSession(b) \/ SpawnFails(b)
    \/ \E s \in Sessions : SpawnContainer(b, s)
    \/ ReleaseBarrier(b) \/ NetworkFails(b) \/ DesktopReady(b)
    \/ ReadRequest(b) \/ TakeRequest(b) \/ StartupExit(b) \/ StartupDeadline(b)
    \/ SaveReady(b) \/ SaveIntegrated(b)
    \/ ObserveExit(b) \/ ObserveDisplayExit(b) \/ GraceExpires(b)
    \/ NetworkDies(b) \/ ReadForDiagnostics(b) \/ SaveDiagnostics(b)
    \/ ShutdownOnClose(b)
    \/ FinishSession(b) \/ FailSession(b) \/ DisplayStillOpen(b)
    \/ DisplayClosed(b) \/ TakeParkedRequest(b) \/ NothingRequested(b)
    \/ CloseDisplay(b) \/ ReleaseLock(b) \/ BrokerCrash(b)

DisplayNext(b) ==
    \/ UserActs(b) \/ ApplyCommand(b) \/ Poll(b) \/ GuestConnected(b)
    \/ GuestDisconnected(b) \/ DisplayFails(b) \/ SaveWindow(b) \/ DisplayCrash(b)

ContainerNext(s) ==
    \/ DesktopStarts(s) \/ GuestPoweroff(s) \/ Halt(s) \/ ContainerCrash(s)
    \/ DoomedExits(s)

ClientNext(c) ==
    \/ Issue(c) \/ JudgeStart(c) \/ SendStart(c) \/ AwaitSupervised(c)
    \/ AwaitTimeout(c) \/ RetryStart(c) \/ (\E b \in Brokers : Spawn(c, b))
    \/ WatchStart(c) \/ WatchTimeout(c)
    \/ JudgeStop(c) \/ SendStop(c) \/ SaveStopping(c) \/ SignalContainer(c)
    \/ ContainerGone(c) \/ KillContainer(c) \/ MachineStopped(c) \/ StopTimeout(c)
    \/ SendClose(c) \/ JudgeMaintenance(c) \/ LockForMaintenance(c)
    \/ MaintenanceTimeout(c) \/ EndMaintenance(c)

Next ==
    \/ \E b \in Brokers : BrokerNext(b) \/ DisplayNext(b)
    \/ \E s \in Sessions : ContainerNext(s)
    \/ \E c \in Clients : ClientNext(c)

Spec == Init /\ [][Next]_vars

-----------------------------------------------------------------------------
\* Fairness: what the code's loops, timers and process exits guarantee

\* The straight-line work of a broker, its deadlines and its idle loop.  Left
\* out: faults, and the loop of a running machine.
Progress(b) ==
    \/ AcquireLock(b) \/ LockTimeout(b) \/ OpenDisplay(b)
    \/ BeginSession(b) \/ SpawnFails(b)
    \/ \E s \in Sessions : SpawnContainer(b, s)
    \/ ReleaseBarrier(b) \/ DesktopReady(b) \/ StartupExit(b)
    \/ StartupDeadline(b) \/ SaveReady(b) \/ SaveIntegrated(b)
    \/ TakeRequest(b) \/ SaveDiagnostics(b) \/ FinishSession(b) \/ FailSession(b)
    \/ DisplayStillOpen(b) \/ DisplayClosed(b) \/ TakeParkedRequest(b)
    \/ NothingRequested(b) \/ CloseDisplay(b) \/ ReleaseLock(b)

\* Each pass of a broker's loop makes each of its checks once, diagnostics or
\* not: a check that is due again and again is made.  GTK keeps polling, and
\* systemd finishes a halt it has begun (its own stop timeouts see to it; the
\* broker sets no deadline of its own).  The guest, the user, the commands and
\* everything that may break are not fair.
Fairness ==
    /\ \A b \in Brokers :
        /\ WF_vars(Progress(b))
        /\ SF_vars(ObserveExit(b))
        /\ SF_vars(ReadRequest(b))
        /\ SF_vars(ShutdownOnClose(b))
        /\ SF_vars(ObserveDisplayExit(b))
        /\ SF_vars(GraceExpires(b))
        /\ WF_vars(Poll(b))
        /\ WF_vars(ApplyCommand(b))
    /\ \A s \in Sessions : WF_vars(Halt(s))

FairSpec == Spec /\ Fairness

-----------------------------------------------------------------------------
\* Safety

\* launch_container runs on the rootfs that export, clone and delete read or
\* remove.  A container runs only under the living broker that holds
\* machine.lock, so two of them, or one and a maintenance command, never share
\* it.  A container whose broker died is condemned and no longer counts.
ContainerUnderLock ==
    \A s \in Sessions : Alive(s) =>
        \E b \in Brokers : lock = b /\ broker[b].session = s /\ BrokerAlive(b)

\* The abstract view of the same: the rootfs passes from one user to the next
\* only through a moment in which nobody uses it.
Using == {s \in Sessions : Alive(s)} \cup
         {c \in Clients : client[c].pc = "holding"}

Rootfs == INSTANCE RootfsUse WITH Users <- Sessions \cup Clients, using <- Using
RootfsUsedByOne == Rootfs!Spec

\* Only the lock holder brings a machine up: a broker that lost the race for
\* the lock, or a command with an old record, may write Stopping or Stopped
\* into runtime.json but never Starting or Running, and never with another
\* supervisor than the one that holds the lock.
OnlyOwnerBringsUp ==
    [][runtime' # runtime /\ runtime'.state \in {"Starting", "Running"} =>
        lock \in Brokers /\ runtime'.launcher_pid = lock]_vars

\* run_machine drops its locals in reverse order: the window of a living broker
\* never outlives its lock, so the broker that gets the lock next cannot bind
\* the machine's control socket under a window that is still open.
WindowUnderLock ==
    \A b \in Brokers : display[b].up /\ BrokerAlive(b) => lock = b

\* Why these hold at every step: the place a process has reached in its code
\* says whether it owns the lock, and what it may own only with the lock.
OwnsLock(b) == broker[b].pc \notin {"unborn", "locking", "gone"}
InSession(b) == broker[b].pc \in {"network", "waiting", "ready", "integrating",
                                  "running", "diagnosed"}

LockFollowsPc ==
    /\ \A b \in Brokers : OwnsLock(b) <=> lock = b
    /\ \A c \in Clients : client[c].pc = "holding" <=> lock = c

ContainerInSession ==
    \A s \in Sessions : Alive(s) =>
        \E b \in Brokers : broker[b].session = s /\ InSession(b)

WindowAfterLock ==
    \A b \in Brokers : display[b].up => broker[b].pc \notin {"unborn", "locking"}

\* The inductive invariant: run_machine and lock_stopped_machine use what
\* machine.lock protects only between lock_machine and the drop of the lock.
Ownership == LockFollowsPc /\ ContainerInSession /\ WindowAfterLock

\* A command judges by a record of runtime.json that it loaded earlier, and by
\* the processes of that record that still exist.  That is enough: whatever has
\* happened since, a supervisor that is alive is the one that holds the lock,
\* and a container that is not gone is the one it runs now.  So a stop signals,
\* and maintenance terminates, nothing but the machine of the moment.
Records == {runtime} \cup {client[c].seen : c \in Clients}

LiveRecordIsTrue ==
    \A r \in Records :
        /\ LauncherAlive(r) => lock = r.launcher_pid
        /\ RuntimeIsLive(r) => /\ Alive(r.container_pid)
                               /\ broker[lock].session = r.container_pid

\* Between the moment a broker takes a stop or restart and the moment it judges
\* how the session ended, runtime.json says Stopping, through diagnostics that
\* were read before and saved after.  Only a stop command may have put Stopped in
\* its place, one that found the container of its record gone (repair_stale_stop).
TakenStopIsKept ==
    \A b \in Brokers :
        broker[b].asked # "none"
                /\ broker[b].pc \in {"waiting", "running", "diagnosed", "ended"}
            => \/ runtime.state = "Stopping"
               \/ /\ "stop" \in Operations
                  /\ runtime = Saved("Stopped", Nobody, Nobody)

-----------------------------------------------------------------------------
\* Liveness

\* A window that accepted Close (or Stop) is gone in the end, whatever the
\* session was doing, unless the user takes it back with Restart or the broker
\* dies, which leaves the window without anyone to publish a terminal state.
\* buzzardos-broker main.rs:337: "Once the native window has accepted Close
\* it will quit as soon as this stopped state is visible."
CloseIsHonoured ==
    \A b \in Brokers :
        display[b].up /\ display[b].close
            ~> ~display[b].up \/ ~display[b].close \/ ~BrokerAlive(b)

\* A restart that the broker took from a running machine brings the machine
\* back, whatever else is clicked meanwhile, unless something breaks.
RestartComesBack ==
    \A b \in Brokers :
        broker[b].pc = "running" /\ broker[b].asked = "restart"
            ~> broker[b].pc = "begin" \/ budget.fault < FaultBudget

\* Until then the restart is not lost on the way: not to the window, which may
\* quit in the middle, not to another click or the guest's own poweroff, but only
\* to a failure or to the death of the broker.
RestartIsKept ==
    [][\A b \in Brokers :
        broker[b].asked = "restart" /\ broker[b].pc \in {"running", "diagnosed", "ended"}
            => \/ /\ broker'[b].asked = "restart"
                  /\ broker'[b].pc \in {"running", "diagnosed", "ended"}
               \/ broker'[b].pc \in {"begin", "gone"}
               \/ budget'.fault < budget.fault]_vars

\* A stop or restart that the broker took ends in Stopped, however the
\* container went down, and never in Failed: what the broker saved when it took
\* the request is still in runtime.json when the session is judged.
RequestedStopSucceeds ==
    [][\A b \in Brokers :
        broker[b].asked # "none" /\ broker[b].pc = "ended"
                /\ broker'[b].pc # "ended" /\ broker'[b].pc # "gone"
            => runtime'.state = "Stopped"]_vars

\* No request stays in the mailbox of a living broker.
RequestsAreTaken ==
    \A b \in Brokers :
        BrokerAlive(b) /\ mailbox[b] # "none"
            ~> ~BrokerAlive(b) \/ mailbox[b] = "none"

-----------------------------------------------------------------------------
\* What comments and messages of the code say, and the code does not keep

\* save_diagnostics_preserving_stop, buzzardos-broker main.rs:941-943: a stop
\* that the launcher requests "between this broker's diagnostics read and
\* write" is not erased by an older in-memory Running.
DiagnosticsKeepStopping ==
    [][\A b \in Brokers :
        broker[b].pc = "diagnosed" /\ broker'[b].pc = "running"
            => ~(runtime.state = "Stopping" /\ runtime'.state = "Running")]_vars

\* wait_for_supervised_start: "machine failed to start" is said of the start
\* that was requested, so not while that request still waits to be taken.
FailureIsOfThisStart ==
    [][\A c \in Clients :
        client[c].pc = "awaiting" /\ client'[c].pc = "retrying"
                /\ runtime.state = "Failed"
            => \A b \in Brokers : mailbox[b] # "start" /\ inbox[b] = <<>>]_vars

=============================================================================
