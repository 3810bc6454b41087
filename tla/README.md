# Buzzard OS: a TLA+ model of its machines

Buzzard OS runs complete Linux desktops ("machines") in user namespaces. This
directory holds specifications of the parts of it where processes, files and
failures meet, the TLC configurations that check them on small instances, and
machine-checked proofs of the results that matter most. Paths below are
relative to the repository; `launcher`, `broker`, `display` and `wb-core` stand
for `host/crates/buzzardos`, `host/crates/buzzardos-broker`,
`host/crates/buzzardos-display` and `host/crates/wb-core`.

## 1. Inventory of the system

| Part | State it keeps | Operations | Talks to |
|---|---|---|---|
| Launcher CLI (`launcher/src/main.rs`) | none of its own; each command is a short process with what it loaded | create, pull, build, import, clone, start, stop, window, export, delete, register, unregister, status, list | `runtime.json`, `machine.lock`, `machines.json`, the display's control socket, the broker (spawn, SIGTERM), PID 1 of the container (SIGRTMIN+3, SIGKILL) |
| Broker (`broker/src/main.rs`) | position in `run_machine`/`launch_container`, an in-memory `RuntimeState`, what was requested | open the display, run sessions, take requests, save diagnostics, finish or fail a session, park | `runtime.json`, `host-request.json`, `window.json`, container, display child, network helper |
| Live integrations (`broker/src/integrations.rs`) | applied ports, proxies, media devices, the generation of the last control file | reconcile, retry, revoke | `machine.json`, `integration.json` and `integration-status.json` (guest integration agent), network helper |
| Guest integration agent (`guest/assets/buzzardos-integration-agent`) | the generation it has applied, relays, media pipelines | poll the control file, reconcile, publish its status | the two files above |
| Display (`display/src/host_app.rs`, `gateway.rs`, `guest_display.rs`) | `MonitorState`, the close flag, a queue of control commands, the guest connection | buttons, close request, poll of `runtime.json`, control commands | `host-request.json`, `window.json`, `runtime.json`, control socket, guest compositor |
| Clipboard (`display/src/clipboard.rs`, `clipboard-protocol`, `guest/clipboard-agent`) | epoch, busy flag, connection | snapshot transfer host to guest and back | Unix socket in the session runtime directory |
| Shared library (`wb-core`) | `machine.json`, `runtime.json`, `machines.json` formats | load, save, register, unregister, resolve | all of the above |
| Machine manager (`display/src/machine_manager.rs`) | list shown, command in progress | runs launcher commands | launcher |
| Guest shortcut helper (`guest/shortcut-helper`) | AppImage registrations, rename journal | register, flag, rename, relink, remove, recover | Desktop directory, launcher and shortcut entries, the shell, users and programs that change the Desktop |
| Guest desktop core, shell, settings | persisted desktop state | load, merge, save; layouts | Sway IPC, files |
| Guest sudo bridge, init, output-sync | framed relays, marker files | authenticate, relay, synchronise | guest systemd |
| CUA (`cua`) | element tokens, caches | tools over AT-SPI and Wayland | guest desktop |
| Packaging, OCI recipes, licence tools, acceptance tests | build products | build, audit | not program behaviour |

What is hard in it:

* **Every file is shared without a lock of its own.** `runtime.json`,
  `host-request.json`, `window.json` and `machines.json` are replaced whole by
  rename; each writer loads, works and saves, sometimes minutes apart.
* **One lock, many positions.** `machine.lock` is held by a broker from before
  its display opens until after it is closed, or by a maintenance command;
  everything else is decided by who is alive according to a record that may be
  old.
* **Three loops read one mailbox** (`wait_for_desktop`, the session loop, the
  parked loop), each under its own condition.
* **Failures at any moment**: the broker, the display, the network helper, the
  guest compositor or PID 1 may go; deadlines (2, 5, 10, 20, 90, 95 s) race
  late answers.
* **Crash recovery**: a broker's death leaves window, record and a condemned
  container behind; a launcher's death leaves a staged or an unregistered
  machine; a power loss in the guest leaves some of the files of an AppImage
  rename written and others not.
* **Two halves that agree through files**: the broker and the guest's
  integration agent each work from settings that change again meanwhile, and a
  network helper keeps routes that neither of them may remember.

What makes each part correct: one user of a rootfs at a time; only the lock
holder brings a machine up; an accepted Close ends the window; a request is
taken and a restart comes back; a requested stop is not reported as a failure;
a registered machine stays registered; no two machines share an identity; a
clipboard answer belongs to the lifecycle that asked; a rename interrupted
anywhere is completed or undone; the entries on screen are those the records
ask for; a microphone or camera is captured only while the guest was told of it;
live integrations reported ready are the ones in force.

## 2. Modules

| Module | Models |
|---|---|
| `MachineLifecycle` | broker, display, container, launcher commands of one machine, and every file they meet in |
| `RootfsUse` | the abstract promise of `machine.lock`: the rootfs is used by one party at a time and is free in between |
| `MCMachineLifecycle` | small instances of `MachineLifecycle` for TLC |
| `MachineLifecycleProofs` | theorems about `MachineLifecycle` for all values of its constants |
| `MachineRecordProofs` | theorems about what `runtime.json` tells, on top of `MachineLifecycleProofs` |
| `MachineRegistry` | `machines.json`, the machine directories, and the commands that create, restore, register, unregister and delete |
| `MachineIndex` | the abstract promise of the index: one entry at a time is added, follows its machine or is forgotten, and is true when it is written |
| `MCMachineRegistry` | small instances of `MachineRegistry` for TLC |
| `MachineRegistryProofs` | theorems about `MachineRegistry` for all values of its constants |
| `AppImageStore` | the guest's store of registered AppImages: records, entries, the journalled rename, and what of them is on the disk |
| `MCAppImageStore` | a small instance of `AppImageStore` for TLC |
| `AppImageStoreProofs` | theorems about `AppImageStore` for all values of its constants |
| `IntegrationReconcile` | the broker's reconcile of ports and media, the network helper, the guest's integration agent, and the two files between them |
| `MCIntegrationReconcile` | a small instance of `IntegrationReconcile` for TLC |
| `IntegrationReconcileProofs` | theorems about `IntegrationReconcile` for all values of its constants |
| `ClipboardTransfer` | the two transfers of the clipboard menu, their workers, and the guest's clipboard agent |
| `SingleTransfer` | the abstract promise of the clipboard menu: transfers one at a time, each ending once |
| `MCClipboardTransfer` | a small instance of `ClipboardTransfer` for TLC |
| `ClipboardTransferProofs` | theorems about `ClipboardTransfer` for all values of its constants |

### MachineLifecycle

| State | In the code |
|---|---|
| `runtime` | `runtime.json`: `RuntimeState` (state, supervisor pid, container pid), replaced whole by rename |
| `lock` | the flock on `machine.lock` |
| `broker[b].pc`, `session`, `memory`, `asked`, `taken`, `closeSeen`, `displayExit` | where `run_machine`, `launch_container` or `wait_for_desktop` is, its child, the `RuntimeState` it keeps in memory, the stop or restart it has accepted, the request it has read but not yet removed, `close_shutdown_requested`, and what it knows about its display's exit |
| `container[s]` | the life of namespace PID 1 from behind the start barrier to its exit, the readiness token, the poweroff marker |
| `display[b]` | the display process of a broker: `MonitorState`, the close flag, and `close_requested` as `window.json` says it |
| `mailbox[b]` | `host-request.json` in the broker's session directory: one slot |
| `inbox[b]` | commands the control socket has acknowledged and the GTK loop has not applied yet |
| `client[c]` | a launcher command: where it is, the record it loaded, the broker it spawned |

One action is one stretch of a process between two points at which others can
change what it depends on. Reading a file and writing it later are two actions
when work lies in between: `ReadForDiagnostics`/`SaveDiagnostics` (the two
halves of `save_diagnostics_preserving_stop`), `ReadRequest`/`TakeRequest` (the
mailbox is read, then removed), `JudgeStop`/`SaveStopping`/`SignalContainer`
(the launcher's stop), `JudgeMaintenance`/`LockForMaintenance`
(`lock_stopped_machine`). `BrokerNext`, `DisplayNext`, `ContainerNext` and
`ClientNext` list the actions of each kind of process; `PROJECT.json` maps each
one to its lines.

Crashes: `BrokerCrash` frees the lock and condemns the container
(`--die-with-parent`), which exits a moment later (`DoomedExits`); the display
stays behind as an orphan. `DisplayCrash`, `DisplayFails`, `NetworkDies`,
`NetworkFails`, `OpenDisplayFails`, `SpawnFails`, `ContainerCrash` and a
`GuestDisconnected` while the guest is up are the other faults; each costs one
unit of `FaultBudget`.

### MachineRegistry

| State | In the code |
|---|---|
| `index` | `machines.json` |
| `disk[d]` | the machine in directory `d`: id and name of its `machine.json`, and whether its `runtime.json` says stopped, running, or neither (its supervisor died) |
| `minted` | UUIDs given out; an export of any of them may exist and be restored |
| `launcher[l]` | a command: where it is, and the `MachineRegistry` it loaded when it started |

| Action | In the code |
|---|---|
| `Discover` | `MachineRegistry::discover` at the top of `main`, then one of the commands |
| `CheckTarget` | `ensure_registry_target_available`, `final_dir.exists()` |
| `StageNew`, `StageRestored`, `StageFails` | the staging directory is built: with a new UUID, with the UUID of an export after `reject_duplicate_machine_identity`, or not |
| `Commit` | `commit_new_machine`: `renameat2(RENAME_NOREPLACE)` |
| `Register` | `MachineRegistry::register` with its four cases `Known`, `Moved`, `New`, refused, and `save` |
| `Forget` | `MachineRegistry::unregister` |
| `Resolve`, `RemoveTree` | `registered_paths`, then `lock_stopped_machine` and `remove_persistent_machine_tree` |
| `Die` | the launcher is killed at any of these points |
| `Move`, `Copy`, `StartOrStop` | what the user's file manager and the brokers do to machine directories |

The commands `create`, `pull`, `build`, `clone` and `import --mode clone` differ
in where the content comes from and are one operation, `create`. A path is
occupied exactly when it holds a machine; no directory lies inside another;
symbolic links are resolved. The user does not move a directory a command is
working on. `RemoveTree` removes the tree in one step, and `Register` decides
and saves in one step: the time that matters is between the load at the start
of the command and the save at its end.

### AppImageStore

| State | In the code |
|---|---|
| `desktop` | the AppImage (device, inode, size) under each name of the Desktop directory |
| `records` | one JSON record per `RegistrationId`: target, and which entries are wanted |
| `journal` | the pending rename's journal file |
| `durable` | the same three as a power loss would leave them |
| `launchers`, `shortcuts` | the managed `.desktop` files in the Applications menu and on the Desktop |
| `lock` | the flock every operation takes, `appimage-desktop-rename.lock` |
| `proc[p]` | where a shell or helper process is, and what it holds: its journal, the `RelinkPreview`, the snapshots taken before a projection |
| `unsure` | history: the last operation went on from a write that is on no disk, and no journal on the disk stands for it |
| `disturbed` | history: the Desktop was changed during a rename, or a power loss took back a write that an operation had gone on from |
| `torn` | history: a save or a removal was cut in the middle |

Every operation is `Begin` (take the lock), then recovery (`NothingPending`,
`RecoverPending` or `Ambiguous`), then its own work. The rename of a registered
file is `RenameRegistered` (journal Prepared), `Verify`, `Move`
(`renameat2(RENAME_NOREPLACE)`), `SyncMove`, `Settle`, `WritePhase`,
`UpdateRecord` and `ClearJournal`; `MoveFails` and `Abort` are its way back.
A projection is `WriteLauncher`, `WriteShortcut`, `SaveRecord` and, after a
failure, `RestoreRecord`, `RestoreShortcut`, `RestoreLauncher`; a removal is
`DropLauncher`, `DropShortcut`, `DropRecord`. Relinking is three operations
(preview, choose, commit) with the lock free in between.

Each write has a failing alternative. `atomic_write` renames a temporary file
and then syncs the directory, so a failure leaves the old file or the new one
visible but not durable. `Crash` kills the holder of the lock at any step, and
also in the middle of one: `JournalHalfWritten`, `RecordHalfWritten`,
`EntryHalfWritten` and `PlainHalfRenamed` are the kill between the rename or
unlink of a write and its fsync, which leaves the same as a failed sync and
tells nobody. `PowerLoss` keeps of each directory what was synced or what was
visible; `Outside` is a user's change of the Desktop, possible at every step,
also between the observation of a name and the rename.

Whoever takes the lock next goes on from what it sees (`GoOn`), synced or not.
When the journal of a rename is on the disk this is harmless: after a power loss
the same recovery runs again, and a phase that is written syncs the journal. In
every other case the operation is `unsure`, and a power loss that then takes
something back is what `disturbed` records. The properties of the rename are
stated for undisturbed stores only; section 3 says what happens to the others.

The journal's phase is written by `WritePhase` and read by nobody, as in the
code, where recovery goes by what it finds on the Desktop. `launch` and the
rename of an application's display name are `Resave`; `remove_for_target` is the
plain open and flag operations. Registration ids are fresh UUIDs.

### IntegrationReconcile

| State | In the code |
|---|---|
| `config` | ports and media of `machine.json`, replaced by the launcher or the manager window (`Reconfigure`) |
| `host` | where `reconcile` is, the settings it works for, the media whose removal failed or whose check is due |
| `generation`, `applied`, `active`, `bridges` | fields of `IntegrationRuntime`: generation, applied settings, `host_forwards` with `reverse`, `media` |
| `slirp` | the network helper: host forwards by listening end, routes per medium |
| `control`, `status` | the two files in the session's runtime directory |
| `agent` | the guest agent: where its loop is, its generation, relays and media processes |
| `report` | ready or retry, as the broker's loop logs it |
| `unanswered` | history: routes about which a request got no answer |

`Begin` is the broker's pass about once a second; `Revoke`, `Healthy`,
`Unhealthy`, `Unforward`, `Forward`, `Reverse`, `Announce`, `Confirmed`,
`NotConfirmed`, `AddRoute`, `StartBridge` and `Apply` are the steps of
`reconcile`, in its order, each with its failing alternative that gives the
attempt up (`GiveUp`). The agent's pass is `ReadControl`, `Relay` for reverse
relays and for UDP, `StartSources`, `Hear` and `Publish`; each of these may fail
and publish an error. TCP and UDP reverse relays are one kind, `reverse`. A
session that loses its network helper ends (`EndSession`), which is where
`MachineLifecycle` takes over (`NetworkDies`).

### ClipboardTransfer

| State | In the code |
|---|---|
| `running`, `epoch`, `busy`, `held` | of `HostApplication`: `MonitorState` is Running, `clipboard_epoch`, `clipboard_busy`, `clipboard_connection` |
| `xfer[t]` | the future that one click spawned: the await it is at, its direction, the epoch and the `EndpointSnapshot` it took, and its connection: not served yet, still writable from the host, request in it, successful response out of it; and which dialog it showed |
| `endpoint` | identity of `clipboard-agent.sock` and `clipboard-ready` in the session directory |
| `agent` | the clipboard agent: down, probing the compositor, or serving, and which one it is |
| `hostClip`, `guestClip` | the transfer whose snapshot each clipboard holds, or another content |
| `overtaken` | history: transfers in progress when the window's state changed |

`SetState` is `set_state` with another state, whoever calls it; `Click` is
`begin_clipboard_transfer`. The steps of the two futures are `Retain`,
`Snapshot`, `PutDone`, `Decode`, `Install` and `Fail`, each from one await to the
next; `Finish` is `finish_clipboard_transfer`, which ends four of them. `Send`,
`Receive` and `ExchangeFails` are the blocking worker's `put` and `get`.
`AgentStarts`, `Publish`, `ServePut`, `ServeGet`, `DropConnection`, `AgentDies`
and `Withdraw` are the guest's agent and those who remove its paths. An agent
may be replaced while the window says Running: nothing ties the two together.
`MonitorState` itself is modelled in `MachineLifecycle`; here it changes freely.

## 3. What is checked

| Run | Instance | Properties | Shows |
|---|---|---|---|
| `race` | 2 brokers, 2 commands of any kind, 2 containers, 1 fault | `TypeOK`, `Ownership`, `ContainerUnderLock`, `WindowUnderLock`, `LiveRecordIsTrue`, `TakenStopIsKept`, `RootfsUsedByOne`, `OnlyOwnerBringsUp` | two starts, or a start and an export, race through the lock; a crash at any point; what an old record may still be believed |
| `window` | 1 broker, 1 start, 2 containers, 2 clicks | `CloseIsHonoured`, `RestartComesBack`, `RestartIsKept`, `RequestsAreTaken` | liveness of the window's requests, with the guest powering off by itself; no step drops a restart |
| `breakage` | the same with 1 click and 1 fault | `CloseIsHonoured`, `RequestedStopSucceeds` | a Close is honoured although something breaks; a requested stop is not a failure |
| `crowd` | 2 commands at a time, 5 in all, 2 directories, names and UUIDs, 2 environment steps | `TypeOK`, `IndexIsValid`, `NothingIsReplaced`, `CommittedIsRegistered` | what holds of the index under any concurrency |
| `serial` | 1 command at a time, 6 in all, 3 directories, 3 environment steps | `RegistrationsStay`, `NoSecondCopy`, `IndexFollowsMachines` | what holds of the index when commands do not overlap |
| `journal` | 2 processes, 2 operations, 2 ids, names and files, 2 mishaps | `TypeOK`, `PendingIsRecoverable`, `RenameKeepsTheFile`, `NothingIsOverwritten`, `EntriesFollowRecords` | a rename cut by a failure, a kill (also between a write and its fsync) or a power loss is finished by the next operation, and no file is lost, with the exceptions below |
| `retry` | 2 port mappings, 2 ends, 2 media, 2 devices, 3 settings, 2 edits, 2 mishaps | `TypeOK`, `ReadyMeansServed`, `CaptureFollowsControl`, `RoutesAreOwned`, `Converges` | attempts that fail anywhere while the settings change leave host, helper and guest consistent, and end in the latest settings |
| `clipboard` | 2 transfers, 3 changes of the window's state, 2 deaths or withdrawals of the agent | `TypeOK`, `SingleFlight`, `OldAnswersAreDropped`, `NothingSentAfterStop`, `DoneMeansThere`, `TransfersServedSingly`, `ClicksAreAnswered` | what is late, of a stopped lifecycle or a replaced agent, changes nothing, and each click is answered |

Bounds, and why they are enough:

* Two brokers and two commands make every race for the lock: the third of a
  kind would only repeat what the second does to the first. Two containers let
  a session end and the next begin; when none is left `SpawnFails`.
* One fault in `race` and `breakage` is a crash at any point of any process.
  Two clicks in `window` let one request meet another one, taken or not.
  `InboxBound` is one command per display: a second one is applied as if it had
  been sent later.
* Five registry commands reach the longest story known to matter: two creates,
  a delete that dies half-way, a move into the vacated directory and a register
  there. Three directories and three environment steps in `serial` add a copy
  and a move.
* In `journal` two operations are a rename and the one that recovers it, or a
  relink and what changes between its preview and its commit. Two mishaps are a
  failure and then a power loss, or a kill and then a kill of the recovery; two
  names and two files are the source, the destination and somebody else's file
  at the destination. A kill in the middle of a write and a power loss are two
  mishaps too, with the operation between them that goes on from that write.
* In `retry` the three settings add, remove, move, rebind and change the kind of
  every mapping and medium, and put two mappings on one end in turn; two edits go
  through all three, or there and back; two mishaps let an attempt fail, and the
  retry of it.
* In `clipboard` two transfers are one that is overtaken and the one of the next
  lifecycle; three changes stop, start and stop again; two mishaps take the
  agent away under either transfer. (`ClickBound` is the number of clicks.)
* `CommandBudget` counts commands, `UserBudget` moves, copies, starts, stops
  and deaths (registry) or clicks (lifecycle), `FaultBudget` failures, `ChangeBudget` edits
  of `machine.json`, `MishapBudget` failures, deaths and outside changes
  (`AppImageStore`, `IntegrationReconcile`); in `ClipboardTransfer` changes of
  the window's state and mishaps of the agent.

`CHECK_DEADLOCK FALSE` is set because all of these may stop for good: every
command has been issued, the budgets are spent, the window is closed.

Symmetry is used only in runs without liveness properties (`race`, `crowd`,
`lost`, `serial`, `journal`), over sets whose members no definition names.

### Fairness

`FairSpec` assumes, for each broker: weak fairness of its straight-line work,
its deadlines and its idle loop (`Progress`), because that code runs whenever
the process is scheduled; strong fairness of the five checks in the loop of a
running machine (`ObserveExit`, `ReadRequest`, `ShutdownOnClose`,
`ObserveDisplayExit`, `GraceExpires`), because each pass of the loop makes each
of them once, and between two of them the diagnostics step may disable the next
one for a moment; weak fairness of the display's look at `runtime.json` and of
applying a queued command, which one GTK timer repeats every 200 ms; and weak fairness of a halt the guest has
begun. Nothing is assumed of the guest's readiness, of the user, of the
commands and of anything that breaks. In particular a launcher command may stop
anywhere and liveness must not depend on it.

`FairSpec` of `IntegrationReconcile` assumes weak fairness of the broker's loop
and of the agent's poll: both repeat for as long as the session lasts, and every
wait in them has a deadline. Deadlines that pass and requests that fail are
mishaps, so there are finitely many. Nothing makes a dead agent start again, and
nothing makes the settings stop changing but the budget. `Converges` says that
the machine then serves the latest settings, unless the session ended, the agent
stayed away, or a forward is blocked by a route the broker forgot.

`FairSpec` of `ClipboardTransfer` assumes weak fairness of the GTK thread's
steps and of each worker: every await in the two futures and every call of a
worker has a deadline (five seconds for the host's clipboard and for an image,
the exchange's own for the guest). Nothing is assumed of the guest: its agent may
hang, die or stay away.

### Findings

Four runs look for a violation of what the repository says of itself:

* `erased`: a stop saved by `buzzardos stop` between the broker's diagnostics
  read and write is erased, although the comment there says it never is.
* `hang`: `stop` saves back the record it loaded, with Stopping, after the
  broker published Failed for that session; no one writes a terminal state
  again, and a window that accepted Close stays, with broker and lock.
* `blame`: a start sent to the parked window of a failed session reports that
  older failure and exits, while its own request waits and is then carried out.
* `lost`: two overlapping creates; the one that loaded the index before the
  other registered saves it later, without the other's machine.

Other behaviours are in the models and explain the exceptions in the properties:

* lifecycle: a stop command between the exit of the container and the broker's
  look at it saves Stopped over Stopping, so that `RequestedStopSucceeds` and
  `RestartIsKept` hold only of machines that are stopped from their window (the
  runs that check them issue no stop command);
* deletion: `RemoveTree` refuses a machine whose directory is called differently
  (launcher `main.rs:2541`), although the directory is independent of the name
  everywhere else (display `host_app.rs:2364`) and the first example of the
  repository's README differs;
* registry: `delete --machine-dir` of a copy unregisters the original, because it
  forgets by name; a restore whose UUID was unregistered while it ran is
  committed and then refused by `register`, which uses the older index;
* AppImage store, against the words "deterministically finish it after process
  termination or power loss" (`store.rs:262`): no operation syncs what it finds,
  so what a kill between `renameat` or `unlinkat` and the fsync, or a failed
  fsync, left visible may be built upon and then be taken back. TLC finds each of
  these when the second disjunct of `disturbed'` in `PowerLoss` is removed:
  - killed after the unlink of the journal; the next call sees no journal and
    removes the registration; the power loss brings the journal back, and every
    later call ends in `AmbiguousDesktopRename`, for good;
  - killed after the rename of a new registration's record; a rename of its file
    writes a durable journal; the power loss takes the record back: ambiguous for
    good;
  - killed after the rename of the journal; recovery moves the file and syncs the
    Desktop; the power loss before the phase is written takes the journal away:
    the file has the new name, the record the old one;
  - a rename of an unregistered item killed, or reported as failed, before its
    sync; what is registered under the new name is gone after the power loss.
  A relink killed before the fsync of its record may come back with its old
  target: `RenameKeepsTheFile` excepts records whose save or removal was cut. The
  comment at `store.rs:515-518` shows that the window was thought of, and
  `UpdateRecord` does close it for the record of a rename. No run reports this as
  a violation: a kill with nothing gone on from it is covered by both properties;
* AppImage store, apart from that: a rename that reported that its journal could
  not be written may be carried out by the next operation; a journal left in place after the record was updated
  becomes ambiguous for good when the user then moves the file; a `register`
  killed between its entries and its record leaves entries without a record; a
  relink does not look whether another registration already names the candidate,
  and two that do make a later rename ambiguous; removing an entry that is
  already gone does not sync the directory;
* live integrations: the record of a host forward is dropped before the helper is
  asked to remove it, so an unanswered request leaks the forward and a later one
  at the same end is refused for ever (`Blocked`); an addition without an answer
  leaves a route nobody owns (`unanswered`); an agent that dies leaves its last
  status, which says it runs, and nothing starts it again; an agent's error
  carries the generation before, so that the host waits for its deadline; a
  status is matched by ids and generation only, which is sound because every
  attempt that announces takes a new generation;
* clipboard: a put whose request was already sent when Stop overtook it, or whose
  deadline passed, is still carried out by the agent, and the user was told of a
  failure or of nothing.

## 4. What is proved

`MachineLifecycleProofs`, for any sets of brokers, commands and containers and
any budgets, from the three ASSUMEs of `MachineLifecycle` (processes are
distinct, bounds are natural numbers, operations are the known ones):

* `TypeCorrect`; then `OwnershipCorrect`, the inductive invariant;
* `ContainerUnderLockCorrect`, `WindowUnderLockCorrect`,
  `OnlyOwnerBringsUpCorrect` and `RootfsUsedByOneCorrect` (the refinement of
  `RootfsUse`) from it.

`ContainerUnderLock` is not inductive: that a container's broker holds the lock
says nothing about the step in which the broker lets go. `Ownership` adds where
each process is in its code: a broker holds the lock exactly from
`lock_machine` to the drop of `_machine_lock` (`LockFollowsPc`), has a living
container only inside `launch_container` (`ContainerInSession`), and has a
window only after `lock_machine` (`WindowAfterLock`). Each action then either
leaves the place of every process alone or moves one process across a boundary
where lock, container and window change with it.

`MachineRecordProofs`, from the same ASSUMEs, about the record:

* `LiveRecordIsTrueCorrect`: every command judges by a record it loaded some time
  ago, so the invariant is about those copies too (`RecordsAreTrue`). A record
  names a supervisor that has reached the lock, and its container is this
  supervisor's own, or has exited, or the supervisor has died; a dead broker and an
  exited container stay so, which is what keeps old copies true (`Evolves`). It
  needs that no two brokers have one container and that a living broker outside
  its session has none left running (`SessionsAreOwn`).
* `TakenStopIsKeptCorrect`: the invariant `StopsAreKept` adds to the property what
  `save_diagnostics_preserving_stop` relies on. While a broker is between
  reading and saving diagnostics, the record in its memory says Stopping too, and
  nobody has asked it anything while it makes the machine ready. Other brokers do
  not write `runtime.json` meanwhile, since they do not hold the lock.
* `RequestedStopSucceedsFromTheWindow`,
  `DiagnosticsKeepStoppingFromTheWindow` and `RestartIsKeptFromTheWindow`, under
  the assumption that no stop command is issued. The user's own Stop, Restart and
  Close go through the window and are all there. The assumption is necessary:
  when the container has exited, a stop command takes its record for stale and
  saves Stopped (`repair_stale_stop`) before the broker has looked at how the
  session ended. The broker then finds no Stopping, and an unclean exit after an
  accepted Stop becomes Failed; if the display has gone too, its grace period
  makes a session that was to restart a failed one. The run `erased` shows the
  third. With stop commands what remains is `TakenStopIsKept`, which names this
  one exception.
  `RestartIsKept` also needs that a broker never has a second request in hand
  while it carries one out (`RequestsAreSingle`).

`MachineRegistryProofs`, for any sets of launchers, directories, names and
UUIDs, from the ASSUMEs of `MachineRegistry`:

* `RegistryTypeCorrect`; `IndexIsValidCorrect`: the invariant carries the
  validity of what every command loaded, and `RegisterConditions` shows that
  the two saving branches of `register` keep names, UUIDs and directories
  unique, so that the check in `save` never refuses;
* `NothingIsReplacedCorrect`;
* `CommittedIsRegisteredCorrect`, from the invariant `TargetIsFree`: what
  `ensure_registry_target_available` saw in the loaded index still holds of it
  at `register`, because the command works on its own copy throughout;
* `RegistrationsStayWhenSerial` and `NoSecondCopyWhenSerial`, under the
  assumption `Serial` that there is one launcher. The invariant `Alone` says
  that a command's copy is the index and that every identity on disk or in the
  index was given out. The runs `lost` and `crowd` show why the assumption is
  there.
* `IndexFollowsMachinesWhenSerial`, under the same assumption: the refinement of
  `MachineIndex`. Its variables are `index` and `disk` themselves; `New` is its
  `Add`, `Moved` its `Follow`, `unregister` its `Forget`, and every other step
  leaves the index alone. With two commands at a time one save may change many
  entries, as the run `lost` shows.

`AppImageStoreProofs`, for any sets of processes, ids, names and files, from the
ASSUMEs that the budgets are natural numbers and that `None` is nothing else:

* `StoreTypeCorrect`, `PendingIsRecoverableCorrect`,
  `RenameKeepsTheFileCorrect`, `NothingIsOverwrittenCorrect` and
  `EntriesFollowRecordsCorrect`.

`PendingIsRecoverable` speaks of states in which the lock is free. The inductive
invariant has two halves. `Undisturbed` is what every process sees: for each place
of the lock's holder, how the journal it works on, the Desktop and the record
stand to each other. `Stored` is what a power loss would leave: either the disk
holds what is seen, or its journal makes up for the difference (`Explained`; a
record that is `Cut` may lag behind), or the lock is free and only the first or
the last write of a journal is missing, which is right with and without it
(`Leftover`). A kill in the middle of a write leads from the first case to the
last two; `Begin` leads from `Leftover` to `unsure`, about which nothing is
claimed until the next sync. Both theorems about the rename are therefore
conditional on ~`disturbed`, and the second also on records that were not cut:
their exceptions are those of the properties and are reached (section 3).
Entries are related to records through what the holder still has to write.

`IntegrationReconcileProofs`, for any ids, ends, media, devices and any valid
settings, from the ASSUMEs of `IntegrationReconcile`:

* `ReconcileTypeCorrect`, `CaptureFollowsControlCorrect`,
  `RoutesAreOwnedCorrect` and `ReadyMeansServedCorrect`.

The inductive invariant has one conjunct per matter: what `reconcile` has in its
hands at each step (`Hands`), the helper's routes against the broker's records
(`Routed`), the devices of bridges (`Targeted`), which forwards may be asked for
(`Routable`), the generations in the two files (`Told`), what a status of the
current generation says about the agent (`Agreed`), and what a finished attempt
leaves (`Settled`).

`ClipboardTransferProofs`, for any number of clicks, changes and mishaps, from
the ASSUMEs that these are natural numbers and that `Nobody` is no transfer:

* `ClipboardTypeCorrect`, `SingleFlightCorrect`, `OldAnswersAreDroppedCorrect`,
  `NothingSentAfterStopCorrect` and `DoneMeansThereCorrect`.

`SingleFlight` alone says nothing of older transfers. The inductive invariant adds
that a transfer in progress is stale if and only if a change overtook it
(`Overtaken`) and that its connection is then shut, unless the window never had
the handle (`Shut`): so nothing more is sent. `DoneMeansThere` rests on the order
of service: an answered transfer is older than any connection that still waits
(`ServedInOrder`), so the selection is never older than an answered put
(`Selection`), and nothing began after a current transfer (`Latest`).

`TransfersServedSinglyCorrect` is the refinement of `SingleTransfer`. The mapping
`Status` makes a transfer "running" while it is in progress and not stale,
"success" or "failure" when its dialog is shown, and "given up" from the change of
state that overtook it, although its worker still goes on: the steps of that
worker and of the guest are stutters. `SetState` is `GiveUp` of the transfer that
`SingleFlight` says there is at most one of, or a stutter; `Click` is `Begin`;
`Finish` is `Succeed` or `Fail` of a transfer that is not stale.

Model-checked only: the liveness properties (`CloseIsHonoured`,
`RestartComesBack`, `RequestsAreTaken`, `Converges`, `ClicksAreAnswered`: the prover handles no
fairness and no ENABLED), and the findings, which are counterexamples. Every
safety property, action property and refinement of a passing run is stated by a
theorem.

## 5. What is not modelled, and why

In the lifecycle:

* reuse of process ids; I/O errors of `run_machine` outside the failures listed
  above; malformed requests in the mailbox (they are rejected and removed);
* the start paths after a package upgrade (SIGTERM of an older broker,
  relocation of a moved machine's socket);
* the display's callbacks are one step each; `terminate` of a child is
  synchronous; the clean-up of runtime directories after a session;
* a container condemned by its broker's death does not count as alive although
  the kernel needs a moment to kill it; a socket path that an orphaned display
  removes after a newer one has bound it; the inode of `machine.lock` that
  `delete` unlinks while another process waits for it;
* the sizing failure of a monitor that stays set across sessions.

In the registry: nested directories, symbolic links, a partly removed tree, a
temporary file left behind by `save`, staging directories left by a dead
launcher, a copy made of a running machine. A `save` that fails leaves what the
death of its command there leaves (`Die`).

In the AppImage store: the contents of icons, the display name and the time of
the last launch; targets that are not on the Desktop; the durability of the
managed entries, which can be written again from their records, so that an entry
which comes back after a cut unlink and a power loss is not seen; a user's change
of the Desktop counts as durable at once; the candidate of a relink preview is
checked outside the lock, as in the code, and only its choice is a step here.

In live integrations: bytes through relays and pipelines; a relay thread that
ends by itself, which the broker does not notice (`is_active` stays true); the
ids slirp4netns gives its forwards; a media process the agent cannot start, of
which it writes no status; a UDP relay that fails after it has bound its socket;
what the broker does at the end of a session beyond stopping its bridges; a check
of a bridge's health that cannot be made, other than of the microphone's stream.

In the clipboard: contents, formats and their codecs; frames and credentials.
Identities of files are unique, so a path that was removed never comes back as
itself. The snapshot of the endpoint, `connect` and the second look are one step,
as `connect` in the click's callback puts the connections in order of the clicks;
a click that is refused changes nothing. A request is written in one step, and the
agent performs it and answers in one; an error response and a closed connection
are the same failure. The worker of a put goes with the agent that is killed. A
change between two states other than Running is left out:
it would only add to the epoch. The handle that `set_state` shuts is of the
transfer in progress; the epoch does not wrap.

Components not modelled are in `PROJECT.json` with their reasons. Data
transformations (OCI layers, whiteouts, sparse archives, subuid ranges) need
recursion over data, which is checked over bounded inputs, not proved; user
interfaces and tools hold no state that several processes depend on.

## 6. What is left

1. `DesktopPersistence`: load, merge and save of desktop state under its lock
   file; `OutputSync`, the guest's display configuration.
2. The inode of `machine.lock` under `delete`, and the socket path under an
   orphaned display, in a composition of the registry and the lifecycle.
3. The gateway's buffers, and the framed relay of the sudo bridge.
4. Bounded-input modules: OCI whiteouts and subuid ranges against reference
   definitions; element tokens of the CUA server.
5. Proofs: the journalled rename of `AppImageStore` as an implementation of a
   rename that happens at once; the attempts of `IntegrationReconcile` as an
   implementation of an abstract agreement on one settings value.
