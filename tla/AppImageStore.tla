---------------------------- MODULE AppImageStore ----------------------------
(***************************************************************************)
(* The guest's store of registered AppImages (guest/shortcut-helper,       *)
(* store.rs): a record per registration, the launcher and the shortcut     *)
(* projected from it, and the journalled rename of a registered file on    *)
(* the Desktop.  Every operation of the shell or of a helper process runs  *)
(* under one file lock and first recovers a rename that was interrupted.   *)
(*                                                                         *)
(* The Desktop, the record directory and the journal are each kept twice:  *)
(* as every process sees them, and as a power loss would leave them (the   *)
(* variable durable).  A step that syncs a directory makes the two equal.  *)
(* Users and other programs change the Desktop without taking the lock.    *)
(***************************************************************************)
EXTENDS Naturals

CONSTANTS
    Procs,          \* the shell and helper processes that open the store
    Ids,            \* RegistrationId
    Names,          \* basenames in the Desktop directory
    Files,          \* file identities (device, inode, size)
    None,           \* nothing: no file, no record, no journal, no holder
    CommandBudget,  \* operations that processes begin
    MishapBudget    \* failed writes, killed processes, power losses, and
                    \* changes of the Desktop that do not take the lock

ASSUME BudgetsAreNatural ==
    {CommandBudget, MishapBudget} \subseteq Nat

VARIABLES
    desktop,    \* the AppImage under each name of the Desktop
    records,    \* the registration records
    journal,    \* the rename that is pending
    durable,    \* what is on the disk of those three
    launchers,  \* ids with an entry in the Applications menu
    shortcuts,  \* ids with an entry on the Desktop
    lock,       \* holder of appimage-desktop-rename.lock
    proc,       \* what each process is doing
    fresh,      \* ids that no registration has had
    unsure,     \* history: the last operation went on from writes that are on
                \* no disk, and no journal on the disk stands for them
    disturbed,  \* history: the Desktop was changed during a rename, or a power
                \* loss took back a write that an operation went on from
    torn,       \* history: a save or a removal was cut in the middle
    budget

vars == <<desktop, records, journal, durable, launchers, shortcuts, lock,
          proc, fresh, unsure, disturbed, torn, budget>>

\* The files of the store, what the projection of a registration consists of,
\* and the history variables.
disk == <<desktop, records, journal, durable>>
entries == <<launchers, shortcuts>>
doubts == <<unsure, disturbed>>
history == <<doubts, torn>>

Record == [target : Names, applications : BOOLEAN, desktop : BOOLEAN]

Journal == [id : Ids, old : Names, new : Names, file : Files]

ASSUME NoneIsNothing ==
    None \notin Procs \cup Ids \cup Names \cup Files \cup Record \cup Journal

Open == [op |-> "open", id |-> None, old |-> None, new |-> None,
         entry |-> "desktop", on |-> FALSE]

\* The operations a process may be asked for: each has the arguments it takes.
Calls ==
    {c \in [op : {"open", "rename", "register", "flag", "resave", "relink"},
            id : Ids \cup {None}, old : Names \cup {None},
            new : Names \cup {None}, entry : {"applications", "desktop"},
            on : BOOLEAN] :
        /\ c.id # None  <=> c.op \in {"flag", "resave", "relink"}
        /\ c.old # None <=> c.op \in {"rename", "register"}
        /\ c.new # None <=> c.op \in {"rename", "relink"}
        /\ c.op = "rename" => c.old # c.new
        /\ c.op \notin {"register", "flag"} => c.entry = "desktop"
        /\ c.op # "flag" => (c.on <=> c.op = "register")}

Pc == {"idle", "recovering", "operating", "preparing", "verifying",
       "moving", "moved", "refused", "aborting", "settling", "filing",
       "updating", "confirming", "clearing", "launcher", "shortcut", "saving",
       "restoreRecord", "restoreShortcut", "restoreLauncher",
       "dropLauncher", "dropShortcut", "dropRecord", "previewed", "chosen"}

\* What a process holds in its hands.
Process ==
    [pc : Pc, call : Calls,
     txn : Journal \cup {None},     \* the journal it works on
     own : BOOLEAN,                 \* its own rename, not a recovered one
     seen : Record \cup {None},     \* RelinkPreview.current
     id : Ids \cup {None},          \* the registration it projects
     after : Record \cup {None},    \* the record it saves
     before : [launcher : BOOLEAN, shortcut : BOOLEAN,
               record : Record \cup {None}]]

NothingBefore == [launcher |-> FALSE, shortcut |-> FALSE, record |-> None]

Resting ==
    [pc |-> "idle", call |-> Open, txn |-> None, own |-> FALSE,
     seen |-> None, id |-> None, after |-> None, before |-> NothingBefore]

TypeOK ==
    /\ desktop \in [Names -> Files \cup {None}]
    /\ records \in [Ids -> Record \cup {None}]
    /\ journal \in Journal \cup {None}
    /\ durable \in [desktop : [Names -> Files \cup {None}],
                    records : [Ids -> Record \cup {None}],
                    journal : Journal \cup {None}]
    /\ launchers \subseteq Ids /\ shortcuts \subseteq Ids
    /\ lock \in Procs \cup {None}
    /\ proc \in [Procs -> Process]
    /\ fresh \subseteq Ids
    /\ unsure \in BOOLEAN /\ disturbed \in BOOLEAN
    /\ torn \in {"no", "removal", "save"}
    /\ budget \in [command : Nat, mishap : Nat]

\* The registrations whose records ask for an entry in the menu, and for one on
\* the Desktop.
InMenu(r) == {i \in Ids : r[i] # None /\ r[i].applications}

OnScreen(r) == {i \in Ids : r[i] # None /\ r[i].desktop}

\* Any store at rest: registrations whose files are there or missing.
Init ==
    /\ desktop \in [Names -> Files \cup {None}]
    /\ records \in [Ids -> {r \in Record : r.applications \/ r.desktop}
                              \cup {None}]
    /\ journal = None
    /\ durable = [desktop |-> desktop, records |-> records, journal |-> None]
    /\ launchers = InMenu(records)
    /\ shortcuts = OnScreen(records)
    /\ lock = None
    /\ proc = [p \in Procs |-> Resting]
    /\ fresh = {i \in Ids : records[i] = None}
    /\ unsure = FALSE /\ disturbed = FALSE
    /\ torn = "no"
    /\ budget = [command |-> CommandBudget, mishap |-> MishapBudget]

-----------------------------------------------------------------------------
\* Helpers

At(p, pc) == proc[p].pc = pc

Goto(p, pc) ==
    /\ proc' = [proc EXCEPT ![p] = [@ EXCEPT !.pc = pc]]
    /\ UNCHANGED lock

\* The operation returns, with a result or an error: its guard drops the lock.
Return(p) ==
    /\ proc' = [proc EXCEPT ![p] = Resting]
    /\ lock' = None

Mishap ==
    /\ budget.mishap > 0
    /\ budget' = [budget EXCEPT !.mishap = @ - 1]

Registered(i) == records[i] # None

Naming(n) == {i \in Ids : Registered(i) /\ records[i].target = n}

Renamed(d, j) ==
    [n \in Names |-> IF n = j.old THEN None
                     ELSE IF n = j.new THEN d[j.old] ELSE d[n]]

Retargeted(r, j) == [r EXCEPT ![j.id] = [@ EXCEPT !.target = j.new]]

\* Mutant of NoReplaceRename: renameat without the flag.
NoReplaceRename_Replacing(j) ==
    /\ desktop[j.old] # None
    /\ desktop' = Renamed(desktop, j)

\* renameat2 with RENAME_NOREPLACE, whatever is at the old name by now.
NoReplaceRename(j) ==
    /\ desktop[j.old] # None
    /\ desktop[j.new] = None
    /\ desktop' = Renamed(desktop, j)

\* Whatever power loss: the disk is as everyone sees it.
Synced ==
    durable = [desktop |-> desktop, records |-> records, journal |-> journal]

Toggled(set, i, in) == IF in THEN set \cup {i} ELSE set \ {i}

\* fsync of the Desktop directory
SyncDesktop == durable' = [durable EXCEPT !.desktop = desktop]

\* A shortcut is a file of that directory: to write or unlink it syncs too.
PutShortcut(i, shown) ==
    /\ shortcuts' = Toggled(shortcuts, i, shown)
    /\ IF shown \/ i \in shortcuts THEN SyncDesktop ELSE UNCHANGED durable

\* atomic_write of the journal, and with None its unlink: on the disk when it
\* succeeds; when it fails, not even visible or visible but not durable.
WriteJournal(j) ==
    /\ journal' = j
    /\ durable' = [durable EXCEPT !.journal = j]

WriteJournalFails(j) ==
    /\ Mishap
    /\ journal' \in {journal, j}
    /\ UNCHANGED durable

\* The same of a record: the sync covers the whole directory.  An unlink of
\* what is not there (remove_managed_file_if_exists) does not sync.
WriteRecord(i, r) ==
    /\ records' = [records EXCEPT ![i] = r]
    /\ durable' = IF r = None /\ records[i] = None THEN durable
                  ELSE [durable EXCEPT !.records = records']

WriteRecordFails(i, r) ==
    /\ Mishap
    /\ records' \in {records, [records EXCEPT ![i] = r]}
    /\ UNCHANGED durable

-----------------------------------------------------------------------------
\* Beginning and recovery

\* Whoever takes the lock goes on from what it sees.  A rename whose journal is
\* on the disk would be finished after a power loss too; of anything else that
\* was not synced nobody knows any more.
GoOn ==
    /\ unsure' = (/\ ~Synced
                  /\ unsure \/ journal = None \/ durable.journal # journal)
    /\ UNCHANGED <<disturbed, torn>>

\* A call opens the store and waits for the lock.
Begin(p) ==
    /\ At(p, "idle") /\ lock = None
    /\ budget.command > 0
    /\ lock' = p
    /\ \E call \in Calls :
        proc' = [proc EXCEPT ![p] =
                    [Resting EXCEPT !.pc = "recovering", !.call = call]]
    /\ budget' = [budget EXCEPT !.command = @ - 1]
    /\ GoOn
    /\ UNCHANGED <<disk, entries, fresh>>

\* preflight_pending_desktop_rename: the registration of the journal still
\* names one of the two paths, and no other does.
Preflight(j) ==
    /\ Registered(j.id)
    /\ records[j.id].target \in {j.old, j.new}
    /\ Naming(j.old) \cup Naming(j.new) \subseteq {j.id}

NotYetMoved(j) == desktop[j.old] = j.file /\ desktop[j.new] = None

AlreadyMoved(j) == desktop[j.old] = None /\ desktop[j.new] = j.file

NothingPending(p) ==
    /\ At(p, "recovering") /\ journal = None
    /\ Goto(p, "operating")
    /\ UNCHANGED <<disk, entries, fresh, history, budget>>

RecoverPending(p) ==
    /\ At(p, "recovering") /\ journal # None
    /\ Preflight(journal)
    /\ \E pc \in {"verifying", "settling"} :
        /\ IF pc = "verifying" THEN NotYetMoved(journal)
                               ELSE AlreadyMoved(journal)
        /\ proc' = [proc EXCEPT ![p] =
                        [@ EXCEPT !.pc = pc, !.txn = journal]]
    /\ UNCHANGED <<disk, entries, lock, fresh, history, budget>>

\* AmbiguousDesktopRename: the journal is left as it is, and the call fails.
Ambiguous(p) ==
    /\ At(p, "recovering") /\ journal # None
    /\ \/ ~Preflight(journal)
       \/ ~NotYetMoved(journal) /\ ~AlreadyMoved(journal)
    /\ Return(p)
    /\ UNCHANGED <<disk, entries, fresh, history, budget>>

-----------------------------------------------------------------------------
\* The journalled rename.  Recovery runs the same steps from "verifying" or,
\* when the file is already there, from "settling".

\* rename_regular_file_verified, up to renameat2: the source has the journalled
\* identity and the destination is absent.
Verify(p) ==
    /\ At(p, "verifying")
    /\ NotYetMoved(proc[p].txn)
    /\ Goto(p, "moving")
    /\ UNCHANGED <<disk, entries, fresh, history, budget>>

Move(p) ==
    /\ At(p, "moving")
    /\ NoReplaceRename(proc[p].txn)
    /\ Goto(p, "moved")
    /\ UNCHANGED <<records, journal, durable, entries, fresh, history, budget>>

\* fsync of the Desktop, then the file at the new name is looked at again.
SyncMove(p) ==
    /\ At(p, "moved")
    /\ desktop[proc[p].txn.new] = proc[p].txn.file
    /\ SyncDesktop
    /\ Goto(p, IF proc[p].own THEN "filing" ELSE "settling")
    /\ UNCHANGED <<desktop, records, journal, entries, fresh, history, budget>>

\* DesktopFileError::Collision: the source is there, and the destination too.
Collision(p) ==
    LET j == proc[p].txn
    IN  /\ desktop[j.new] # None
        /\ \/ At(p, "verifying") /\ desktop[j.old] = j.file
           \/ At(p, "moving") /\ desktop[j.old] # None

\* Any of the three goes wrong.  Recovery returns the error; a rename of its
\* own first looks whether it can take its journal back.
MoveFails(p) ==
    /\ LET j == proc[p].txn
       IN  \/ /\ At(p, "verifying") /\ ~NotYetMoved(j)
              /\ UNCHANGED <<durable, budget>>
           \/ /\ At(p, "moving")
              /\ desktop[j.old] = None \/ desktop[j.new] # None
              /\ UNCHANGED <<durable, budget>>
           \/ /\ At(p, "moved") /\ desktop[j.new] # j.file
              /\ SyncDesktop /\ UNCHANGED budget
           \/ At(p, "moving") /\ ~Collision(p) /\ Mishap /\ UNCHANGED durable
           \/ At(p, "moved") /\ Mishap /\ UNCHANGED durable
    /\ IF ~proc[p].own THEN Return(p)
       ELSE Goto(p, IF Collision(p) THEN "refused" ELSE "aborting")
    /\ UNCHANGED <<desktop, records, journal, entries, fresh, history>>

\* Nothing was renamed: after a Collision it is enough that the source is as it
\* was, otherwise the destination must be absent too.
CanAbort(p) ==
    /\ desktop[proc[p].txn.old] = proc[p].txn.file
    /\ At(p, "refused") \/ desktop[proc[p].txn.new] = None

\* clear_desktop_rename_journal, or the journal stays for recovery to decide.
Abort(p) ==
    /\ At(p, "refused") \/ At(p, "aborting")
    /\ \/ CanAbort(p) /\ WriteJournal(None) /\ UNCHANGED budget
       \/ CanAbort(p) /\ WriteJournalFails(None)
       \/ ~CanAbort(p) /\ UNCHANGED <<journal, durable, budget>>
    /\ Return(p)
    /\ UNCHANGED <<desktop, records, entries, fresh, history>>

\* Recovery syncs the Desktop before it touches the record.
Settle(p) ==
    /\ At(p, "settling")
    /\ \/ SyncDesktop /\ Goto(p, "filing") /\ UNCHANGED budget
       \/ Mishap /\ Return(p) /\ UNCHANGED durable
    /\ UNCHANGED <<desktop, records, journal, entries, fresh, history>>

\* The journal is written again with its next phase, Prepared, FileRenamed or
\* RegistrationUpdated, which nothing ever reads.
WritePhase(p) ==
    /\ \/ At(p, "preparing") \/ At(p, "filing") \/ At(p, "confirming")
    /\ \/ /\ WriteJournal(proc[p].txn)
          /\ Goto(p, CASE At(p, "preparing")  -> "verifying"
                       [] At(p, "filing")     -> "updating"
                       [] At(p, "confirming") -> "clearing")
          /\ UNCHANGED budget
       \/ WriteJournalFails(proc[p].txn) /\ Return(p)
    /\ UNCHANGED <<desktop, records, entries, fresh, disturbed, torn>>
    /\ unsure' = (unsure /\ ~Synced')

\* The registration names one of the two paths, and no other names the new one.
Retargetable(j) ==
    /\ Registered(j.id)
    /\ records[j.id].target \in {j.old, j.new}
    /\ Naming(j.new) \subseteq {j.id}

\* Mutant of UpdateRecord: a record that names the new path is left alone.
UpdateRecord_Once(p) ==
    /\ At(p, "updating")
    /\ LET j == proc[p].txn
           record == Retargeted(records, j)[j.id]
       IN  \/ /\ Retargetable(j) /\ records[j.id].target = j.new
              /\ Goto(p, "confirming") /\ UNCHANGED <<records, durable, budget>>
           \/ /\ Retargetable(j) /\ records[j.id].target # j.new
              /\ WriteRecord(j.id, record)
              /\ Goto(p, "confirming") /\ UNCHANGED budget
           \/ Retargetable(j) /\ WriteRecordFails(j.id, record) /\ Return(p)
           \/ /\ ~Retargetable(j) /\ Return(p)
              /\ UNCHANGED <<records, durable, budget>>
    /\ UNCHANGED <<desktop, journal, entries, fresh, history>>

\* update_renamed_registration: a record that already names the new path is
\* saved again, so that it is durable before the journal goes.
UpdateRecord(p) ==
    /\ At(p, "updating")
    /\ LET j == proc[p].txn
           record == Retargeted(records, j)[j.id]
       IN  \/ /\ Retargetable(j) /\ WriteRecord(j.id, record)
              /\ Goto(p, "confirming") /\ UNCHANGED budget
           \/ Retargetable(j) /\ WriteRecordFails(j.id, record) /\ Return(p)
           \/ /\ ~Retargetable(j) /\ Return(p)
              /\ UNCHANGED <<records, durable, budget>>
    /\ UNCHANGED <<desktop, journal, entries, fresh, history>>

\* The transaction is over: the rename returns, recovery goes on to the call.
ClearJournal(p) ==
    /\ At(p, "clearing")
    /\ \/ /\ WriteJournal(None) /\ UNCHANGED budget
          /\ IF proc[p].own THEN Return(p)
             ELSE /\ proc' = [proc EXCEPT ![p] =
                                [@ EXCEPT !.pc = "operating", !.txn = None]]
                  /\ UNCHANGED lock
       \/ WriteJournalFails(None) /\ Return(p)
    /\ UNCHANGED <<desktop, records, entries, fresh, history>>

-----------------------------------------------------------------------------
\* The calls, under the lock and with no rename pending

Operating(p, op) == At(p, "operating") /\ proc[p].call.op = op

\* list, load, find_by_target and a start of the helper.
ReadOnly(p) ==
    /\ Operating(p, "open")
    /\ Return(p)
    /\ UNCHANGED <<disk, entries, fresh, history, budget>>

\* DesktopDirectory::rename of an item that nothing registers: no journal, and
\* the name is taken whether or not the sync succeeds.
RenamePlain(p) ==
    /\ Operating(p, "rename")
    /\ Naming(proc[p].call.old) = {}
    /\ NoReplaceRename(proc[p].call)
    /\ \/ /\ durable' = [durable EXCEPT !.desktop = desktop']
          /\ UNCHANGED <<unsure, budget>>
       \/ Mishap /\ unsure' = TRUE /\ UNCHANGED durable
    /\ Return(p)
    /\ UNCHANGED <<records, journal, entries, fresh, disturbed, torn>>

\* Mutant of Renameable: a registration that names the destination, whose file
\* is missing, is not looked for.
Renameable_OverMissing(i, old, new) ==
    /\ Naming(old) = {i}
    /\ desktop[old] # None /\ desktop[new] = None

\* rename_desktop_item_impl of a registered file: exactly one registration
\* names it, none the destination, and the destination is absent.
Renameable(i, old, new) ==
    /\ Naming(old) = {i} /\ Naming(new) = {}
    /\ desktop[old] # None /\ desktop[new] = None

RenameRegistered(p) ==
    /\ Operating(p, "rename")
    /\ \E i \in Ids :
        /\ Renameable(i, proc[p].call.old, proc[p].call.new)
        /\ proc' = [proc EXCEPT ![p] = [@ EXCEPT
                        !.pc = "preparing", !.own = TRUE,
                        !.txn = [id |-> i, old |-> proc[p].call.old,
                                 new |-> proc[p].call.new,
                                 file |-> desktop[proc[p].call.old]]]]
    /\ UNCHANGED <<disk, entries, lock, fresh, history, budget>>

RenameRefused(p) ==
    /\ Operating(p, "rename")
    /\ LET old == proc[p].call.old
           new == proc[p].call.new
       IN  IF Naming(old) = {}
           THEN desktop[old] = None \/ desktop[new] # None
           ELSE \A i \in Ids : ~Renameable(i, old, new)
    /\ Return(p)
    /\ UNCHANGED <<disk, entries, fresh, history, budget>>

\* Mutant of Project: the projection forgets whose it is.
Project_Unnamed(p, i, record) ==
    /\ proc' = [proc EXCEPT ![p] = [@ EXCEPT
                    !.pc = "launcher", !.after = record,
                    !.before = [launcher |-> i \in launchers,
                                shortcut |-> i \in shortcuts,
                                record |-> records[i]]]]
    /\ UNCHANGED lock

\* save_projected_with_icon begins: the projection is captured first.
Project(p, i, record) ==
    /\ proc' = [proc EXCEPT ![p] = [@ EXCEPT
                    !.pc = "launcher", !.id = i, !.after = record,
                    !.before = [launcher |-> i \in launchers,
                                shortcut |-> i \in shortcuts,
                                record |-> records[i]]]]
    /\ UNCHANGED lock

Flagged(record, entry, on) ==
    IF entry = "applications" THEN [record EXCEPT !.applications = on]
                              ELSE [record EXCEPT !.desktop = on]

Unshown(n) == [target |-> n, applications |-> FALSE, desktop |-> FALSE]

\* register_locked: an AppImage that is already registered keeps its id and
\* gains the entry, another gets a new id.
Register(p) ==
    /\ Operating(p, "register")
    /\ desktop[proc[p].call.old] # None
    /\ LET n == proc[p].call.old
           entry == proc[p].call.entry
       IN  IF Naming(n) # {}
           THEN /\ \E i \in Naming(n) :
                     Project(p, i, Flagged(records[i], entry, TRUE))
                /\ UNCHANGED fresh
           ELSE \E i \in fresh :
                  /\ Project(p, i, Flagged(Unshown(n), entry, TRUE))
                  /\ fresh' = fresh \ {i}
    /\ UNCHANGED <<disk, entries, history, budget>>

\* add_ and remove_applications, add_ and remove_desktop, set_flags_locked: a
\* registration without any entry is removed.
SetFlag(p) ==
    /\ Operating(p, "flag") /\ Registered(proc[p].call.id)
    /\ LET i == proc[p].call.id
           record == Flagged(records[i], proc[p].call.entry, proc[p].call.on)
       IN  IF record.applications \/ record.desktop
           THEN Project(p, i, record)
           ELSE /\ proc' = [proc EXCEPT ![p] =
                                [@ EXCEPT !.pc = "dropLauncher", !.id = i]]
                /\ UNCHANGED lock
    /\ UNCHANGED <<disk, entries, fresh, history, budget>>

\* rename_application and launch save what they loaded, the target unchanged.
Resave(p) ==
    /\ Operating(p, "resave") /\ Registered(proc[p].call.id)
    /\ Project(p, proc[p].call.id, records[proc[p].call.id])
    /\ UNCHANGED <<disk, entries, fresh, history, budget>>

\* preview_relink reads the registration and lets go of the lock.
PreviewRelink(p) ==
    /\ Operating(p, "relink") /\ proc[p].seen = None
    /\ Registered(proc[p].call.id)
    /\ proc' = [proc EXCEPT ![p] =
            [@ EXCEPT !.pc = "previewed", !.seen = records[proc[p].call.id]]]
    /\ lock' = None
    /\ UNCHANGED <<disk, entries, fresh, history, budget>>

\* The candidate is validated without the lock; commit_relink then takes it.
ChooseCandidate(p) ==
    /\ At(p, "previewed")
    /\ IF desktop[proc[p].call.new] # None THEN Goto(p, "chosen")
       ELSE proc' = [proc EXCEPT ![p] = Resting] /\ UNCHANGED lock
    /\ UNCHANGED <<disk, entries, fresh, history, budget>>

BeginCommit(p) ==
    /\ At(p, "chosen") /\ lock = None
    /\ lock' = p
    /\ proc' = [proc EXCEPT ![p] = [@ EXCEPT !.pc = "recovering"]]
    /\ GoOn
    /\ UNCHANGED <<disk, entries, fresh, budget>>

\* The registration must still be the one that was previewed.
CommitRelink(p) ==
    /\ Operating(p, "relink") /\ proc[p].seen # None
    /\ records[proc[p].call.id] = proc[p].seen
    /\ Project(p, proc[p].call.id,
               [proc[p].seen EXCEPT !.target = proc[p].call.new])
    /\ UNCHANGED <<disk, entries, fresh, history, budget>>

\* MissingRegistration, a launch whose target is missing, a target that is not
\* there, a preview that is stale or whose identity differs (or the bound on ids
\* is reached).
CallFails(p) ==
    /\ \/ Operating(p, "register") /\ desktop[proc[p].call.old] = None
       \/ Operating(p, "register") /\ fresh = {}
       \/ \E op \in {"flag", "resave"} :
            Operating(p, op) /\ ~Registered(proc[p].call.id)
       \/ /\ Operating(p, "resave") /\ Registered(proc[p].call.id)
          /\ desktop[records[proc[p].call.id].target] = None
       \/ Operating(p, "relink") /\ proc[p].seen = None
            /\ ~Registered(proc[p].call.id)
       \/ Operating(p, "relink") /\ proc[p].seen # None
    /\ Return(p)
    /\ UNCHANGED <<disk, entries, fresh, history, budget>>

-----------------------------------------------------------------------------
\* Saving and removing a projection

\* project_entry of the launcher, then of the shortcut, then the record: a
\* failure at any of them rolls all three back.
WriteLauncher(p) ==
    /\ At(p, "launcher")
    /\ LET i == proc[p].id
           written == Toggled(launchers, i, proc[p].after.applications)
       IN  \/ launchers' = written /\ Goto(p, "shortcut") /\ UNCHANGED budget
           \/ launchers' \in {launchers, written}
                /\ Goto(p, "restoreRecord") /\ Mishap
    /\ UNCHANGED <<disk, shortcuts, fresh, history>>

WriteShortcut(p) ==
    /\ At(p, "shortcut")
    /\ LET i == proc[p].id
           shown == proc[p].after.desktop
       IN  \/ /\ PutShortcut(i, shown)
              /\ Goto(p, "saving") /\ UNCHANGED budget
           \/ /\ shortcuts' \in {shortcuts, Toggled(shortcuts, i, shown)}
              /\ Goto(p, "restoreRecord") /\ Mishap /\ UNCHANGED durable
    /\ UNCHANGED <<desktop, records, journal, launchers, fresh, history>>

\* Mutant of SaveRecord: a record that cannot be saved leaves the new entries.
SaveRecord_NoRollback(p) ==
    /\ At(p, "saving")
    /\ \/ /\ WriteRecord(proc[p].id, proc[p].after)
          /\ Return(p) /\ UNCHANGED budget
       \/ WriteRecordFails(proc[p].id, proc[p].after) /\ Return(p)
    /\ UNCHANGED <<desktop, journal, entries, fresh, history>>

SaveRecord(p) ==
    /\ At(p, "saving")
    /\ \/ /\ WriteRecord(proc[p].id, proc[p].after)
          /\ Return(p) /\ UNCHANGED budget
       \/ /\ WriteRecordFails(proc[p].id, proc[p].after)
          /\ Goto(p, "restoreRecord")
    /\ UNCHANGED <<desktop, journal, entries, fresh, history>>

\* ManagedFileSnapshot::restore, in reverse order.  The first failure ends it
\* (ProjectionRollback).
RestoreRecord(p) ==
    /\ At(p, "restoreRecord")
    /\ \/ /\ WriteRecord(proc[p].id, proc[p].before.record)
          /\ Goto(p, "restoreShortcut") /\ UNCHANGED <<torn, budget>>
       \/ /\ WriteRecordFails(proc[p].id, proc[p].before.record)
          /\ Return(p) /\ torn' = "save"
    /\ UNCHANGED <<desktop, journal, entries, fresh, doubts>>

RestoreShortcut(p) ==
    /\ At(p, "restoreShortcut")
    /\ \/ /\ PutShortcut(proc[p].id, proc[p].before.shortcut)
          /\ Goto(p, "restoreLauncher") /\ UNCHANGED <<torn, budget>>
       \/ /\ shortcuts' \in {shortcuts, Toggled(shortcuts, proc[p].id,
                                                 proc[p].before.shortcut)}
          /\ Mishap /\ Return(p) /\ torn' = "save" /\ UNCHANGED durable
    /\ UNCHANGED <<desktop, records, journal, launchers, fresh, doubts>>

RestoreLauncher(p) ==
    /\ At(p, "restoreLauncher")
    /\ LET restored ==
                Toggled(launchers, proc[p].id, proc[p].before.launcher)
       IN  \/ launchers' = restored /\ UNCHANGED <<torn, budget>>
           \/ launchers' \in {launchers, restored} /\ Mishap /\ torn' = "save"
    /\ Return(p)
    /\ UNCHANGED <<disk, shortcuts, fresh, doubts>>

\* remove_registration_files: entries first, the record last, nothing is rolled
\* back when one of them cannot be removed.
CutRemoval(p) ==
    /\ Mishap
    /\ Return(p)
    /\ torn' = IF torn = "no" THEN "removal" ELSE torn

DropLauncher(p) ==
    /\ At(p, "dropLauncher")
    /\ \/ /\ launchers' = launchers \ {proc[p].id}
          /\ Goto(p, "dropShortcut") /\ UNCHANGED <<torn, budget>>
       \/ CutRemoval(p) /\ launchers' \in {launchers, launchers \ {proc[p].id}}
    /\ UNCHANGED <<disk, shortcuts, fresh, doubts>>

DropShortcut(p) ==
    /\ At(p, "dropShortcut")
    /\ \/ /\ PutShortcut(proc[p].id, FALSE)
          /\ Goto(p, "dropRecord") /\ UNCHANGED <<torn, budget>>
       \/ /\ CutRemoval(p) /\ UNCHANGED durable
          /\ shortcuts' \in {shortcuts, shortcuts \ {proc[p].id}}
    /\ UNCHANGED <<desktop, records, journal, launchers, fresh, doubts>>

DropRecord(p) ==
    /\ At(p, "dropRecord")
    /\ \/ /\ WriteRecord(proc[p].id, None) /\ Return(p)
          /\ UNCHANGED <<torn, budget>>
       \/ WriteRecordFails(proc[p].id, None) /\ CutRemoval(p)
    /\ UNCHANGED <<desktop, journal, entries, fresh, doubts>>

-----------------------------------------------------------------------------
\* What may happen around them

Saving == {"launcher", "shortcut", "saving", "restoreRecord",
           "restoreShortcut", "restoreLauncher"}

Removing == {"dropLauncher", "dropShortcut", "dropRecord"}

\* What a process that dies leaves of its save or removal.
TornBy(p) ==
    IF proc[p].pc \in Saving THEN "save"
    ELSE IF proc[p].pc \in Removing /\ torn = "no" THEN "removal" ELSE torn

\* Where a kill falls between the rename or unlink of a write and its fsync, the
\* write is there and not durable.
JournalHalfWritten(p) ==
    /\ \/ /\ At(p, "preparing") \/ At(p, "filing") \/ At(p, "confirming")
          /\ journal' = proc[p].txn
       \/ /\ \/ At(p, "clearing")
             \/ (At(p, "refused") \/ At(p, "aborting")) /\ CanAbort(p)
          /\ journal' = None
    /\ UNCHANGED <<desktop, records, entries, unsure>>

RecordHalfWritten(p) ==
    /\ \/ /\ At(p, "updating") /\ Retargetable(proc[p].txn)
          /\ records' = Retargeted(records, proc[p].txn)
       \/ /\ At(p, "saving")
          /\ records' = [records EXCEPT ![proc[p].id] = proc[p].after]
       \/ /\ At(p, "restoreRecord")
          /\ records' = [records EXCEPT ![proc[p].id] = proc[p].before.record]
       \/ /\ At(p, "dropRecord")
          /\ records' = [records EXCEPT ![proc[p].id] = None]
    /\ UNCHANGED <<desktop, journal, entries, unsure>>

EntryHalfWritten(p) ==
    /\ \/ \E pc \in {"launcher", "restoreLauncher", "dropLauncher"} :
            /\ At(p, pc)
            /\ launchers' = Toggled(launchers, proc[p].id,
                                CASE pc = "launcher" -> proc[p].after.applications
                                  [] pc = "restoreLauncher"
                                        -> proc[p].before.launcher
                                  [] pc = "dropLauncher" -> FALSE)
            /\ UNCHANGED shortcuts
       \/ \E pc \in {"shortcut", "restoreShortcut", "dropShortcut"} :
            /\ At(p, pc)
            /\ shortcuts' = Toggled(shortcuts, proc[p].id,
                                CASE pc = "shortcut" -> proc[p].after.desktop
                                  [] pc = "restoreShortcut"
                                        -> proc[p].before.shortcut
                                  [] pc = "dropShortcut" -> FALSE)
            /\ UNCHANGED launchers
    /\ UNCHANGED <<desktop, records, journal, unsure>>

PlainHalfRenamed(p) ==
    /\ Operating(p, "rename") /\ Naming(proc[p].call.old) = {}
    /\ NoReplaceRename(proc[p].call)
    /\ unsure' = TRUE
    /\ UNCHANGED <<records, journal, entries>>

\* A process is killed, between two steps or inside one: the kernel drops its
\* lock.
Crash(p) ==
    /\ lock = p
    /\ Mishap
    /\ Return(p)
    /\ torn' = TornBy(p)
    /\ \/ UNCHANGED <<desktop, records, journal, entries, unsure>>
       \/ JournalHalfWritten(p) \/ RecordHalfWritten(p)
       \/ EntryHalfWritten(p) \/ PlainHalfRenamed(p)
    /\ UNCHANGED <<durable, fresh, disturbed>>

\* The machine loses power: of each directory what was synced remains, and
\* what was not may remain or not.
PowerLoss ==
    /\ Mishap
    /\ desktop' \in {desktop, durable.desktop}
    /\ records' \in {records, durable.records}
    /\ journal' \in {journal, durable.journal}
    /\ durable' = [desktop |-> desktop', records |-> records',
                   journal |-> journal']
    /\ proc' = [p \in Procs |-> Resting]
    /\ lock' = None
    /\ unsure' = FALSE
    /\ disturbed' = (\/ disturbed
                     \/ unsure /\ ~UNCHANGED <<desktop, records, journal>>)
    /\ torn' = IF lock = None THEN torn ELSE TornBy(lock)
    /\ UNCHANGED <<entries, fresh>>

\* A user or a program creates, removes or renames a file on the Desktop
\* without the lock.  (Taken as written to the disk at once.)
Outside ==
    /\ Mishap
    /\ \E n \in Names, f \in Files \cup {None} :
        /\ desktop[n] # f
        /\ \/ desktop' = [desktop EXCEPT ![n] = f]
           \/ \E m \in Names \ {n} :
                /\ f # None /\ desktop[m] = f
                /\ desktop' = [desktop EXCEPT ![n] = f, ![m] = None]
    /\ durable' = [durable EXCEPT !.desktop = desktop']
    /\ disturbed' = (disturbed \/ lock # None \/ journal # None
                               \/ durable.journal # None)
    /\ UNCHANGED <<records, journal, entries, lock, proc, fresh, unsure, torn>>

Transact(p) ==
    \/ Verify(p) \/ Move(p) \/ SyncMove(p) \/ MoveFails(p) \/ Abort(p)
    \/ Settle(p) \/ WritePhase(p) \/ UpdateRecord(p) \/ ClearJournal(p)

Serve(p) ==
    \/ ReadOnly(p) \/ RenamePlain(p) \/ RenameRegistered(p) \/ RenameRefused(p)
    \/ Register(p) \/ SetFlag(p) \/ Resave(p) \/ PreviewRelink(p)
    \/ ChooseCandidate(p) \/ BeginCommit(p) \/ CommitRelink(p) \/ CallFails(p)

SaveOrRemove(p) ==
    \/ WriteLauncher(p) \/ WriteShortcut(p) \/ SaveRecord(p)
    \/ RestoreRecord(p) \/ RestoreShortcut(p) \/ RestoreLauncher(p)
    \/ DropLauncher(p) \/ DropShortcut(p) \/ DropRecord(p)

\* Everything the store does.
Store(p) ==
    \/ Begin(p) \/ NothingPending(p) \/ RecoverPending(p) \/ Ambiguous(p)
    \/ Transact(p) \/ Serve(p) \/ SaveOrRemove(p)

Next ==
    \/ \E p \in Procs : Store(p) \/ Crash(p)
    \/ PowerLoss
    \/ Outside

Spec == Init /\ [][Next]_vars

-----------------------------------------------------------------------------
\* Properties

\* A rename that was cut anywhere can be finished: the call that next takes the
\* lock finds the journal unambiguous.  store.rs:262 calls this "deterministically
\* finish it after process termination or power loss".  It does not hold where
\* the Desktop was changed during the rename, nor where a power loss took back
\* a write that a call had gone on from (as a journal that came back after its
\* unlink, when the registration had meanwhile been removed).
PendingIsRecoverable ==
    lock = None /\ journal # None /\ ~disturbed
        => /\ Preflight(journal)
           /\ NotYetMoved(journal) \/ AlreadyMoved(journal)

\* The file that a registration stands for, wherever its rename has got to.
Bound(i) ==
    IF ~Registered(i) THEN None
    ELSE IF /\ journal # None /\ journal.id = i
            /\ \/ desktop[journal.old] = journal.file
               \/ desktop[journal.new] = journal.file
         THEN journal.file
         ELSE desktop[records[i].target]

\* From the first write of the journal to its removal, through failures, deaths
\* and the recovery by another process, every registration keeps standing for
\* the same file; and no power loss, then or later, takes that file from it,
\* save the two exceptions above and a record whose save or removal was cut.
RenameKeepsTheFile ==
    [][(journal # None \/ journal' # None \/ PowerLoss) /\ ~disturbed'
            => \A i \in Ids :
                    /\ Bound(i) # None
                    /\ torn' = "no" \/ journal # None \/ records'[i] = records[i]
                    => Bound(i)' = Bound(i)]_vars

OnDesktop(d) == {f \in Files : \E n \in Names : d[n] = f}

\* No step of the store takes a file away from the Desktop: not a rename onto
\* a name that somebody else has just created, not the recovery of one.
NothingIsOverwritten ==
    [][\A p \in Procs :
        Store(p) => OnDesktop(desktop) \subseteq OnDesktop(desktop')]_vars

\* At rest the entries in the menu and on the Desktop are those the records
\* ask for, also after a save that failed halfway and was rolled back; a removal
\* that was cut leaves at worst entries missing, never one without its record.
EntriesFollowRecords ==
    lock = None =>
        /\ torn = "no" => /\ launchers = InMenu(records)
                          /\ shortcuts = OnScreen(records)
        /\ torn # "save" => /\ launchers \subseteq InMenu(records)
                            /\ shortcuts \subseteq OnScreen(records)
=============================================================================
