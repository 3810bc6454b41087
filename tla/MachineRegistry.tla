--------------------------- MODULE MachineRegistry ---------------------------
(***************************************************************************)
(* The index of machines, machines.json, and the machine directories it    *)
(* points to.  Every launcher command is a process of its own: it loads    *)
(* the index when it starts, does its work, which takes minutes when it    *)
(* creates a machine, and a command that changes the index saves the whole *)
(* of what it loaded, changed by its own entry.  Nothing locks the index.  *)
(*                                                                         *)
(* A directory is a canonical path, and no directory lies in another.  The *)
(* user moves and copies machine directories, and machines run, meanwhile, *)
(* but the user leaves alone a directory that a command is working on.     *)
(***************************************************************************)
EXTENDS Naturals, FiniteSets

CONSTANTS
    Launchers,       \* processes, each running one command after the other
    Directories,     \* paths that may hold a machine
    Names,           \* machine names
    Identities,      \* machine UUIDs
    BaseName,        \* the last component of each path
    Nothing,         \* no machine; a component that names no machine
    CommandBudget,   \* bound: commands issued
    UserBudget       \* bound: moves, copies, starts and stops of machines,
                     \* and launchers that die

ASSUME PathsHaveNames == BaseName \in [Directories -> Names \cup {Nothing}]
ASSUME NothingIsNoMachine ==
    Nothing \notin [id : Identities, name : Names, use : {"stopped", "running", "stale"}]
ASSUME NoIdentity == Nothing \notin Identities
ASSUME BoundsAreNatural == {CommandBudget, UserBudget} \subseteq Nat

VARIABLES index,      \* the entries of machines.json
          disk,       \* the machine in each directory
          minted,     \* identities ever given to a machine: an export of any
                      \* of them may exist
          launcher,
          budget

vars == <<index, disk, minted, launcher, budget>>

RegisteredMachine == [id : Identities, name : Names, dir : Directories]

Machine == [id : Identities,
            name : Names,
            use : {"stopped", "running", "stale"}]  \* according to runtime.json;
                   \* stale: not terminal, but its supervisor is dead

Operation == {"create", "restore", "register", "unregister", "delete"}

Idle == {"done", "refused", "invalid", "dead"}   \* how a command ended

\* A command under way.
Command == [pc : {"checking", "staging", "committing", "registering",
                  "removing", "forgetting"},
            op : Operation,
            loaded : SUBSET RegisteredMachine,
            name : Names,
            dir : Directories,
            id : Identities \cup {Nothing}]   \* of the machine it makes

TypeOK ==
    /\ index \subseteq RegisteredMachine
    /\ disk \in [Directories -> Machine \cup {Nothing}]
    /\ minted \subseteq Identities
    /\ launcher \in [Launchers -> [pc : Idle] \cup Command]
    /\ \A l \in Launchers : launcher[l].pc = "committing" => launcher[l].id # Nothing
    /\ budget \in [command : Nat, user : Nat]

-----------------------------------------------------------------------------
Entry(id, name, dir) == [id |-> id, name |-> name, dir |-> dir]

\* validate_entries: no id, name or directory twice.
Valid(entries) ==
    \A e, f \in entries :
        e.id = f.id \/ e.name = f.name \/ e.dir = f.dir => e = f

Goto(l, pc) == launcher' = [launcher EXCEPT ![l].pc = pc]

End(l, outcome) == launcher' = [launcher EXCEPT ![l] = [pc |-> outcome]]

\* MachineRegistry::save: validated, then the file is replaced as a whole.
Save(l, entries) ==
    IF Valid(entries)
    THEN index' = entries /\ End(l, "done")
    ELSE index' = index /\ End(l, "invalid")

Spend == budget.user > 0 /\ budget' = [budget EXCEPT !.user = @ - 1]

-----------------------------------------------------------------------------
\* A command starts: MachineRegistry::discover, then its arguments.
Discover(l) ==
    /\ launcher[l].pc \in Idle
    /\ budget.command > 0
    /\ budget' = [budget EXCEPT !.command = @ - 1]
    /\ \E op \in Operation, name \in Names, dir \in Directories :
        launcher' = [launcher EXCEPT ![l] =
            [pc |-> IF op = "register" THEN "registering" ELSE "checking",
             op |-> op, loaded |-> index, name |-> name, dir |-> dir,
             id |-> Nothing]]
    /\ UNCHANGED <<index, disk, minted>>

\* ensure_registry_target_available and the first look at the destination.
CheckTarget_NoName(l) ==
    LET this == launcher[l] IN
    /\ this.pc = "checking" /\ this.op \in {"create", "restore"}
    /\ IF \/ \E e \in this.loaded : e.dir = this.dir
          \/ disk[this.dir] # Nothing
       THEN End(l, "refused") ELSE Goto(l, "staging")
    /\ UNCHANGED <<index, disk, minted, budget>>

CheckTarget(l) ==
    LET this == launcher[l] IN
    /\ this.pc = "checking" /\ this.op \in {"create", "restore"}
    /\ IF \/ \E e \in this.loaded : e.name = this.name \/ e.dir = this.dir
          \/ disk[this.dir] # Nothing
       THEN End(l, "refused") ELSE Goto(l, "staging")
    /\ UNCHANGED <<index, disk, minted, budget>>

\* create, build, import or clone beside the destination, with a new UUID.
StageNew(l) ==
    /\ launcher[l].pc = "staging" /\ launcher[l].op = "create"
    /\ \E id \in Identities \ minted :
        /\ minted' = minted \cup {id}
        /\ launcher' = [launcher EXCEPT ![l].pc = "committing", ![l].id = id]
    /\ UNCHANGED <<index, disk, budget>>

StageRestored_Unchecked(l) ==
    /\ launcher[l].pc = "staging" /\ launcher[l].op = "restore"
    /\ \E id \in minted :
        launcher' = [launcher EXCEPT ![l].pc = "committing", ![l].id = id]
    /\ UNCHANGED <<index, disk, minted, budget>>

\* A restored export keeps its UUID: reject_duplicate_machine_identity loads
\* the index once more and looks for it.
StageRestored(l) ==
    /\ launcher[l].pc = "staging" /\ launcher[l].op = "restore"
    /\ \E id \in minted :
        IF \E e \in index : e.id = id
        THEN End(l, "refused")
        ELSE launcher' = [launcher EXCEPT ![l].pc = "committing", ![l].id = id]
    /\ UNCHANGED <<index, disk, minted, budget>>

\* Download, extraction or the guest's own files fail; the stage is removed.
StageFails(l) ==
    /\ launcher[l].pc = "staging"
    /\ End(l, "refused")
    /\ UNCHANGED <<index, disk, minted, budget>>

Commit_Replacing(l) ==
    LET this == launcher[l] IN
    /\ this.pc = "committing"
    /\ disk' = [disk EXCEPT ![this.dir] =
            [id |-> this.id, name |-> this.name, use |-> "stopped"]]
    /\ Goto(l, "registering")
    /\ UNCHANGED <<index, minted, budget>>

\* commit_new_machine: renameat2 with RENAME_NOREPLACE.
Commit(l) ==
    LET this == launcher[l] IN
    /\ this.pc = "committing"
    /\ IF disk[this.dir] = Nothing
       THEN /\ disk' = [disk EXCEPT ![this.dir] =
                    [id |-> this.id, name |-> this.name, use |-> "stopped"]]
            /\ Goto(l, "registering")
       ELSE disk' = disk /\ End(l, "refused")
    /\ UNCHANGED <<index, minted, budget>>

-----------------------------------------------------------------------------
\* MachineRegistry::register, of the machine that is in the directory now

\* Mutant of Same: what has the machine's UUID is taken for it, whatever its name.
Same_ByIdentity(entries, machine) == {e \in entries : e.id = machine.id}

\* The entries that share a name or a UUID with the machine, and the one that
\* shares both.
Matching(entries, machine) ==
    {e \in entries : e.name = machine.name \/ e.id = machine.id}
Same(entries, machine) ==
    {e \in entries : e.name = machine.name /\ e.id = machine.id}

Known(l) ==
    LET this == launcher[l]
        machine == disk[this.dir]
    IN  /\ machine # Nothing
        /\ Entry(machine.id, machine.name, this.dir) \in this.loaded

\* The old directory is missing, the machine does not run, and no other entry
\* has the directory it was moved to.
Moved_OverOther(l) ==
    LET this == launcher[l]
        machine == disk[this.dir]
    IN  /\ machine # Nothing
        /\ machine.use # "running"
        /\ \E e \in Same(this.loaded, machine) : disk[e.dir] = Nothing

Moved_FromPresent(l) ==
    LET this == launcher[l]
        machine == disk[this.dir]
    IN  /\ machine # Nothing
        /\ machine.use # "running"
        /\ \E e \in Same(this.loaded, machine) :
            \A f \in this.loaded \ {e} : f.dir # this.dir

Moved(l) ==
    LET this == launcher[l]
        machine == disk[this.dir]
    IN  /\ machine # Nothing
        /\ machine.use # "running"
        /\ \E e \in Same(this.loaded, machine) :
            /\ disk[e.dir] = Nothing
            /\ \A f \in this.loaded \ {e} : f.dir # this.dir

New(l) ==
    LET this == launcher[l]
        machine == disk[this.dir]
    IN  /\ machine # Nothing
        /\ Matching(this.loaded, machine) = {}
        /\ \A e \in this.loaded : e.dir # this.dir

\* The registry is saved with this entry for the machine, unless it is known.
Register(l) ==
    LET this == launcher[l]
        machine == disk[this.dir]
    IN  /\ this.pc = "registering"
        /\ CASE Known(l) -> index' = index /\ End(l, "done")
             [] ~Known(l) /\ (Moved(l) \/ New(l)) ->
                    Save(l, (this.loaded \ Same(this.loaded, machine))
                        \cup {Entry(machine.id, machine.name, this.dir)})
             [] OTHER -> index' = index /\ End(l, "refused")
        /\ UNCHANGED <<disk, minted, budget>>

-----------------------------------------------------------------------------
Named(entries, name) == {e \in entries : e.name = name}

\* MachineRegistry::unregister, as a command or at the end of delete.
Forget(l) ==
    LET this == launcher[l] IN
    /\ \/ this.pc = "checking" /\ this.op = "unregister"
       \/ this.pc = "forgetting"
    /\ IF Named(this.loaded, this.name) = {}
       THEN index' = index /\ End(l, "refused")
       ELSE Save(l, this.loaded \ Named(this.loaded, this.name))
    /\ UNCHANGED <<disk, minted, budget>>

\* registered_paths of delete: the directory given with --machine-dir, which
\* must hold a machine of that name, or the one the index has for the name,
\* which must also hold the machine with the recorded UUID.
Resolve(l) ==
    LET this == launcher[l]
        given == disk[this.dir] # Nothing /\ disk[this.dir].name = this.name
        found == {e \in Named(this.loaded, this.name) :
                    /\ disk[e.dir] # Nothing
                    /\ disk[e.dir].id = e.id /\ disk[e.dir].name = e.name}
    IN  /\ this.pc = "checking" /\ this.op = "delete"
        /\ \/ given /\ Goto(l, "removing")
           \/ \E e \in found :
                launcher' = [launcher EXCEPT ![l].pc = "removing",
                                             ![l].dir = e.dir]
           \/ ~given /\ End(l, "refused")
           \/ found = {} /\ End(l, "refused")
        /\ UNCHANGED <<index, disk, minted, budget>>

RemoveTree_NameOnly(l) ==
    LET this == launcher[l]
        machine == disk[this.dir]
    IN  /\ this.pc = "removing"
        /\ IF machine # Nothing /\ machine.name = BaseName[this.dir]
           THEN disk' = [disk EXCEPT ![this.dir].name = Nothing] /\ Goto(l, "forgetting")
           ELSE disk' = disk /\ End(l, "refused")
        /\ UNCHANGED <<index, minted, budget>>

\* lock_stopped_machine and remove_persistent_machine_tree, which also wants
\* the directory to be called like the machine.
RemoveTree(l) ==
    LET this == launcher[l]
        machine == disk[this.dir]
    IN  /\ this.pc = "removing"
        /\ IF /\ machine # Nothing
              /\ machine.use = "stopped"
              /\ machine.name = BaseName[this.dir]
           THEN disk' = [disk EXCEPT ![this.dir] = Nothing] /\ Goto(l, "forgetting")
           ELSE disk' = disk /\ End(l, "refused")
        /\ UNCHANGED <<index, minted, budget>>

\* The process dies: Ctrl-C, a crash, the end of the login session.
Die(l) ==
    /\ launcher[l].pc \notin Idle
    /\ Spend
    /\ End(l, "dead")
    /\ UNCHANGED <<index, disk, minted>>

-----------------------------------------------------------------------------
\* What the user and the brokers do to machine directories

LeftAlone(d) == \A l \in Launchers : launcher[l].pc \notin Idle => launcher[l].dir # d

Move(from, to) ==
    /\ disk[from] # Nothing /\ disk[to] = Nothing /\ LeftAlone(from)
    /\ Spend
    /\ disk' = [disk EXCEPT ![from] = Nothing, ![to] = disk[from]]
    /\ UNCHANGED <<index, minted, launcher>>

\* A copy of a stopped machine: the same name and UUID twice.
Copy(from, to) ==
    /\ disk[from] # Nothing /\ disk[to] = Nothing
    /\ disk[from].use # "running"
    /\ Spend
    /\ disk' = [disk EXCEPT ![to] = disk[from]]
    /\ UNCHANGED <<index, minted, launcher>>

\* A broker starts a machine, finishes it or dies.
StartOrStop(d) ==
    /\ disk[d] # Nothing
    /\ Spend
    /\ \E use \in IF disk[d].use = "running" THEN {"stopped", "stale"} ELSE {"running"} :
        disk' = [disk EXCEPT ![d].use = use]
    /\ UNCHANGED <<index, minted, launcher>>

-----------------------------------------------------------------------------
Init ==
    /\ index = {}
    /\ disk = [d \in Directories |-> Nothing]
    /\ minted = {}
    /\ launcher = [l \in Launchers |-> [pc |-> "done"]]
    /\ budget = [command |-> CommandBudget, user |-> UserBudget]

LauncherNext(l) ==
    \/ Discover(l) \/ CheckTarget(l) \/ StageNew(l) \/ StageRestored(l)
    \/ StageFails(l) \/ Commit(l) \/ Register(l) \/ Forget(l) \/ Resolve(l)
    \/ RemoveTree(l) \/ Die(l)

Next ==
    \/ \E l \in Launchers : LauncherNext(l)
    \/ \E from, to \in Directories : Move(from, to) \/ Copy(from, to)
    \/ \E d \in Directories : StartOrStop(d)

Spec == Init /\ [][Next]_vars

-----------------------------------------------------------------------------
\* Whatever commands do at the same time, the index never has a name, a UUID
\* or a directory twice, and the checks of register alone see to it: the
\* validation that save repeats never has anything to refuse.
IndexIsValid ==
    /\ Valid(index)
    /\ \A l \in Launchers : launcher[l].pc \notin Idle => Valid(launcher[l].loaded)
    /\ \A l \in Launchers : launcher[l].pc # "invalid"

\* No command ever puts a machine over another one, although the destination
\* was looked at minutes before the rename.
NothingIsReplaced ==
    [][\A d \in Directories :
        disk[d] # Nothing /\ disk'[d] # Nothing =>
            disk'[d].id = disk[d].id /\ disk'[d].name = disk[d].name]_vars

\* A registered machine leaves the index only when a command is told to forget
\* its name, and its entry changes only to another directory that holds it.
\* README.md:59-60: the index "records each machine's UUID, name, and
\* directory."
RegistrationsStay ==
    [][\A e \in index :
        \/ e \in index'
        \/ \E l \in Launchers :
            /\ launcher[l].pc \notin Idle /\ launcher'[l].pc = "done"
            /\ launcher[l].op \in {"unregister", "delete"}
            /\ launcher[l].name = e.name
        \/ \E f \in index' : /\ f.id = e.id /\ f.name = e.name
                             /\ disk[f.dir] # Nothing /\ disk[f.dir].id = e.id
                             /\ disk[e.dir] = Nothing]_vars

\* reject_duplicate_machine_identity: no second copy of a registered machine is
\* restored, although the check is made before the rename that commits it.
NoSecondCopy ==
    [][\A l \in Launchers :
        launcher[l].pc = "committing" /\ launcher'[l].pc = "registering"
            => \A e \in index : e.id # launcher[l].id]_vars

\* The machine a command made and committed is still where it put it, and its
\* UUID was not registered when the command began.
Committed(l) ==
    LET this == launcher[l] IN
    /\ this.pc = "registering" /\ this.op # "register"
    /\ disk[this.dir] # Nothing
    /\ disk[this.dir].id = this.id /\ disk[this.dir].name = this.name
    /\ \A e \in this.loaded : e.id # this.id

\* A machine that was created or restored and committed is also registered,
\* unless the command dies or another one deletes the machine in between: what
\* create checks before the work is enough for what register refuses after it.
\* A restore needs more: it checks its UUID against the index of that moment,
\* register against the one loaded when the command began.
CommittedIsRegistered ==
    [][\A l \in Launchers : Committed(l) => launcher'[l].pc # "refused"]_vars

Index == INSTANCE MachineIndex

\* While one command runs at a time, each change of machines.json is about one
\* machine, and true of it when it is saved: no machine is entered twice or in
\* a directory it is not in, and none is lost or renamed on the way.
IndexFollowsMachines == Index!Spec
=============================================================================
