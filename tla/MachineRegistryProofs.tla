----------------------- MODULE MachineRegistryProofs -----------------------
(***************************************************************************)
(* Theorems about MachineRegistry, for any number of launchers,            *)
(* directories, names, identities and commands.  What needs commands to    *)
(* run one at a time says so.                                              *)
(***************************************************************************)
EXTENDS MachineRegistry, TLAPS

\* A part of a valid index is valid: what unregister saves.
LEMMA ValidPart ==
    ASSUME NEW whole, NEW part \in SUBSET whole, Valid(whole)
    PROVE  Valid(part)
  BY DEF Valid

\* What register saves for a machine it moves or adds: no other entry has the
\* directory, and only an entry with both the name and the UUID has either.
LEMMA ValidWithEntry ==
    ASSUME NEW entries, Valid(entries), NEW machine, NEW dir,
           \A f \in entries \ Same(entries, machine) :
                f.dir # dir /\ f.name # machine.name /\ f.id # machine.id
    PROVE  Valid((entries \ Same(entries, machine))
                    \cup {Entry(machine.id, machine.name, dir)})
  BY DEF Valid, Entry

\* The two branches of register that save satisfy that condition.
LEMMA RegisterConditions ==
    ASSUME TypeOK, IndexIsValid, NEW l \in Launchers,
           launcher[l].pc = "registering", Moved(l) \/ New(l)
    PROVE  /\ disk[launcher[l].dir] \in Machine
           /\ \A f \in launcher[l].loaded
                        \ Same(launcher[l].loaded, disk[launcher[l].dir]) :
                 /\ f.dir # launcher[l].dir
                 /\ f.name # disk[launcher[l].dir].name
                 /\ f.id # disk[launcher[l].dir].id
<1> DEFINE this == launcher[l]
           machine == disk[launcher[l].dir]
<1>1. this \in Command /\ Valid(this.loaded) /\ machine # Nothing
  BY DEF TypeOK, IndexIsValid, Idle, Moved, New
<1>2. machine \in Machine
  BY <1>1 DEF TypeOK, Command
<1>3. CASE Moved(l)
  <2>1. PICK e \in Same(this.loaded, machine) :
            \A f \in this.loaded \ {e} : f.dir # this.dir
    BY <1>3 DEF Moved
  <2>2. \A f \in this.loaded :
            f.name = machine.name \/ f.id = machine.id => f = e
    BY <1>1, <2>1 DEF Valid, Same
  <2>. QED BY <1>2, <2>1, <2>2
<1>4. CASE New(l)
  BY <1>2, <1>4 DEF New, Matching, Same
<1>. QED BY <1>3, <1>4

-----------------------------------------------------------------------------
\* How commands move: they end, or go on with another pc.
LEMMA EndTyped ==
    ASSUME TypeOK, NEW l \in Launchers, NEW outcome \in Idle, End(l, outcome)
    PROVE  /\ launcher' \in [Launchers -> [pc : Idle] \cup Command]
           /\ \A k \in Launchers :
                launcher'[k].pc = "committing" => launcher'[k].id # Nothing
  BY DEF TypeOK, End, Idle

LEMMA GotoTyped ==
    ASSUME TypeOK, NEW l \in Launchers, launcher[l].pc \notin Idle,
           NEW pc \in {"staging", "registering", "removing", "forgetting"},
           Goto(l, pc)
    PROVE  /\ launcher' \in [Launchers -> [pc : Idle] \cup Command]
           /\ \A k \in Launchers :
                launcher'[k].pc = "committing" => launcher'[k].id # Nothing
<1>1. launcher[l] \in Command
  BY DEF TypeOK
<1>. QED BY <1>1 DEF TypeOK, Goto, Command

\* What a command saves is a set of entries.
LEMMA SaveTyped ==
    ASSUME TypeOK, NEW l \in Launchers,
           NEW entries \in SUBSET RegisteredMachine, Save(l, entries)
    PROVE  /\ index' \subseteq RegisteredMachine
           /\ launcher' \in [Launchers -> [pc : Idle] \cup Command]
           /\ \A k \in Launchers :
                launcher'[k].pc = "committing" => launcher'[k].id # Nothing
<1>1. CASE Valid(entries)
  BY <1>1, EndTyped DEF Save, Idle, TypeOK
<1>2. CASE ~Valid(entries)
  BY <1>2, EndTyped DEF Save, Idle, TypeOK
<1>. QED BY <1>1, <1>2

LEMMA Working ==
    ASSUME TypeOK, NEW l \in Launchers, launcher[l].pc \notin Idle
    PROVE  launcher[l] \in Command
  BY DEF TypeOK

LEMMA TypeStep ==
    ASSUME TypeOK, [Next]_vars
    PROVE  TypeOK'
<1>1. CASE UNCHANGED vars
  BY <1>1 DEF TypeOK, vars
<1>2. ASSUME NEW l \in Launchers, Discover(l)
      PROVE  TypeOK'
  <2>1. /\ UNCHANGED <<index, disk, minted>>
        /\ budget.command \in Nat /\ budget.command > 0
        /\ budget' = [budget EXCEPT !.command = @ - 1]
    BY <1>2 DEF Discover, TypeOK
  <2>2. budget' \in [command : Nat, user : Nat]
    BY <2>1 DEF TypeOK
  <2>3. PICK op \in Operation, name \in Names, dir \in Directories :
            launcher' = [launcher EXCEPT ![l] =
                [pc |-> IF op = "register" THEN "registering" ELSE "checking",
                 op |-> op, loaded |-> index, name |-> name, dir |-> dir,
                 id |-> Nothing]]
    BY <1>2 DEF Discover
  <2>. QED BY <2>1, <2>2, <2>3 DEF TypeOK, Command
<1>3. ASSUME NEW l \in Launchers, CheckTarget(l)
      PROVE  TypeOK'
  BY <1>3, EndTyped, GotoTyped DEF CheckTarget, TypeOK, Idle
<1>4. ASSUME NEW l \in Launchers, StageNew(l)
      PROVE  TypeOK'
  <2>1. launcher[l] \in Command
    BY <1>4, Working DEF StageNew, Idle
  <2>2. PICK id \in Identities \ minted :
            /\ minted' = minted \cup {id}
            /\ launcher' = [launcher EXCEPT ![l].pc = "committing", ![l].id = id]
    BY <1>4 DEF StageNew
  <2>3. launcher' = [launcher EXCEPT
            ![l] = [launcher[l] EXCEPT !.pc = "committing", !.id = id]]
    BY <2>2 DEF TypeOK
  <2>4. [launcher[l] EXCEPT !.pc = "committing", !.id = id] \in Command
    BY <2>1 DEF Command
  <2>5. launcher' \in [Launchers -> [pc : Idle] \cup Command]
    BY <2>3, <2>4 DEF TypeOK
  <2>6. \A k \in Launchers : launcher'[k].pc = "committing" => launcher'[k].id # Nothing
    BY <2>1, <2>3, NoIdentity DEF TypeOK, Command
  <2>. QED BY <1>4, <2>2, <2>5, <2>6 DEF StageNew, TypeOK
<1>5. ASSUME NEW l \in Launchers, StageRestored(l)
      PROVE  TypeOK'
  <2>1. launcher[l] \in Command
    BY <1>5, Working DEF StageRestored, Idle
  <2>2. PICK id \in minted :
            IF \E e \in index : e.id = id
            THEN End(l, "refused")
            ELSE launcher' = [launcher EXCEPT ![l].pc = "committing", ![l].id = id]
    BY <1>5 DEF StageRestored
  <2>3. CASE \E e \in index : e.id = id
    BY <1>5, <2>2, <2>3, EndTyped DEF StageRestored, TypeOK, Idle
  <2>4. CASE ~\E e \in index : e.id = id
    BY <1>5, <2>1, <2>2, <2>4, NoIdentity DEF StageRestored, TypeOK, Command
  <2>. QED BY <2>3, <2>4
<1>6. ASSUME NEW l \in Launchers, StageFails(l)
      PROVE  TypeOK'
  BY <1>6, EndTyped DEF StageFails, TypeOK, Idle
<1>7. ASSUME NEW l \in Launchers, Commit(l)
      PROVE  TypeOK'
  <2>1. launcher[l] \in Command /\ launcher[l].pc = "committing"
    BY <1>7, Working DEF Commit, Idle
  <2>2. [id |-> launcher[l].id, name |-> launcher[l].name, use |-> "stopped"] \in Machine
    BY <2>1 DEF TypeOK, Command, Machine
  <2>3. CASE disk[launcher[l].dir] = Nothing
    <3>1. disk' \in [Directories -> Machine \cup {Nothing}]
      BY <1>7, <2>2, <2>3 DEF Commit, TypeOK
    <3>. QED BY <1>7, <2>3, <3>1, GotoTyped DEF Commit, TypeOK, Idle
  <2>4. CASE disk[launcher[l].dir] # Nothing
    BY <1>7, <2>4, EndTyped DEF Commit, TypeOK, Idle
  <2>. QED BY <2>3, <2>4
<1>8. ASSUME NEW l \in Launchers, Register(l)
      PROVE  TypeOK'
  <2> DEFINE this == launcher[l]
             machine == disk[this.dir]
             entries == (this.loaded \ Same(this.loaded, machine))
                            \cup {Entry(machine.id, machine.name, this.dir)}
  <2>1. this \in Command /\ UNCHANGED <<disk, minted, budget>>
    BY <1>8, Working DEF Register, Idle
  <2>2. CASE Known(l)
    BY <1>8, <2>1, <2>2, EndTyped DEF Register, TypeOK, Idle
  <2>3. CASE ~Known(l) /\ (Moved(l) \/ New(l))
    <3>1. machine \in Machine
      BY <2>1, <2>3 DEF Moved, New, TypeOK, Command
    <3>2. entries \in SUBSET RegisteredMachine
      BY <2>1, <3>1 DEF Command, Machine, RegisteredMachine, Entry
    <3>3. Save(l, entries)
      BY <1>8, <2>3 DEF Register
    <3>. QED BY <2>1, <3>2, <3>3, SaveTyped DEF TypeOK
  <2>4. CASE ~Known(l) /\ ~(Moved(l) \/ New(l))
    BY <1>8, <2>1, <2>4, EndTyped DEF Register, TypeOK, Idle
  <2>. QED BY <2>2, <2>3, <2>4
<1>9. ASSUME NEW l \in Launchers, Forget(l)
      PROVE  TypeOK'
  <2>1. launcher[l] \in Command /\ UNCHANGED <<disk, minted, budget>>
    BY <1>9, Working DEF Forget, Idle
  <2>2. CASE Named(launcher[l].loaded, launcher[l].name) = {}
    BY <1>9, <2>1, <2>2, EndTyped DEF Forget, TypeOK, Idle
  <2>3. CASE Named(launcher[l].loaded, launcher[l].name) # {}
    BY <1>9, <2>1, <2>3, SaveTyped DEF Forget, TypeOK, Command
  <2>. QED BY <2>2, <2>3
<1>10. ASSUME NEW l \in Launchers, Resolve(l)
       PROVE  TypeOK'
  <2>1. launcher[l] \in Command /\ UNCHANGED <<index, disk, minted, budget>>
    BY <1>10, Working DEF Resolve, Idle
  <2>2. \/ Goto(l, "removing")
        \/ End(l, "refused")
        \/ \E d \in Directories :
            launcher' = [launcher EXCEPT ![l].pc = "removing", ![l].dir = d]
    BY <1>10, <2>1 DEF Resolve, Named, Command, RegisteredMachine
  <2>3. CASE Goto(l, "removing") \/ End(l, "refused")
    BY <1>10, <2>1, <2>3, GotoTyped, EndTyped DEF Resolve, TypeOK, Idle
  <2>4. CASE \E d \in Directories :
            launcher' = [launcher EXCEPT ![l].pc = "removing", ![l].dir = d]
    <3>1. PICK d \in Directories :
            launcher' = [launcher EXCEPT ![l].pc = "removing", ![l].dir = d]
      BY <2>4
    <3>2. launcher' = [launcher EXCEPT
            ![l] = [launcher[l] EXCEPT !.pc = "removing", !.dir = d]]
      BY <3>1 DEF TypeOK
    <3>3. [launcher[l] EXCEPT !.pc = "removing", !.dir = d] \in Command
      BY <2>1 DEF Command
    <3>. QED BY <2>1, <3>2, <3>3 DEF TypeOK
  <2>. QED BY <2>2, <2>3, <2>4
<1>11. ASSUME NEW l \in Launchers, RemoveTree(l)
       PROVE  TypeOK'
  <2>1. disk' \in [Directories -> Machine \cup {Nothing}]
    BY <1>11 DEF RemoveTree, TypeOK
  <2>. QED BY <1>11, <2>1, GotoTyped, EndTyped DEF RemoveTree, TypeOK, Idle
<1>12. ASSUME NEW l \in Launchers, Die(l)
       PROVE  TypeOK'
  BY <1>12, EndTyped DEF Die, Spend, TypeOK, Idle
<1>13. ASSUME NEW from \in Directories, NEW to \in Directories,
              Move(from, to) \/ Copy(from, to)
       PROVE  TypeOK'
  BY <1>13 DEF Move, Copy, Spend, TypeOK
<1>14. ASSUME NEW d \in Directories, StartOrStop(d)
       PROVE  TypeOK'
  BY <1>14 DEF StartOrStop, Spend, TypeOK, Machine
<1>. QED
  BY <1>1, <1>2, <1>3, <1>4, <1>5, <1>6, <1>7, <1>8, <1>9, <1>10, <1>11, <1>12,
     <1>13, <1>14 DEF Next, LauncherNext

\* Types hold always.
THEOREM RegistryTypeCorrect == Spec => []TypeOK
<1>1. Init => TypeOK
  BY BoundsAreNatural DEF Init, TypeOK, Idle
<1>. QED BY <1>1, TypeStep, PTL DEF Spec

-----------------------------------------------------------------------------
\* A command that ends without saving, or goes on, leaves the index valid.
LEMMA EndKeepsValid ==
    ASSUME TypeOK, IndexIsValid, NEW l \in Launchers,
           NEW outcome \in {"done", "refused", "dead"},
           End(l, outcome), index' = index
    PROVE  IndexIsValid'
  BY DEF TypeOK, IndexIsValid, Valid, End, Idle

LEMMA GoingOnKeepsValid ==
    ASSUME TypeOK, IndexIsValid, NEW l \in Launchers, index' = index,
           NEW command \in Command, Valid(command.loaded),
           launcher' = [launcher EXCEPT ![l] = command]
    PROVE  IndexIsValid'
  BY DEF TypeOK, IndexIsValid, Valid, Idle, Command

LEMMA GotoKeepsValid ==
    ASSUME TypeOK, IndexIsValid, NEW l \in Launchers, index' = index,
           launcher[l].pc \notin Idle,
           NEW pc \in {"staging", "registering", "removing", "forgetting"},
           Goto(l, pc)
    PROVE  IndexIsValid'
<1>1. [launcher[l] EXCEPT !.pc = pc] \in Command
  BY Working DEF Command
<1>2. launcher' = [launcher EXCEPT ![l] = [launcher[l] EXCEPT !.pc = pc]]
  BY DEF Goto, TypeOK
<1>3. [launcher[l] EXCEPT !.pc = pc].loaded = launcher[l].loaded
  BY Working DEF Command
<1>. QED BY <1>1, <1>2, <1>3, GoingOnKeepsValid DEF IndexIsValid

LEMMA SavingValidEntries ==
    ASSUME TypeOK, IndexIsValid, NEW l \in Launchers,
           NEW entries, Valid(entries), Save(l, entries)
    PROVE  IndexIsValid'
  BY DEF TypeOK, IndexIsValid, Valid, Save, End, Idle

LEMMA IndexStep ==
    ASSUME TypeOK, IndexIsValid, [Next]_vars
    PROVE  IndexIsValid'
<1>1. CASE UNCHANGED vars
  BY <1>1 DEF IndexIsValid, Valid, vars
<1>2. ASSUME NEW l \in Launchers, Discover(l)
      PROVE  IndexIsValid'
  <2>1. PICK op \in Operation, name \in Names, dir \in Directories :
            launcher' = [launcher EXCEPT ![l] =
                [pc |-> IF op = "register" THEN "registering" ELSE "checking",
                 op |-> op, loaded |-> index, name |-> name, dir |-> dir,
                 id |-> Nothing]]
    BY <1>2 DEF Discover
  <2> DEFINE command ==
                [pc |-> IF op = "register" THEN "registering" ELSE "checking",
                 op |-> op, loaded |-> index, name |-> name, dir |-> dir,
                 id |-> Nothing]
  <2>2. command \in Command /\ Valid(command.loaded) /\ index' = index
    BY <1>2 DEF Discover, TypeOK, IndexIsValid, Command
  <2>3. launcher' = [launcher EXCEPT ![l] = command]
    BY <2>1
  <2>. HIDE DEF command
  <2>. QED BY <2>2, <2>3, GoingOnKeepsValid
<1>3. ASSUME NEW l \in Launchers, CheckTarget(l) \/ StageFails(l) \/ Commit(l)
                                  \/ RemoveTree(l) \/ Die(l)
      PROVE  IndexIsValid'
  <2>1. launcher[l].pc \notin Idle /\ index' = index
    BY <1>3 DEF CheckTarget, StageFails, Commit, RemoveTree, Die, Idle
  <2>2. \/ End(l, "refused") \/ End(l, "dead")
        \/ Goto(l, "staging") \/ Goto(l, "registering") \/ Goto(l, "forgetting")
    BY <1>3 DEF CheckTarget, StageFails, Commit, RemoveTree, Die
  <2>. QED BY <2>1, <2>2, EndKeepsValid, GotoKeepsValid
<1>4. ASSUME NEW l \in Launchers, StageNew(l) \/ StageRestored(l)
      PROVE  IndexIsValid'
  <2>1. launcher[l] \in Command /\ Valid(launcher[l].loaded) /\ index' = index
    BY <1>4, Working DEF StageNew, StageRestored, IndexIsValid, Idle
  <2>2. CASE End(l, "refused")
    BY <2>1, <2>2, EndKeepsValid
  <2>3. CASE \E id \in Identities :
            launcher' = [launcher EXCEPT ![l].pc = "committing", ![l].id = id]
    <3>1. PICK id \in Identities :
            launcher' = [launcher EXCEPT ![l].pc = "committing", ![l].id = id]
      BY <2>3
    <3> DEFINE command == [launcher[l] EXCEPT !.pc = "committing", !.id = id]
    <3>2. command \in Command /\ command.loaded = launcher[l].loaded
      BY <2>1 DEF Command
    <3>3. launcher' = [launcher EXCEPT ![l] = command]
      BY <3>1 DEF TypeOK
    <3>. HIDE DEF command
    <3>. QED BY <2>1, <3>2, <3>3, GoingOnKeepsValid
  <2>. QED BY <1>4, <2>2, <2>3 DEF StageNew, StageRestored, TypeOK
<1>5. ASSUME NEW l \in Launchers, Register(l)
      PROVE  IndexIsValid'
  <2> DEFINE this == launcher[l]
             machine == disk[this.dir]
  <2>1. this.pc = "registering" /\ Valid(this.loaded)
    BY <1>5 DEF Register, IndexIsValid, Idle
  <2>2. CASE ~Known(l) /\ (Moved(l) \/ New(l))
    <3>1. Valid((this.loaded \ Same(this.loaded, machine))
                    \cup {Entry(machine.id, machine.name, this.dir)})
      BY <2>1, <2>2, RegisterConditions, ValidWithEntry
    <3>. QED BY <1>5, <2>2, <3>1, SavingValidEntries DEF Register
  <2>3. CASE Known(l) \/ ~(Moved(l) \/ New(l))
    BY <1>5, <2>3, EndKeepsValid DEF Register
  <2>. QED BY <2>2, <2>3
<1>6. ASSUME NEW l \in Launchers, Forget(l)
      PROVE  IndexIsValid'
  <2>1. Valid(launcher[l].loaded)
    BY <1>6 DEF Forget, IndexIsValid, Idle
  <2>2. Valid(launcher[l].loaded \ Named(launcher[l].loaded, launcher[l].name))
    BY <2>1, ValidPart
  <2>. QED BY <1>6, <2>2, EndKeepsValid, SavingValidEntries DEF Forget
<1>7. ASSUME NEW l \in Launchers, Resolve(l)
      PROVE  IndexIsValid'
  <2>1. /\ launcher[l] \in Command /\ Valid(launcher[l].loaded)
        /\ launcher[l].pc \notin Idle /\ index' = index
    BY <1>7, Working DEF Resolve, IndexIsValid, Idle
  <2>2. CASE Goto(l, "removing") \/ End(l, "refused")
    BY <2>1, <2>2, GotoKeepsValid, EndKeepsValid
  <2>3. CASE \E d \in Directories :
            launcher' = [launcher EXCEPT ![l].pc = "removing", ![l].dir = d]
    <3>1. PICK d \in Directories :
            launcher' = [launcher EXCEPT ![l].pc = "removing", ![l].dir = d]
      BY <2>3
    <3> DEFINE command == [launcher[l] EXCEPT !.pc = "removing", !.dir = d]
    <3>2. command \in Command /\ command.loaded = launcher[l].loaded
      BY <2>1 DEF Command
    <3>3. launcher' = [launcher EXCEPT ![l] = command]
      BY <3>1 DEF TypeOK
    <3>. HIDE DEF command
    <3>. QED BY <2>1, <3>2, <3>3, GoingOnKeepsValid
  <2>. QED BY <1>7, <2>1, <2>2, <2>3 DEF Resolve, Named, Command, RegisteredMachine
<1>8. ASSUME NEW from \in Directories, NEW to \in Directories,
             Move(from, to) \/ Copy(from, to) \/ StartOrStop(from)
      PROVE  IndexIsValid'
  BY <1>8 DEF Move, Copy, StartOrStop, IndexIsValid, Valid
<1>. QED
  BY <1>1, <1>2, <1>3, <1>4, <1>5, <1>6, <1>7, <1>8 DEF Next, LauncherNext

\* Whatever commands run at the same time, the index names no machine, UUID or
\* directory twice, and no save is ever refused by its own validation.
THEOREM IndexIsValidCorrect == Spec => []IndexIsValid
<1>1. Init => IndexIsValid
  BY DEF Init, IndexIsValid, Valid, Idle
<1>. QED BY <1>1, IndexStep, RegistryTypeCorrect, PTL DEF Spec

-----------------------------------------------------------------------------
\* No command and no move ever puts a machine where another one is.
THEOREM NothingIsReplacedCorrect == Spec => NothingIsReplaced
<1> DEFINE Kept(d) == disk[d] # Nothing /\ disk'[d] # Nothing =>
                        disk'[d].id = disk[d].id /\ disk'[d].name = disk[d].name
<1>1. ASSUME TypeOK, Next, NEW d \in Directories
      PROVE  Kept(d)
  <2>1. ASSUME NEW l \in Launchers, LauncherNext(l)
        PROVE  Kept(d)
    <3>1. CASE Commit(l)
      BY <3>1, <1>1 DEF Commit, TypeOK
    <3>2. CASE RemoveTree(l)
      BY <3>2, <1>1 DEF RemoveTree, TypeOK
    <3>3. CASE ~Commit(l) /\ ~RemoveTree(l)
      BY <3>3, <2>1 DEF LauncherNext, Discover, CheckTarget, StageNew, StageRestored,
         StageFails, Register, Forget, Resolve, Die
    <3>. QED BY <3>1, <3>2, <3>3
  <2>2. ASSUME NEW from \in Directories, NEW to \in Directories,
               Move(from, to) \/ Copy(from, to)
        PROVE  Kept(d)
    BY <1>1, <2>2 DEF Move, Copy, TypeOK
  <2>3. ASSUME NEW e \in Directories, StartOrStop(e)
        PROVE  Kept(d)
    BY <1>1, <2>3 DEF StartOrStop, TypeOK, Machine
  <2>. QED BY <1>1, <2>1, <2>2, <2>3 DEF Next
<1>2. TypeOK /\ [Next]_vars => [\A d \in Directories : Kept(d)]_vars
  BY <1>1 DEF vars
<1>. QED BY <1>2, RegistryTypeCorrect, PTL DEF Spec, NothingIsReplaced

-----------------------------------------------------------------------------
\* A step of one command leaves the others where they are.
LEMMA OthersStand ==
    ASSUME TypeOK, NEW k \in Launchers, NEW l \in Launchers, k # l, LauncherNext(k)
    PROVE  launcher'[l] = launcher[l]
<1>1. CASE Discover(k) \/ CheckTarget(k) \/ StageNew(k) \/ StageRestored(k)
            \/ StageFails(k) \/ Commit(k)
  BY <1>1 DEF Discover, CheckTarget, StageNew, StageRestored, StageFails, Commit,
     TypeOK, Goto, End
<1>2. CASE Register(k)
  BY <1>2 DEF Register, Save, TypeOK, End
<1>3. CASE Forget(k) \/ Resolve(k) \/ RemoveTree(k) \/ Die(k)
  BY <1>3 DEF Forget, Resolve, RemoveTree, Die, Save, TypeOK, Goto, End
<1>. QED BY <1>1, <1>2, <1>3 DEF LauncherNext

\* A command makes a machine.
Making(l) ==
    \/ launcher[l].pc \in {"staging", "committing"}
    \/ launcher[l].pc = "registering" /\ launcher[l].op # "register"

\* What ensure_registry_target_available saw still holds of what was loaded.
TargetIsFree ==
    \A l \in Launchers : Making(l) =>
        \A e \in launcher[l].loaded :
            e.name # launcher[l].name /\ e.dir # launcher[l].dir

LEMMA TargetStep ==
    ASSUME TypeOK, TargetIsFree, [Next]_vars
    PROVE  TargetIsFree'
<1>1. CASE UNCHANGED vars
  BY <1>1 DEF TargetIsFree, Making, vars
<1>2. ASSUME NEW k \in Launchers, LauncherNext(k)
      PROVE  TargetIsFree'
  <2> SUFFICES ASSUME NEW l \in Launchers, Making(l)'
               PROVE  \A e \in launcher'[l].loaded :
                        e.name # launcher'[l].name /\ e.dir # launcher'[l].dir
    BY DEF TargetIsFree
  <2>1. CASE k # l
    BY <1>2, <2>1, OthersStand DEF TargetIsFree, Making
  <2>2. CASE k = l
    <3>1. CASE Discover(l)
      BY <3>1 DEF Discover, Making, TypeOK
    <3>2. CASE CheckTarget(l)
      <4>1. launcher[l] \in Command
        BY <3>2, Working DEF CheckTarget, Idle
      <4>2. CASE End(l, "refused")
        BY <4>2 DEF End, Making, TypeOK
      <4>3. CASE Goto(l, "staging")
        <5>1. /\ launcher'[l].loaded = launcher[l].loaded
              /\ launcher'[l].name = launcher[l].name
              /\ launcher'[l].dir = launcher[l].dir
              /\ launcher'[l].pc = "staging"
          BY <4>1, <4>3 DEF Goto, TypeOK, Command
        <5>2. launcher'[l].pc # "refused"
          BY <5>1
        <5>. QED BY <3>2, <5>1, <5>2 DEF CheckTarget, End, TypeOK
      <4>. QED BY <3>2, <4>2, <4>3 DEF CheckTarget
    <3>3. CASE StageNew(l) \/ StageRestored(l) \/ StageFails(l) \/ Commit(l)
      <4>1. Making(l)
        BY <3>3 DEF StageNew, StageRestored, StageFails, Commit, Making
      <4>2. \/ launcher'[l].pc \in Idle
            \/ /\ launcher'[l].loaded = launcher[l].loaded
               /\ launcher'[l].name = launcher[l].name
               /\ launcher'[l].dir = launcher[l].dir
        BY <3>3 DEF StageNew, StageRestored, StageFails, Commit, Goto, End, TypeOK,
           Idle, Command
      <4>. QED BY <4>1, <4>2 DEF TargetIsFree, Making, Idle
    <3>4. CASE Register(l)
      BY <3>4 DEF Register, Save, End, Making, TypeOK
    <3>5. CASE Forget(l)
      BY <3>5 DEF Forget, Save, End, Making, TypeOK
    <3>6. CASE Resolve(l) \/ RemoveTree(l) \/ Die(l)
      <4>1. launcher'[l].pc \in {"removing", "forgetting", "refused", "dead"}
        BY <3>6 DEF Resolve, RemoveTree, Die, Goto, End, TypeOK, Command
      <4>. QED BY <4>1 DEF Making
    <3>. QED BY <1>2, <2>2, <3>1, <3>2, <3>3, <3>4, <3>5, <3>6 DEF LauncherNext
  <2>. QED BY <2>1, <2>2
<1>3. ASSUME NEW from \in Directories, NEW to \in Directories,
             Move(from, to) \/ Copy(from, to) \/ StartOrStop(from)
      PROVE  TargetIsFree'
  BY <1>3 DEF Move, Copy, StartOrStop, TargetIsFree, Making
<1>. QED BY <1>1, <1>2, <1>3 DEF Next

LEMMA TargetAlwaysFree == Spec => []TargetIsFree
<1>1. Init => TargetIsFree
  BY DEF Init, TargetIsFree, Making
<1>. QED BY <1>1, TargetStep, RegistryTypeCorrect, PTL DEF Spec

\* What create checked before the work is enough for register after it.
THEOREM CommittedIsRegisteredCorrect == Spec => CommittedIsRegistered
<1>1. ASSUME TypeOK, TargetIsFree, Next, NEW l \in Launchers, Committed(l)
      PROVE  launcher'[l].pc # "refused"
  <2>1. New(l)
    BY <1>1 DEF Committed, TargetIsFree, Making, New, Matching
  <2>2. CASE Register(l)
    <3>1. Known(l) => End(l, "done")
      BY <2>2 DEF Register
    <3>2. ~Known(l) => End(l, "done") \/ End(l, "invalid")
      BY <2>1, <2>2 DEF Register, Save
    <3>. QED BY <1>1, <3>1, <3>2 DEF Committed, End, TypeOK
  <2>3. CASE Die(l)
    BY <1>1, <2>3 DEF Committed, Die, End, TypeOK
  <2>4. ASSUME NEW k \in Launchers, LauncherNext(k), k # l
        PROVE  launcher'[l].pc # "refused"
    BY <1>1, <2>4, OthersStand DEF Committed
  <2>5. CASE LauncherNext(l)
    BY <1>1, <2>2, <2>3, <2>5 DEF Committed, LauncherNext, Discover, CheckTarget,
       StageNew, StageRestored, StageFails, Commit, Forget, Resolve, RemoveTree, Idle
  <2>6. ASSUME NEW from \in Directories, NEW to \in Directories,
               Move(from, to) \/ Copy(from, to) \/ StartOrStop(from)
        PROVE  launcher'[l].pc # "refused"
    BY <1>1, <2>6 DEF Committed, Move, Copy, StartOrStop
  <2>. QED BY <1>1, <2>4, <2>5, <2>6 DEF Next
<1>2. TypeOK /\ TargetIsFree /\ [Next]_vars =>
        [\A l \in Launchers : Committed(l) => launcher'[l].pc # "refused"]_vars
  BY <1>1 DEF vars
<1>. QED
  BY <1>2, RegistryTypeCorrect, TargetAlwaysFree, PTL DEF Spec, CommittedIsRegistered

-----------------------------------------------------------------------------
\* What holds when commands run one at a time

Serial == \A k, l \in Launchers : k = l

\* Every machine and every entry has an identity that was given out.
IdentitiesMinted ==
    /\ \A e \in index : e.id \in minted
    /\ \A d \in Directories : disk[d] # Nothing => disk[d].id \in minted

\* Nobody else changes the index under a command.
IndexIsLoaded ==
    \A l \in Launchers : launcher[l].pc \notin Idle =>
        /\ launcher[l].loaded = index
        /\ launcher[l].pc \in {"removing", "forgetting"} => launcher[l].op = "delete"
        /\ launcher[l].pc = "committing" =>
            launcher[l].id \in minted /\ \A e \in index : e.id # launcher[l].id

Alone == IdentitiesMinted /\ IndexIsLoaded

\* A step that ends a command leaves nothing to say about it.
LEMMA EndAlone ==
    ASSUME Serial, TypeOK, NEW l \in Launchers, NEW outcome \in Idle, End(l, outcome)
    PROVE  IndexIsLoaded'
  BY DEF Serial, TypeOK, End, IndexIsLoaded

LEMMA GotoAlone ==
    ASSUME Serial, TypeOK, IndexIsLoaded, NEW l \in Launchers,
           launcher[l].pc \notin Idle, index' = index,
           NEW pc \in {"staging", "registering", "removing", "forgetting"},
           pc \in {"removing", "forgetting"} => launcher[l].op = "delete",
           Goto(l, pc)
    PROVE  IndexIsLoaded'
<1>1. launcher[l] \in Command
  BY Working
<1>2. /\ launcher'[l].loaded = launcher[l].loaded
      /\ launcher'[l].op = launcher[l].op
      /\ launcher'[l].pc = pc
  BY <1>1 DEF Goto, TypeOK, Command
<1>. QED BY <1>2 DEF Serial, IndexIsLoaded

LEMMA AloneStep ==
    ASSUME Serial, TypeOK, Alone, [Next]_vars
    PROVE  Alone'
<1>1. CASE UNCHANGED vars
  BY <1>1 DEF Alone, IdentitiesMinted, IndexIsLoaded, vars
<1>2. ASSUME NEW l \in Launchers, Discover(l)
      PROVE  Alone'
  <2>1. launcher'[l].loaded = index' /\ launcher'[l].pc \in {"checking", "registering"}
    BY <1>2 DEF Discover, TypeOK
  <2>. QED BY <1>2, <2>1 DEF Discover, Serial, Alone, IdentitiesMinted, IndexIsLoaded
<1>3. ASSUME NEW l \in Launchers, CheckTarget(l)
      PROVE  Alone'
  BY <1>3, EndAlone, GotoAlone DEF CheckTarget, Alone, IdentitiesMinted, Idle
<1>4. ASSUME NEW l \in Launchers, StageNew(l)
      PROVE  Alone'
  <2>1. launcher[l] \in Command
    BY <1>4, Working DEF StageNew, Idle
  <2>2. PICK id \in Identities \ minted :
            /\ minted' = minted \cup {id}
            /\ launcher' = [launcher EXCEPT ![l].pc = "committing", ![l].id = id]
    BY <1>4 DEF StageNew
  <2>3. /\ launcher'[l].loaded = launcher[l].loaded
        /\ launcher'[l].pc = "committing" /\ launcher'[l].id = id
    BY <2>1, <2>2 DEF TypeOK, Command
  <2>4. index' = index /\ disk' = disk /\ launcher[l].pc = "staging"
    BY <1>4 DEF StageNew
  <2>5. IdentitiesMinted'
    BY <2>2, <2>4 DEF Alone, IdentitiesMinted
  <2>6. \A e \in index : e.id # id
    BY <2>2 DEF Alone, IdentitiesMinted
  <2>7. IndexIsLoaded'
    <3>1. launcher[l].loaded = index /\ id \in minted'
      BY <2>2, <2>4 DEF Alone, IndexIsLoaded, Idle
    <3>2. \A k \in Launchers : k = l
      BY DEF Serial
    <3>. QED BY <2>3, <2>4, <2>6, <3>1, <3>2 DEF IndexIsLoaded
  <2>. QED BY <2>5, <2>7 DEF Alone
<1>5. ASSUME NEW l \in Launchers, StageRestored(l)
      PROVE  Alone'
  <2>1. launcher[l] \in Command
    BY <1>5, Working DEF StageRestored, Idle
  <2>2. PICK id \in minted :
            IF \E e \in index : e.id = id
            THEN End(l, "refused")
            ELSE launcher' = [launcher EXCEPT ![l].pc = "committing", ![l].id = id]
    BY <1>5 DEF StageRestored
  <2>3. CASE \E e \in index : e.id = id
    BY <1>5, <2>2, <2>3, EndAlone DEF StageRestored, Alone, IdentitiesMinted, Idle
  <2>4. CASE ~\E e \in index : e.id = id
    <3>1. /\ launcher'[l].loaded = launcher[l].loaded
          /\ launcher'[l].pc = "committing" /\ launcher'[l].id = id
      BY <2>1, <2>2, <2>4 DEF TypeOK, Command
    <3>. QED BY <1>5, <2>2, <2>4, <3>1 DEF StageRestored, Serial, Alone,
             IdentitiesMinted, IndexIsLoaded, Idle
  <2>. QED BY <2>3, <2>4
<1>6. ASSUME NEW l \in Launchers, StageFails(l) \/ Die(l)
      PROVE  Alone'
  BY <1>6, EndAlone DEF StageFails, Die, Alone, IdentitiesMinted, Idle
<1>7. ASSUME NEW l \in Launchers, Commit(l)
      PROVE  Alone'
  <2>1. launcher[l] \in Command /\ launcher[l].pc = "committing"
    BY <1>7, Working DEF Commit, Idle
  <2>2. IdentitiesMinted'
    BY <1>7, <2>1 DEF Commit, TypeOK, Alone, IdentitiesMinted, IndexIsLoaded, Idle
  <2>3. IndexIsLoaded'
    BY <1>7, <2>1, EndAlone, GotoAlone DEF Commit, Alone, Idle
  <2>. QED BY <2>2, <2>3 DEF Alone
<1>8. ASSUME NEW l \in Launchers, Register(l)
      PROVE  Alone'
  <2>1. launcher[l] \in Command /\ launcher[l].loaded = index
    BY <1>8, Working DEF Register, Alone, IndexIsLoaded, Idle
  <2>2. End(l, "done") \/ End(l, "invalid") \/ End(l, "refused")
    BY <1>8 DEF Register, Save
  <2>3. \/ index' = index
        \/ /\ disk[launcher[l].dir] # Nothing
           /\ index' = (index \ Same(index, disk[launcher[l].dir]))
                \cup {Entry(disk[launcher[l].dir].id, disk[launcher[l].dir].name,
                            launcher[l].dir)}
    BY <1>8, <2>1 DEF Register, Save, Moved, New
  <2>4. IdentitiesMinted'
    BY <1>8, <2>1, <2>3 DEF Register, Alone, IdentitiesMinted, Entry, Command
  <2>. QED BY <2>2, <2>4, EndAlone DEF Alone, Idle
<1>9. ASSUME NEW l \in Launchers, Forget(l)
      PROVE  Alone'
  <2>1. launcher[l].loaded = index
    BY <1>9 DEF Forget, Alone, IndexIsLoaded, Idle
  <2>2. End(l, "done") \/ End(l, "invalid") \/ End(l, "refused")
    BY <1>9 DEF Forget, Save
  <2>3. index' \subseteq index
    BY <1>9, <2>1 DEF Forget, Save
  <2>. QED BY <1>9, <2>2, <2>3, EndAlone DEF Forget, Alone, IdentitiesMinted, Idle
<1>10. ASSUME NEW l \in Launchers, Resolve(l)
       PROVE  Alone'
  <2>1. launcher[l] \in Command /\ launcher[l].op = "delete"
    BY <1>10, Working DEF Resolve, Idle
  <2>2. CASE Goto(l, "removing") \/ End(l, "refused")
    BY <1>10, <2>1, <2>2, GotoAlone, EndAlone
       DEF Resolve, Alone, IdentitiesMinted, Idle
  <2>3. CASE \E d \in Directories :
            launcher' = [launcher EXCEPT ![l].pc = "removing", ![l].dir = d]
    <3>1. /\ launcher'[l].loaded = launcher[l].loaded
          /\ launcher'[l].pc = "removing" /\ launcher'[l].op = "delete"
      BY <2>1, <2>3 DEF TypeOK, Command
    <3>. QED BY <1>10, <3>1 DEF Resolve, Serial, Alone, IdentitiesMinted,
             IndexIsLoaded, Idle
  <2>. QED BY <1>10, <2>1, <2>2, <2>3 DEF Resolve, Named, TypeOK, Command, RegisteredMachine
<1>11. ASSUME NEW l \in Launchers, RemoveTree(l)
       PROVE  Alone'
  <2>1. launcher[l].pc = "removing" /\ launcher[l].op = "delete"
    BY <1>11 DEF RemoveTree, Alone, IndexIsLoaded, Idle
  <2>2. IndexIsLoaded'
    BY <1>11, <2>1, GotoAlone, EndAlone DEF RemoveTree, Alone, Idle
  <2>3. IdentitiesMinted'
    BY <1>11 DEF RemoveTree, TypeOK, Alone, IdentitiesMinted
  <2>. QED BY <2>2, <2>3 DEF Alone
<1>12. ASSUME NEW from \in Directories, NEW to \in Directories,
              Move(from, to) \/ Copy(from, to)
       PROVE  Alone'
  BY <1>12 DEF Move, Copy, TypeOK, Alone, IdentitiesMinted, IndexIsLoaded
<1>13. ASSUME NEW d \in Directories, StartOrStop(d)
       PROVE  Alone'
  BY <1>13 DEF StartOrStop, TypeOK, Machine, Alone, IdentitiesMinted, IndexIsLoaded
<1>. QED
  BY <1>1, <1>2, <1>3, <1>4, <1>5, <1>6, <1>7, <1>8, <1>9, <1>10, <1>11, <1>12,
     <1>13 DEF Next, LauncherNext

LEMMA AlwaysAlone ==
    ASSUME Serial
    PROVE  Spec => []Alone
<1>1. Init => Alone
  BY DEF Init, Alone, IdentitiesMinted, IndexIsLoaded, Idle
<1>2. TypeOK /\ Alone /\ [Next]_vars => Alone'
  BY AloneStep
<1>. QED BY <1>1, <1>2, RegistryTypeCorrect, PTL DEF Spec

\* One command at a time: a registered machine leaves the index only when a
\* command is told to forget it.
THEOREM RegistrationsStayWhenSerial ==
    ASSUME Serial
    PROVE  Spec => RegistrationsStay
<1> DEFINE Stays(e) ==
        \/ e \in index'
        \/ \E l \in Launchers :
            /\ launcher[l].pc \notin Idle /\ launcher'[l].pc = "done"
            /\ launcher[l].op \in {"unregister", "delete"}
            /\ launcher[l].name = e.name
        \/ \E f \in index' : /\ f.id = e.id /\ f.name = e.name
                             /\ disk[f.dir] # Nothing /\ disk[f.dir].id = e.id
                             /\ disk[e.dir] = Nothing
<1>1. ASSUME TypeOK, IndexIsValid, Alone, Next, NEW e \in index
      PROVE  Stays(e)
  <2>1. ASSUME NEW l \in Launchers, Register(l)
        PROVE  Stays(e)
    <3> DEFINE this == launcher[l]
               machine == disk[this.dir]
               entry == Entry(machine.id, machine.name, this.dir)
    <3>1. this.loaded = index
      BY <1>1, <2>1 DEF Register, Alone, IndexIsLoaded, Idle
    <3>2. CASE index' = index
      BY <3>2
    <3>3. CASE index' # index
      <4>1. /\ Moved(l) \/ New(l)
            /\ index' = (index \ Same(index, machine)) \cup {entry}
        BY <2>1, <3>1, <3>3 DEF Register, Save
      <4>2. CASE e \in Same(index, machine)
        <5>1. Moved(l)
          BY <3>1, <4>1, <4>2 DEF New, Matching, Same
        <5>2. PICK f \in Same(index, machine) : disk[f.dir] = Nothing
          BY <3>1, <5>1 DEF Moved
        <5>3. f = e
          BY <1>1, <4>2, <5>2 DEF IndexIsValid, Valid, Same
        <5>4. /\ entry \in index' /\ entry.id = e.id /\ entry.name = e.name
              /\ disk[entry.dir] # Nothing /\ disk[entry.dir].id = e.id
          BY <4>1, <4>2, <5>1 DEF Same, Entry, Moved
        <5>. QED BY <5>2, <5>3, <5>4
      <4>3. CASE e \notin Same(index, machine)
        BY <4>1, <4>3
      <4>. QED BY <4>2, <4>3
    <3>. QED BY <3>2, <3>3
  <2>2. ASSUME NEW l \in Launchers, Forget(l)
        PROVE  Stays(e)
    <3>1. /\ launcher[l].loaded = index
          /\ launcher[l].op \in {"unregister", "delete"}
          /\ launcher[l].pc \notin Idle
      BY <1>1, <2>2 DEF Forget, Alone, IndexIsLoaded, Idle
    <3>2. CASE index' = index
      BY <3>2
    <3>3. CASE index' # index
      <4>1. /\ index' = index \ Named(index, launcher[l].name)
            /\ launcher'[l].pc = "done"
        BY <1>1, <2>2, <3>1, <3>3 DEF Forget, Save, End, TypeOK
      <4>. QED BY <3>1, <4>1 DEF Named
    <3>. QED BY <3>2, <3>3
  <2>3. ASSUME NEW l \in Launchers, LauncherNext(l), ~Register(l), ~Forget(l)
        PROVE  Stays(e)
    <3>1. index' = index
      BY <2>3 DEF LauncherNext, Discover, CheckTarget, StageNew, StageRestored,
         StageFails, Commit, Resolve, RemoveTree, Die
    <3>. QED BY <3>1
  <2>4. ASSUME NEW from \in Directories, NEW to \in Directories,
               Move(from, to) \/ Copy(from, to) \/ StartOrStop(from)
        PROVE  Stays(e)
    <3>1. index' = index
      BY <2>4 DEF Move, Copy, StartOrStop
    <3>. QED BY <3>1
  <2>. QED BY <1>1, <2>1, <2>2, <2>3, <2>4 DEF Next
<1>2. TypeOK /\ IndexIsValid /\ Alone /\ [Next]_vars => [\A e \in index : Stays(e)]_vars
  BY <1>1 DEF vars
<1>. QED
  BY <1>2, RegistryTypeCorrect, IndexIsValidCorrect, AlwaysAlone, PTL
     DEF Spec, RegistrationsStay

\* One command at a time: no second copy of a registered machine is committed.
THEOREM NoSecondCopyWhenSerial ==
    ASSUME Serial
    PROVE  Spec => NoSecondCopy
<1>1. TypeOK /\ Alone /\ [Next]_vars =>
        [\A l \in Launchers :
            launcher[l].pc = "committing" /\ launcher'[l].pc = "registering"
                => \A e \in index : e.id # launcher[l].id]_vars
  BY DEF Alone, IndexIsLoaded, Idle, vars
<1>. QED BY <1>1, RegistryTypeCorrect, AlwaysAlone, PTL DEF Spec, NoSecondCopy

-----------------------------------------------------------------------------
\* The refinement of MachineIndex

\* An entry that a command replaces or forgets is the only one of its kind.
LEMMA SameIsOne ==
    ASSUME Valid(index), NEW machine, NEW e \in Same(index, machine)
    PROVE  Same(index, machine) = {e}
  BY DEF Valid, Same

LEMMA NamedIsOne ==
    ASSUME Valid(index), NEW name, NEW e \in Named(index, name)
    PROVE  Named(index, name) = {e}
  BY DEF Valid, Named

\* What register saves is an entry that is added, or one that follows its
\* machine.
LEMMA RegisterFollows ==
    ASSUME TypeOK, Valid(index), NEW l \in Launchers, Register(l),
           launcher[l] \in Command, launcher[l].loaded = index, index' # index
    PROVE  Index!Next
<1> DEFINE dir == launcher[l].dir
           machine == disk[dir]
<1>1. dir \in Directories
  BY DEF Command
<1>2. /\ Moved(l) \/ New(l)
      /\ index' = (index \ Same(index, machine))
                    \cup {Entry(machine.id, machine.name, dir)}
  BY DEF Register, Save
<1>3. Entry(machine.id, machine.name, dir) = Index!EntryAt(dir)
  BY DEF Entry, Index!EntryAt
<1>4. machine # Nothing
  BY <1>2 DEF Moved, New
<1>5. CASE Moved(l)
  <2>1. PICK e \in Same(index, machine) :
            /\ disk[e.dir] = Nothing
            /\ \A f \in index \ {e} : f.dir # dir
    BY <1>5 DEF Moved
  <2>2. Index!Unused(dir)
    BY <1>4, <2>1 DEF Index!Unused
  <2>3. index' = (index \ {e}) \cup {Index!EntryAt(dir)}
    BY <1>2, <1>3, <2>1, SameIsOne
  <2>4. e \in index /\ Index!Follow(e, dir)
    BY <1>4, <2>1, <2>2, <2>3 DEF Same, Index!Follow
  <2>. QED BY <1>1, <2>4 DEF Index!Next
<1>6. CASE New(l)
  <2>1. /\ Matching(index, machine) = {}
        /\ \A e \in index : e.dir # dir
    BY <1>6 DEF New
  <2>2. \A e \in index : e.id # machine.id /\ e.name # machine.name
    BY <2>1 DEF Matching
  <2>3. index' = index \cup {Index!EntryAt(dir)}
    BY <1>2, <1>3, <2>2 DEF Same
  <2>4. Index!Add(dir)
    BY <1>4, <2>1, <2>2, <2>3 DEF Index!Add, Index!Unused
  <2>. QED BY <1>1, <2>4 DEF Index!Next
<1>. QED BY <1>2, <1>5, <1>6

\* What unregister and delete save lacks one entry.
LEMMA ForgetForgetsOne ==
    ASSUME Valid(index), NEW l \in Launchers, Forget(l),
           launcher[l].loaded = index, index' # index
    PROVE  Index!Next
<1>1. /\ Named(index, launcher[l].name) # {}
      /\ index' = index \ Named(index, launcher[l].name)
  BY DEF Forget, Save
<1>2. PICK e \in index : e \in Named(index, launcher[l].name)
  BY <1>1 DEF Named
<1>3. index' = index \ {e}
  BY <1>1, <1>2, NamedIsOne
<1>. QED BY <1>2, <1>3 DEF Index!Next, Index!Forget

\* One command at a time: the launchers implement an index that follows the
\* machines, entry by entry.
THEOREM IndexFollowsMachinesWhenSerial ==
    ASSUME Serial
    PROVE  Spec => IndexFollowsMachines
<1>1. Init => Index!Init
  BY DEF Init, Index!Init
<1>2. ASSUME TypeOK, IndexIsValid, Alone, [Next]_vars
      PROVE  [Index!Next]_index
  <2>1. SUFFICES ASSUME index' # index PROVE Index!Next
    OBVIOUS
  <2>2. PICK l \in Launchers : Register(l) \/ Forget(l)
    BY <1>2, <2>1 DEF Next, LauncherNext, Discover, CheckTarget, StageNew,
       StageRestored, StageFails, Commit, Resolve, RemoveTree, Die, Move, Copy,
       StartOrStop, vars
  <2>3. launcher[l].pc \notin Idle
    BY <2>2 DEF Register, Forget, Idle
  <2>4. launcher[l] \in Command /\ launcher[l].loaded = index /\ Valid(index)
    BY <1>2, <2>3, Working DEF Alone, IndexIsLoaded, IndexIsValid
  <2>. QED BY <1>2, <2>1, <2>2, <2>4, RegisterFollows, ForgetForgetsOne
<1>. QED
  BY <1>1, <1>2, RegistryTypeCorrect, IndexIsValidCorrect, AlwaysAlone, PTL
     DEF Spec, IndexFollowsMachines, Index!Spec
=============================================================================
