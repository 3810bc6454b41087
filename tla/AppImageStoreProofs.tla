------------------------- MODULE AppImageStoreProofs -------------------------
(***************************************************************************)
(* What TLAPS proves of AppImageStore, for every value of its constants.   *)
(***************************************************************************)
EXTENDS AppImageStore, TLAPS

\* The steps of a rename during which its journal is written.
Transacting == {"verifying", "moving", "moved", "refused", "aborting",
                "settling", "filing", "updating", "confirming", "clearing"}

\* The steps that begin once no rename is pending.
Unpending == {"operating", "preparing"} \cup Saving \cup Removing

ActivePc == Transacting \cup Unpending \cup {"recovering"}

Active(p) == proc[p].pc \in ActivePc

\* What a process r holds in its hands, with the journal j.
Sound(r, j) ==
    /\ r.pc \in Unpending => j = None
    /\ r.pc \in Transacting => j # None /\ r.txn = j
    /\ r.pc = "preparing" => r.txn # None /\ r.own
    /\ r.pc \in {"refused", "aborting"} => r.own
    /\ r.pc \in {"recovering", "operating", "previewed", "chosen"} => ~r.own
    /\ r.pc \in Saving => r.id # None /\ r.after # None
    /\ r.pc \in Removing => r.id # None
    /\ r.pc \in {"previewed", "chosen"} => r.seen # None /\ r.call.op = "relink"

\* Whoever does something holds the lock, and the journal is the one it works
\* on.
Locked ==
    \A p \in Procs : /\ Active(p) <=> lock = p
                     /\ Sound(proc[p], journal)

\* What every process finds of the rename that is pending.
Pending(j) ==
    /\ Preflight(j)
    /\ NotYetMoved(j) \/ AlreadyMoved(j)

\* Where each step of a rename finds the file and the record.
Progress(p) ==
    LET pc == proc[p].pc
        j == proc[p].txn
    IN  /\ pc = "preparing" => Preflight(j)
        /\ pc \in {"preparing", "verifying", "moving"} => NotYetMoved(j)
        /\ pc \in {"moved", "settling", "filing", "updating", "confirming",
                   "clearing"} => AlreadyMoved(j)
        /\ pc \in {"confirming", "clearing"} => records[j.id].target = j.new
        /\ proc[p].own /\ pc \in {"preparing", "verifying", "moving", "moved",
                                  "refused", "aborting"}
                => records[j.id].target = j.old

Undisturbed ==
    ~disturbed => /\ journal # None => Pending(journal)
                  /\ \A p \in Procs : Progress(p)

\* What the disk holds during a rename, and what the processes see.
OnDisk(j) ==
    /\ \/ durable.desktop = desktop
       \/ durable.desktop[j.new] = None /\ desktop = Renamed(durable.desktop, j)
    /\ \/ durable.records = records
       \/ /\ durable.records[j.id] # None
          /\ durable.records[j.id].target = j.old
          /\ records = Retargeted(durable.records, j)

\* A record is not on the disk: its save or removal was cut, or is just being
\* rolled back.
Cut ==
    \/ lock = None /\ torn # "no"
    \/ \E p \in Procs : proc[p].pc = "restoreRecord" /\ Registered(proc[p].id)

\* The disk holds what everyone sees, or its journal makes up for it.
Explained ==
    /\ durable.journal = journal
    /\ journal = None => /\ durable.desktop = desktop
                         /\ durable.records = records \/ Cut
    /\ journal # None => OnDisk(journal)

\* Only the first or the last write of the journal j is not on the disk, and
\* with or without it all is well.
Leftover(j) ==
    /\ Pending(j) /\ desktop[records[j.id].target] = j.file
    /\ \/ journal = j /\ durable.journal = None
       \/ journal = None /\ durable.journal = j
    /\ durable.desktop = desktop /\ durable.records = records

\* What each step of a rename has made durable.
Flushed(p) ==
    LET pc == proc[p].pc
    IN  /\ pc \in {"filing", "updating", "confirming", "clearing"}
                => durable.desktop = desktop
        /\ pc \in {"confirming", "clearing"} => durable.records = records

\* The disk, as long as nothing has gone on from a write that is not on it.
Stored ==
    ~disturbed /\ ~unsure =>
        /\ \/ Explained
           \/ lock = None /\ \E j \in Journal : Leftover(j)
        /\ \A p \in Procs : Flushed(p)

\* i is being saved, removed.
Saved(i) == \E p \in Procs : proc[p].pc \in Saving /\ proc[p].id = i

Removed(i) == \E p \in Procs : proc[p].pc \in Removing /\ proc[p].id = i

\* The entries of i are those that its record asks for.
Follows(i) ==
    \A r \in {records, durable.records} :
        /\ torn # "save" => /\ i \in launchers => i \in InMenu(r)
                            /\ i \in shortcuts => i \in OnScreen(r)
        /\ torn = "no" /\ ~Removed(i) =>
                            /\ i \in InMenu(r) => i \in launchers
                            /\ i \in OnScreen(r) => i \in shortcuts

\* What the projection that p saves has got to.
Projecting(p) ==
    LET pc == proc[p].pc
        i == proc[p].id
        before == proc[p].before
        after == proc[p].after
        old == before.record
    IN  /\ torn # "save" =>
            /\ before.launcher => /\ old # None /\ old.applications
                                  /\ i \in InMenu(durable.records)
            /\ before.shortcut => /\ old # None /\ old.desktop
                                  /\ i \in OnScreen(durable.records)
        /\ torn = "no" =>
            /\ (old # None /\ old.applications) => before.launcher
            /\ i \in InMenu(durable.records) => before.launcher
            /\ (old # None /\ old.desktop) => before.shortcut
            /\ i \in OnScreen(durable.records) => before.shortcut
        /\ pc \in {"shortcut", "saving"} =>
            (i \in launchers <=> after.applications)
        /\ pc = "saving" => (i \in shortcuts <=> after.desktop)
        /\ pc \in {"launcher", "shortcut", "saving", "restoreShortcut",
                   "restoreLauncher"} => records[i] = old
        /\ pc = "restoreLauncher" => (i \in shortcuts <=> before.shortcut)

Entries ==
    /\ \A i \in Ids : ~Saved(i) => Follows(i)
    /\ \A p \in Procs : proc[p].pc \in Saving => Projecting(p)
    /\ \A p \in Procs :
        /\ proc[p].pc \in Removing => Registered(proc[p].id)
        /\ proc[p].pc = "dropShortcut" => proc[p].id \notin launchers
        /\ proc[p].pc = "dropRecord" =>
                proc[p].id \notin launchers /\ proc[p].id \notin shortcuts

-----------------------------------------------------------------------------
\* Types

\* What a call carries.
LEMMA CallType ==
    ASSUME NEW c \in Calls
    PROVE  /\ c.op = "rename" => /\ c.old \in Names /\ c.new \in Names
                                 /\ c.old # c.new
           /\ c.op = "register" => c.old \in Names
           /\ c.op \in {"flag", "resave"} => c.id \in Ids
           /\ c.op = "relink" => c.id \in Ids /\ c.new \in Names
           /\ c.entry \in {"applications", "desktop"} /\ c.on \in BOOLEAN
BY DEF Calls

LEMMA RestingType == Resting \in Process
<1>1. Open \in Calls
  BY DEF Calls, Open
<1>. QED
  BY <1>1 DEF Resting, Process, Pc, NothingBefore

\* A step of p that only moves it on, or that lets go of the lock.
LEMMA GotoType ==
    ASSUME NEW p \in Procs, NEW pc \in Pc, proc \in [Procs -> Process],
           lock \in Procs \cup {None}, Goto(p, pc)
    PROVE  proc' \in [Procs -> Process] /\ lock' \in Procs \cup {None}
<1>1. [proc[p] EXCEPT !.pc = pc] \in Process
  BY DEF Process
<1>. QED
  BY <1>1 DEF Goto

LEMMA ReturnType ==
    ASSUME NEW p \in Procs, proc \in [Procs -> Process], Return(p)
    PROVE  proc' \in [Procs -> Process] /\ lock' \in Procs \cup {None}
BY RestingType DEF Return

LEMMA MishapType ==
    ASSUME budget \in [command : Nat, mishap : Nat], Mishap
    PROVE  budget' \in [command : Nat, mishap : Nat]
BY DEF Mishap

LEMMA ProjectType ==
    ASSUME TypeOK, NEW p \in Procs, NEW i \in Ids, NEW r \in Record,
           Project(p, i, r)
    PROVE  proc' \in [Procs -> Process] /\ lock' \in Procs \cup {None}
<1> DEFINE was == [launcher |-> i \in launchers, shortcut |-> i \in shortcuts,
                   record |-> records[i]]
           next == [proc[p] EXCEPT !.pc = "launcher", !.id = i, !.after = r,
                                   !.before = was]
<1>a. was \in [launcher : BOOLEAN, shortcut : BOOLEAN,
               record : Record \cup {None}]
  BY DEF TypeOK
<1>1. next \in Process
  <2>1. proc[p] \in Process
    BY DEF TypeOK
  <2>. HIDE DEF was
  <2>. QED
    BY <1>a, <2>1 DEF Process, Pc
<1>2. proc' = [proc EXCEPT ![p] = next] /\ lock' = lock
  BY DEF Project
<1> HIDE DEF next
<1>. QED
  BY <1>1, <1>2 DEF TypeOK

LEMMA FlaggedType ==
    ASSUME NEW r \in Record, NEW e \in {"applications", "desktop"},
           NEW on \in BOOLEAN
    PROVE  Flagged(r, e, on) \in Record
BY DEF Flagged, Record

LEMMA RenamedType ==
    ASSUME NEW d \in [Names -> Files \cup {None}], NEW j, j.old \in Names
    PROVE  Renamed(d, j) \in [Names -> Files \cup {None}]
BY DEF Renamed

LEMMA RetargetedType ==
    ASSUME NEW r \in [Ids -> Record \cup {None}], NEW j \in Journal,
           r[j.id] # None
    PROVE  /\ Retargeted(r, j) \in [Ids -> Record \cup {None}]
           /\ Retargeted(r, j)[j.id] \in Record
           /\ Retargeted(r, j)[j.id].target = j.new
           /\ Retargeted(r, j)[j.id].applications = r[j.id].applications
           /\ Retargeted(r, j)[j.id].desktop = r[j.id].desktop
           /\ \A k \in Ids \ {j.id} : Retargeted(r, j)[k] = r[k]
<1>1. r[j.id] \in Record
  BY DEF Journal
<1>. QED
  BY <1>1 DEF Retargeted, Journal, Record

LEMMA RecordType ==
    ASSUME TypeOK, NEW i \in Ids, NEW r \in Record \cup {None}
    PROVE  /\ WriteRecord(i, r) =>
                /\ records' \in [Ids -> Record \cup {None}]
                /\ durable' \in [desktop : [Names -> Files \cup {None}],
                                 records : [Ids -> Record \cup {None}],
                                 journal : Journal \cup {None}]
           /\ WriteRecordFails(i, r) =>
                /\ records' \in [Ids -> Record \cup {None}]
                /\ durable' \in [desktop : [Names -> Files \cup {None}],
                                 records : [Ids -> Record \cup {None}],
                                 journal : Journal \cup {None}]
                /\ budget' \in [command : Nat, mishap : Nat]
BY MishapType DEF TypeOK, WriteRecord, WriteRecordFails

LEMMA JournalType ==
    ASSUME TypeOK, NEW j \in Journal \cup {None}
    PROVE  /\ WriteJournal(j) =>
                /\ journal' \in Journal \cup {None}
                /\ durable' \in [desktop : [Names -> Files \cup {None}],
                                 records : [Ids -> Record \cup {None}],
                                 journal : Journal \cup {None}]
           /\ WriteJournalFails(j) =>
                /\ journal' \in Journal \cup {None}
                /\ durable' \in [desktop : [Names -> Files \cup {None}],
                                 records : [Ids -> Record \cup {None}],
                                 journal : Journal \cup {None}]
                /\ budget' \in [command : Nat, mishap : Nat]
BY MishapType DEF TypeOK, WriteJournal, WriteJournalFails

LEMMA SyncType ==
    ASSUME TypeOK, SyncDesktop
    PROVE  durable' \in [desktop : [Names -> Files \cup {None}],
                         records : [Ids -> Record \cup {None}],
                         journal : Journal \cup {None}]
BY DEF TypeOK, SyncDesktop

LEMMA ToggledType ==
    ASSUME NEW s \in SUBSET Ids, NEW i \in Ids, NEW in
    PROVE  Toggled(s, i, in) \in SUBSET Ids
BY DEF Toggled

LEMMA GoOnType ==
    ASSUME TypeOK, GoOn
    PROVE  unsure' \in BOOLEAN /\ disturbed' = disturbed /\ torn' = torn
BY DEF GoOn

\* What a killed process leaves.
LEMMA CrashType ==
    ASSUME TypeOK, Locked, NEW p \in Procs, Crash(p)
    PROVE  /\ desktop' \in [Names -> Files \cup {None}]
           /\ records' \in [Ids -> Record \cup {None}]
           /\ journal' \in Journal \cup {None}
           /\ launchers' \subseteq Ids /\ shortcuts' \subseteq Ids
           /\ unsure' \in BOOLEAN
<1>. USE DEF disk, entries, history, doubts
<1>1. /\ proc[p] \in Process /\ proc[p].txn \in Journal \cup {None}
      /\ proc[p].call \in Calls /\ Sound(proc[p], journal)
      /\ proc[p].after \in Record \cup {None}
      /\ proc[p].before.record \in Record \cup {None}
  BY DEF TypeOK, Process, Locked
<1>2. CASE UNCHANGED <<desktop, records, journal, entries, unsure>>
  BY <1>2 DEF TypeOK
<1>3. CASE JournalHalfWritten(p)
  BY <1>1, <1>3 DEF JournalHalfWritten, TypeOK
<1>4. CASE RecordHalfWritten(p)
  <2>1. records \in [Ids -> Record \cup {None}]
    BY DEF TypeOK
  <2>2. CASE At(p, "updating") /\ Retargetable(proc[p].txn)
             /\ records' = Retargeted(records, proc[p].txn)
    <3>1. proc[p].txn \in Journal
      BY <1>1, <2>2, NoneIsNothing DEF At, Sound, Transacting
    <3>2. records' \in [Ids -> Record \cup {None}]
      BY <2>1, <2>2, <3>1, RetargetedType DEF Retargetable, Registered
    <3>. QED
      BY <1>4, <3>2 DEF RecordHalfWritten, TypeOK
  <2>3. ASSUME NEW r \in Record \cup {None},
               records' = [records EXCEPT ![proc[p].id] = r]
        PROVE  records' \in [Ids -> Record \cup {None}]
    BY <2>1, <2>3
  <2>4. CASE ~At(p, "updating")
    <3>1. records' \in [Ids -> Record \cup {None}]
      BY <1>1, <1>4, <2>3, <2>4 DEF RecordHalfWritten
    <3>. QED
      BY <1>4, <3>1 DEF RecordHalfWritten, TypeOK
  <2>. QED
    BY <1>4, <2>2, <2>4 DEF RecordHalfWritten, At
<1>5. CASE EntryHalfWritten(p)
  <2>1. proc[p].id \in Ids
    BY <1>1, <1>5 DEF EntryHalfWritten, At, Sound, Saving, Removing, Process
  <2>2. \A in : /\ Toggled(launchers, proc[p].id, in) \subseteq Ids
                /\ Toggled(shortcuts, proc[p].id, in) \subseteq Ids
    BY <2>1 DEF Toggled, TypeOK
  <2>. QED
    BY <1>5, <2>2 DEF EntryHalfWritten, TypeOK
<1>6. CASE PlainHalfRenamed(p)
  <2>1. proc[p].call.old \in Names
    BY <1>1, <1>6, CallType DEF PlainHalfRenamed, Operating
  <2>. QED
    BY <1>6, <2>1, RenamedType DEF PlainHalfRenamed, NoReplaceRename, TypeOK
<1>. QED
  BY <1>2, <1>3, <1>4, <1>5, <1>6 DEF Crash

\* One step keeps the types.
LEMMA TypeStep ==
    ASSUME TypeOK, Locked, [Next]_vars
    PROVE  TypeOK'
<1>. USE DEF disk, entries, history, doubts
<1>1. CASE UNCHANGED vars
  BY <1>1 DEF TypeOK, vars
<1>2. CASE PowerLoss
  <2>1. TornBy(lock) \in {"no", "removal", "save"}
    BY DEF TornBy, TypeOK
  <2>2. proc' \in [Procs -> Process]
    BY <1>2, RestingType DEF PowerLoss
  <2>. QED
    BY <1>2, <2>1, <2>2, MishapType DEF PowerLoss, TypeOK
<1>3. CASE Outside
  <2>1. PICK n \in Names, f \in Files \cup {None} :
            \/ desktop' = [desktop EXCEPT ![n] = f]
            \/ \E m \in Names \ {n} :
                    desktop' = [desktop EXCEPT ![n] = f, ![m] = None]
    BY <1>3 DEF Outside
  <2>2. desktop' \in [Names -> Files \cup {None}]
    BY <2>1 DEF TypeOK
  <2>3. disturbed' \in BOOLEAN
    BY <1>3 DEF Outside
  <2>. QED
    BY <1>3, <2>2, <2>3, MishapType DEF Outside, TypeOK
<1>4. ASSUME NEW p \in Procs, Crash(p) PROVE TypeOK'
  <2>1. TornBy(p) \in {"no", "removal", "save"}
    BY DEF TornBy, TypeOK
  <2>. QED
    BY <1>4, <2>1, ReturnType, MishapType, CrashType DEF Crash, TypeOK
<1>5. ASSUME NEW p \in Procs, Store(p) PROVE TypeOK'
  <2>0. proc[p] \in Process /\ proc[p].call \in Calls
    BY DEF TypeOK, Process
  <2>1. CASE Begin(p)
    <3>1. PICK call \in Calls :
            proc' = [proc EXCEPT ![p] =
                        [Resting EXCEPT !.pc = "recovering", !.call = call]]
      BY <2>1 DEF Begin
    <3>2. [Resting EXCEPT !.pc = "recovering", !.call = call] \in Process
      BY RestingType DEF Process, Pc
    <3>3. proc' \in [Procs -> Process]
      BY <3>1, <3>2 DEF TypeOK
    <3>. QED
      BY <2>1, <3>3, GoOnType DEF Begin, TypeOK
  <2>2. CASE NothingPending(p)
    BY <2>2, GotoType DEF NothingPending, TypeOK, Pc
  <2>3. CASE RecoverPending(p)
    <3>1. PICK pc \in {"verifying", "settling"} :
            proc' = [proc EXCEPT ![p] = [@ EXCEPT !.pc = pc, !.txn = journal]]
      BY <2>3 DEF RecoverPending
    <3>2. [proc[p] EXCEPT !.pc = pc, !.txn = journal] \in Process
      BY <2>0 DEF Process, Pc, TypeOK
    <3>3. proc' \in [Procs -> Process]
      BY <3>1, <3>2 DEF TypeOK
    <3>. QED
      BY <2>3, <3>3 DEF RecoverPending, TypeOK
  <2>4. CASE Ambiguous(p)
    BY <2>4, ReturnType DEF Ambiguous, TypeOK
  <2>5. CASE Transact(p)
    <3>0. proc[p].pc \in Transacting \cup {"preparing"} => proc[p].txn \in Journal
      BY <2>0 DEF Locked, Sound, Process, Unpending
    <3>1. CASE Verify(p)
      BY <3>1, GotoType DEF Verify, TypeOK, Pc
    <3>2. CASE Move(p)
      <4>1. proc[p].txn.old \in Names
        BY <3>0, <3>2 DEF Move, At, Transacting, Journal
      <4>2. desktop' \in [Names -> Files \cup {None}]
        BY <3>2, <4>1, RenamedType DEF Move, NoReplaceRename, TypeOK
      <4>. QED
        BY <3>2, <4>2, GotoType DEF Move, TypeOK, Pc
    <3>3. CASE SyncMove(p)
      <4>1. (IF proc[p].own THEN "filing" ELSE "settling") \in Pc
        BY DEF Pc
      <4>. QED
        BY <3>3, <4>1, GotoType, SyncType DEF SyncMove, TypeOK
    <3>4. CASE MoveFails(p)
      <4>1. (IF Collision(p) THEN "refused" ELSE "aborting") \in Pc
        BY DEF Pc
      <4>2. proc' \in [Procs -> Process] /\ lock' \in Procs \cup {None}
        BY <3>4, <4>1, GotoType, ReturnType DEF MoveFails, TypeOK
      <4>. QED
        BY <3>4, <4>2, SyncType, MishapType DEF MoveFails, TypeOK
    <3>5. CASE Abort(p)
      BY <3>5, ReturnType, JournalType DEF Abort, TypeOK
    <3>6. CASE Settle(p)
      BY <3>6, GotoType, ReturnType, SyncType, MishapType
         DEF Settle, TypeOK, Pc
    <3>7. CASE WritePhase(p)
      <4>1. proc[p].txn \in Journal \cup {None}
        BY <2>0 DEF Process
      <4>2. At(p, "preparing") \/ At(p, "filing") \/ At(p, "confirming")
        BY <3>7 DEF WritePhase
      <4>3. (CASE At(p, "preparing")  -> "verifying"
               [] At(p, "filing")     -> "updating"
               [] At(p, "confirming") -> "clearing") \in Pc
        BY <4>2 DEF Pc
      <4>4. proc' \in [Procs -> Process] /\ lock' \in Procs \cup {None}
        BY <3>7, <4>3, GotoType, ReturnType DEF WritePhase, TypeOK
      <4>. QED
        BY <3>7, <4>1, <4>4, JournalType DEF WritePhase, TypeOK
    <3>8. CASE UpdateRecord(p)
      <4>1. proc[p].txn \in Journal /\ proc[p].txn.id \in Ids
        BY <3>0, <3>8 DEF UpdateRecord, At, Transacting, Journal
      <4>2. Registered(proc[p].txn.id) =>
                Retargeted(records, proc[p].txn)[proc[p].txn.id] \in Record
        BY <4>1, RetargetedType DEF Registered, TypeOK
      <4>3. proc' \in [Procs -> Process] /\ lock' \in Procs \cup {None}
        BY <3>8, GotoType, ReturnType DEF UpdateRecord, TypeOK, Pc
      <4>. QED
        BY <3>8, <4>1, <4>2, <4>3, RecordType
           DEF UpdateRecord, Retargetable, TypeOK
    <3>9. CASE ClearJournal(p)
      <4>1. [proc[p] EXCEPT !.pc = "operating", !.txn = None] \in Process
        BY <2>0 DEF Process, Pc
      <4>2. proc' \in [Procs -> Process] /\ lock' \in Procs \cup {None}
        BY <3>9, <4>1, ReturnType DEF ClearJournal, TypeOK
      <4>. QED
        BY <3>9, <4>2, JournalType DEF ClearJournal, TypeOK
    <3>. QED
      BY <2>5, <3>1, <3>2, <3>3, <3>4, <3>5, <3>6, <3>7, <3>8, <3>9
         DEF Transact
  <2>6. CASE Serve(p)
    <3>1. CASE ReadOnly(p)
      BY <3>1, ReturnType DEF ReadOnly, TypeOK
    <3>2. CASE RenamePlain(p)
      <4>1. desktop' \in [Names -> Files \cup {None}]
        BY <2>0, <3>2, CallType, RenamedType
           DEF RenamePlain, Operating, NoReplaceRename, TypeOK
      <4>. QED
        BY <3>2, <4>1, ReturnType, MishapType DEF RenamePlain, TypeOK
    <3>3. CASE RenameRegistered(p)
      <4>1. PICK i \in Ids :
              /\ Renameable(i, proc[p].call.old, proc[p].call.new)
              /\ proc' = [proc EXCEPT ![p] = [@ EXCEPT
                      !.pc = "preparing", !.own = TRUE,
                      !.txn = [id |-> i, old |-> proc[p].call.old,
                               new |-> proc[p].call.new,
                               file |-> desktop[proc[p].call.old]]]]
        BY <3>3 DEF RenameRegistered
      <4>2. [id |-> i, old |-> proc[p].call.old, new |-> proc[p].call.new,
             file |-> desktop[proc[p].call.old]] \in Journal
        BY <2>0, <3>3, <4>1, CallType
           DEF RenameRegistered, Operating, Renameable, Journal, TypeOK
      <4>3. proc' \in [Procs -> Process]
        BY <2>0, <4>1, <4>2 DEF Process, Pc, TypeOK
      <4>. QED
        BY <3>3, <4>3 DEF RenameRegistered, TypeOK
    <3>4. CASE RenameRefused(p)
      BY <3>4, ReturnType DEF RenameRefused, TypeOK
    <3>5. CASE Register(p)
      <4>1. /\ proc[p].call.old \in Names
            /\ proc[p].call.entry \in {"applications", "desktop"}
        BY <2>0, <3>5, CallType DEF Register, Operating
      <4>2. \A i \in Naming(proc[p].call.old) :
                Flagged(records[i], proc[p].call.entry, TRUE) \in Record
        BY <4>1, FlaggedType DEF Naming, Registered, TypeOK
      <4>3. Flagged(Unshown(proc[p].call.old), proc[p].call.entry, TRUE)
                \in Record
        BY <4>1, FlaggedType DEF Unshown, Record
      <4>4. Naming(proc[p].call.old) \subseteq Ids /\ fresh \subseteq Ids
        BY DEF Naming, TypeOK
      <4>5. /\ proc' \in [Procs -> Process] /\ lock' \in Procs \cup {None}
            /\ fresh' \subseteq Ids
        BY <3>5, <4>2, <4>3, <4>4, ProjectType DEF Register
      <4>. QED
        BY <3>5, <4>5 DEF Register, TypeOK
    <3>6. CASE SetFlag(p)
      <4>1. /\ proc[p].call.id \in Ids /\ records[proc[p].call.id] \in Record
            /\ proc[p].call.entry \in {"applications", "desktop"}
            /\ proc[p].call.on \in BOOLEAN
        BY <2>0, <3>6, CallType DEF SetFlag, Operating, Registered, TypeOK
      <4>2. Flagged(records[proc[p].call.id], proc[p].call.entry,
                    proc[p].call.on) \in Record
        BY <4>1, FlaggedType
      <4>3. [proc[p] EXCEPT !.pc = "dropLauncher", !.id = proc[p].call.id]
                \in Process
        BY <2>0, <4>1 DEF Process, Pc
      <4>4. proc' \in [Procs -> Process] /\ lock' \in Procs \cup {None}
        BY <3>6, <4>1, <4>2, <4>3, ProjectType DEF SetFlag, TypeOK
      <4>. QED
        BY <3>6, <4>4 DEF SetFlag, TypeOK
    <3>7. CASE Resave(p)
      <4>1. proc[p].call.id \in Ids /\ records[proc[p].call.id] \in Record
        BY <2>0, <3>7, CallType DEF Resave, Operating, Registered, TypeOK
      <4>2. proc' \in [Procs -> Process] /\ lock' \in Procs \cup {None}
        BY <3>7, <4>1, ProjectType DEF Resave
      <4>. QED
        BY <3>7, <4>2 DEF Resave, TypeOK
    <3>8. CASE PreviewRelink(p)
      <4>1. proc[p].call.id \in Ids /\ records[proc[p].call.id] \in Record
        BY <2>0, <3>8, CallType DEF PreviewRelink, Operating, Registered, TypeOK
      <4>2. [proc[p] EXCEPT !.pc = "previewed",
                            !.seen = records[proc[p].call.id]] \in Process
        BY <2>0, <4>1 DEF Process, Pc
      <4>3. proc' \in [Procs -> Process]
        BY <3>8, <4>2 DEF PreviewRelink, TypeOK
      <4>. QED
        BY <3>8, <4>3 DEF PreviewRelink, TypeOK
    <3>9. CASE ChooseCandidate(p)
      BY <3>9, GotoType, RestingType DEF ChooseCandidate, TypeOK, Pc
    <3>10. CASE BeginCommit(p)
      <4>1. [proc[p] EXCEPT !.pc = "recovering"] \in Process
        BY <2>0 DEF Process, Pc
      <4>2. proc' \in [Procs -> Process]
        BY <3>10, <4>1 DEF BeginCommit, TypeOK
      <4>. QED
        BY <3>10, <4>2, GoOnType DEF BeginCommit, TypeOK
    <3>11. CASE CommitRelink(p)
      <4>1. /\ proc[p].call.id \in Ids /\ proc[p].call.new \in Names
            /\ proc[p].seen \in Record
        BY <2>0, <3>11, CallType DEF CommitRelink, Operating, Process
      <4>2. [proc[p].seen EXCEPT !.target = proc[p].call.new] \in Record
        BY <4>1 DEF Record
      <4>3. proc' \in [Procs -> Process] /\ lock' \in Procs \cup {None}
        BY <3>11, <4>1, <4>2, ProjectType DEF CommitRelink
      <4>. QED
        BY <3>11, <4>3 DEF CommitRelink, TypeOK
    <3>12. CASE CallFails(p)
      BY <3>12, ReturnType DEF CallFails, TypeOK
    <3>. QED
      BY <2>6, <3>1, <3>2, <3>3, <3>4, <3>5, <3>6, <3>7, <3>8, <3>9, <3>10,
         <3>11, <3>12 DEF Serve
  <2>7. CASE SaveOrRemove(p)
    <3>0. /\ proc[p].pc \in Saving \cup Removing => proc[p].id \in Ids
          /\ proc[p].after \in Record \cup {None}
          /\ proc[p].before.record \in Record \cup {None}
      BY <2>0 DEF Locked, Sound, Process
    <3>. DEFINE i == proc[p].id
    <3>a. SaveOrRemove(p) => i \in Ids
      BY <3>0 DEF SaveOrRemove, Saving, Removing, At, WriteLauncher,
         WriteShortcut, SaveRecord, RestoreRecord, RestoreShortcut,
         RestoreLauncher, DropLauncher, DropShortcut, DropRecord
    <3>b. i \in Ids
      BY <2>7, <3>a
    <3>c. \A in : /\ Toggled(launchers, i, in) \subseteq Ids
                  /\ Toggled(shortcuts, i, in) \subseteq Ids
      BY <3>b DEF Toggled, TypeOK
    <3>d. \A in : PutShortcut(i, in) =>
                /\ shortcuts' \subseteq Ids
                /\ durable' \in [desktop : [Names -> Files \cup {None}],
                                 records : [Ids -> Record \cup {None}],
                                 journal : Journal \cup {None}]
      BY <3>c, SyncType DEF PutShortcut, TypeOK
    <3>. HIDE DEF i
    <3>1. CASE WriteLauncher(p)
      BY <3>1, <3>c, GotoType, MishapType DEF WriteLauncher, TypeOK, Pc, i
    <3>2. CASE WriteShortcut(p)
      BY <3>2, <3>c, <3>d, GotoType, MishapType
         DEF WriteShortcut, TypeOK, Pc, i
    <3>3. CASE SaveRecord(p)
      <4>1. proc' \in [Procs -> Process] /\ lock' \in Procs \cup {None}
        BY <3>3, GotoType, ReturnType DEF SaveRecord, TypeOK, Pc
      <4>. QED
        BY <3>0, <3>3, <3>b, <4>1, RecordType DEF SaveRecord, TypeOK, i
    <3>4. CASE RestoreRecord(p)
      <4>1. proc' \in [Procs -> Process] /\ lock' \in Procs \cup {None}
        BY <3>4, GotoType, ReturnType DEF RestoreRecord, TypeOK, Pc
      <4>. QED
        BY <3>0, <3>4, <3>b, <4>1, RecordType DEF RestoreRecord, TypeOK, i
    <3>5. CASE RestoreShortcut(p)
      <4>1. proc' \in [Procs -> Process] /\ lock' \in Procs \cup {None}
        BY <3>5, GotoType, ReturnType DEF RestoreShortcut, TypeOK, Pc
      <4>. QED
        BY <3>5, <3>c, <3>d, <4>1, MishapType DEF RestoreShortcut, TypeOK, i
    <3>6. CASE RestoreLauncher(p)
      BY <3>6, <3>c, ReturnType, MishapType DEF RestoreLauncher, TypeOK, i
    <3>7. CASE DropLauncher(p)
      BY <3>7, GotoType, ReturnType, MishapType
         DEF DropLauncher, CutRemoval, TypeOK, Pc
    <3>8. CASE DropShortcut(p)
      <4>1. proc' \in [Procs -> Process] /\ lock' \in Procs \cup {None}
        BY <3>8, GotoType, ReturnType DEF DropShortcut, CutRemoval, TypeOK, Pc
      <4>. QED
        BY <3>8, <3>d, <4>1, MishapType DEF DropShortcut, CutRemoval, TypeOK, i
    <3>9. CASE DropRecord(p)
      <4>1. proc' \in [Procs -> Process] /\ lock' \in Procs \cup {None}
        BY <3>9, ReturnType DEF DropRecord, CutRemoval, TypeOK
      <4>. QED
        BY <3>9, <3>b, <4>1, RecordType, MishapType
           DEF DropRecord, CutRemoval, TypeOK, i
    <3>. QED
      BY <2>7, <3>1, <3>2, <3>3, <3>4, <3>5, <3>6, <3>7, <3>8, <3>9
         DEF SaveOrRemove
  <2>. QED
    BY <1>5, <2>1, <2>2, <2>3, <2>4, <2>5, <2>6, <2>7 DEF Store
<1>. QED
  BY <1>1, <1>2, <1>3, <1>4, <1>5 DEF Next

\* Only the process that has the lock moves, whatever else it does.
LEMMA Moves ==
    ASSUME TypeOK, Locked, NEW p \in Procs, lock \in {p, None},
           \A q \in Procs \ {p} : proc'[q] = proc[q],
           lock' = IF Active(p)' THEN p ELSE None,
           Sound(proc[p], journal)'
    PROVE  Locked'
<1>1. ASSUME NEW q \in Procs \ {p}
      PROVE  (Active(q) <=> lock = q)' /\ Sound(proc[q], journal)'
  <2>1. proc'[q] = proc[q] /\ ~Active(q)
    BY NoneIsNothing DEF Locked, TypeOK
  <2>2. lock' # q
    BY NoneIsNothing
  <2>. QED
    BY <2>1, <2>2 DEF Locked, Sound, Active, ActivePc
<1>. QED
  BY <1>1, NoneIsNothing DEF Locked

LEMMA RestingSound ==
    ASSUME NEW j
    PROVE  Sound(Resting, j) /\ Resting.pc \notin ActivePc
BY DEF Sound, Resting, ActivePc, Transacting, Unpending, Saving, Removing

LEMMA ReturnLocked ==
    ASSUME TypeOK, Locked, NEW p \in Procs, Active(p), Return(p)
    PROVE  Locked'
<1>1. lock = p
  BY DEF Locked
<1>2. proc'[p] = Resting /\ \A q \in Procs \ {p} : proc'[q] = proc[q]
  BY DEF Return, TypeOK
<1>3. ~Active(p)' /\ Sound(proc[p], journal)'
  BY <1>2, RestingSound DEF Active, Sound
<1>4. lock' = None
  BY DEF Return
<1>. QED
  BY <1>1, <1>2, <1>3, <1>4, Moves

\* p goes on under the lock, with the rest of what it holds as it was.
LEMMA GotoLocked ==
    ASSUME TypeOK, Locked, NEW p \in Procs, Active(p), NEW pc \in ActivePc,
           Goto(p, pc),
           pc \in Unpending => journal' = None,
           pc \in Transacting => journal' # None /\ proc[p].txn = journal',
           pc \notin {"preparing", "recovering"},
           pc = "operating" => proc[p].pc = "recovering",
           pc \in {"refused", "aborting"} => proc[p].own,
           pc \in Saving => proc[p].pc \in Saving,
           pc \in Removing => proc[p].pc \in Removing
    PROVE  Locked'
<1>1. lock = p
  BY DEF Locked
<1>2. /\ proc'[p] = [proc[p] EXCEPT !.pc = pc]
      /\ \A q \in Procs \ {p} : proc'[q] = proc[q]
  BY DEF Goto, TypeOK
<1>3. /\ proc'[p].pc = pc /\ proc'[p].txn = proc[p].txn
      /\ proc'[p].id = proc[p].id /\ proc'[p].after = proc[p].after
      /\ proc'[p].own = proc[p].own
  BY <1>2 DEF TypeOK, Process
<1>4. pc \notin {"previewed", "chosen"}
  BY DEF ActivePc, Transacting, Unpending, Saving, Removing
<1>5. Sound(proc[p], journal)'
  BY <1>3, <1>4 DEF Sound, Locked
<1>6. Active(p)' /\ lock' = p
  BY <1>1, <1>3 DEF Active, Goto
<1>. QED
  BY <1>1, <1>2, <1>5, <1>6, Moves

LEMMA ProjectLocked ==
    ASSUME TypeOK, Locked, NEW p \in Procs, At(p, "operating"),
           NEW i \in Ids, NEW record \in Record, Project(p, i, record),
           journal' = journal
    PROVE  Locked'
<1>1. lock = p /\ journal = None /\ lock' = lock
  BY DEF Locked, Active, ActivePc, Sound, At, Unpending, Project
<1>2. \A q \in Procs \ {p} : proc'[q] = proc[q]
  BY DEF Project, TypeOK
<1>3. proc'[p].pc = "launcher" /\ proc'[p].id = i /\ proc'[p].after = record
  BY DEF Project, TypeOK, Process
<1>4. record # None /\ i # None
  BY NoneIsNothing
<1>5. Sound(proc[p], journal)'
  BY <1>1, <1>3, <1>4 DEF Sound, Transacting, Unpending, Saving, Removing
<1>6. Active(p)'
  BY <1>3 DEF Active, ActivePc, Unpending, Saving
<1>. QED
  BY <1>1, <1>2, <1>5, <1>6, Moves

\* One step keeps the lock with whoever does something.
LEMMA LockedStep ==
    ASSUME TypeOK, Locked, [Next]_vars
    PROVE  Locked'
<1>. USE DEF disk, entries, history, doubts
<1>1. CASE UNCHANGED vars
  BY <1>1 DEF Locked, Sound, Active, vars
<1>2. CASE PowerLoss
  <2>1. \A p \in Procs : proc'[p] = Resting
    BY <1>2 DEF PowerLoss
  <2>2. \A p \in Procs : ~Active(p)' /\ Sound(proc[p], journal)'
    BY <2>1, RestingSound DEF Active, Sound
  <2>3. lock' = None
    BY <1>2 DEF PowerLoss
  <2>. QED
    BY <2>2, <2>3, NoneIsNothing DEF Locked
<1>3. CASE Outside
  BY <1>3 DEF Outside, Locked, Sound, Active
<1>4. ASSUME NEW p \in Procs, Crash(p) PROVE Locked'
  BY <1>4, ReturnLocked DEF Crash, Locked
<1>5. ASSUME NEW p \in Procs, Store(p) PROVE Locked'
  <2>. USE DEF Active, ActivePc, Transacting, Unpending, Saving, Removing, At
  <2>0. proc[p] \in Process /\ Sound(proc[p], journal)
    BY DEF TypeOK, Locked
  <2>1. CASE Begin(p)
    <3>1. PICK call \in Calls :
            proc' = [proc EXCEPT ![p] =
                        [Resting EXCEPT !.pc = "recovering", !.call = call]]
      BY <2>1 DEF Begin
    <3>2. /\ proc'[p].pc = "recovering" /\ ~proc'[p].own
          /\ \A q \in Procs \ {p} : proc'[q] = proc[q]
      BY <3>1 DEF TypeOK, Resting
    <3>. QED
      BY <2>1, <3>2, Moves DEF Begin, Sound
  <2>2. CASE NothingPending(p)
    BY <2>2, GotoLocked DEF NothingPending
  <2>3. CASE RecoverPending(p)
    <3>1. PICK pc \in {"verifying", "settling"} :
            proc' = [proc EXCEPT ![p] = [@ EXCEPT !.pc = pc, !.txn = journal]]
      BY <2>3 DEF RecoverPending
    <3>2. /\ proc'[p].pc = pc /\ proc'[p].txn = journal
          /\ \A q \in Procs \ {p} : proc'[q] = proc[q]
      BY <2>0, <3>1 DEF TypeOK, Process
    <3>3. lock = p
      BY <2>3 DEF RecoverPending, Locked
    <3>. QED
      BY <2>3, <3>2, <3>3, Moves DEF RecoverPending, Sound
  <2>4. CASE Ambiguous(p)
    BY <2>4, ReturnLocked DEF Ambiguous
  <2>5. CASE Transact(p)
    <3>1. CASE Verify(p)
      BY <2>0, <3>1, GotoLocked DEF Verify, Sound
    <3>2. CASE Move(p)
      BY <2>0, <3>2, GotoLocked DEF Move, Sound
    <3>3. CASE SyncMove(p)
      <4>1. PICK pc \in {"filing", "settling"} : Goto(p, pc)
        BY <3>3 DEF SyncMove
      <4>. QED
        BY <2>0, <3>3, <4>1, GotoLocked DEF SyncMove, Sound
    <3>4. CASE MoveFails(p)
      <4>1. Return(p) \/ \E pc \in {"refused", "aborting"} : Goto(p, pc)
        BY <3>4 DEF MoveFails
      <4>2. /\ proc[p].pc \in {"verifying", "moving", "moved"}
            /\ journal' = journal /\ (proc[p].own \/ Return(p))
        BY <3>4 DEF MoveFails
      <4>. QED
        BY <2>0, <4>1, <4>2, GotoLocked, ReturnLocked DEF Sound
    <3>5. CASE Abort(p)
      BY <3>5, ReturnLocked DEF Abort
    <3>6. CASE Settle(p)
      BY <2>0, <3>6, GotoLocked, ReturnLocked DEF Settle, Sound
    <3>7. CASE WritePhase(p)
      <4>1. CASE Return(p)
        BY <3>7, <4>1, ReturnLocked DEF WritePhase
      <4>2. CASE WriteJournal(proc[p].txn) /\ ~Return(p)
        <5>1. PICK pc \in {"verifying", "updating", "clearing"} : Goto(p, pc)
          BY <3>7, <4>2 DEF WritePhase
        <5>2. journal' = proc[p].txn /\ proc[p].txn # None
          BY <2>0, <3>7, <4>2 DEF WriteJournal, WritePhase, Sound
        <5>. QED
          BY <3>7, <5>1, <5>2, GotoLocked DEF WritePhase
      <4>. QED
        BY <3>7, <4>1, <4>2 DEF WritePhase
    <3>8. CASE UpdateRecord(p)
      BY <2>0, <3>8, GotoLocked, ReturnLocked DEF UpdateRecord, Sound
    <3>9. CASE ClearJournal(p)
      <4>1. CASE Return(p)
        BY <3>9, <4>1, ReturnLocked DEF ClearJournal
      <4>2. CASE ~Return(p)
        <5>1. /\ proc' = [proc EXCEPT ![p] =
                            [@ EXCEPT !.pc = "operating", !.txn = None]]
              /\ ~proc[p].own /\ lock' = lock /\ journal' = None
          BY <3>9, <4>2 DEF ClearJournal, WriteJournal
        <5>2. /\ proc'[p].pc = "operating" /\ proc'[p].own = proc[p].own
              /\ \A q \in Procs \ {p} : proc'[q] = proc[q]
          BY <2>0, <5>1 DEF TypeOK, Process
        <5>3. lock = p
          BY <3>9 DEF ClearJournal, Locked
        <5>. QED
          BY <5>1, <5>2, <5>3, Moves DEF Sound
      <4>. QED
        BY <4>1, <4>2
    <3>. QED
      BY <2>5, <3>1, <3>2, <3>3, <3>4, <3>5, <3>6, <3>7, <3>8, <3>9
         DEF Transact
  <2>6. CASE Serve(p)
    <3>1. CASE ReadOnly(p)
      BY <3>1, ReturnLocked DEF ReadOnly, Operating
    <3>2. CASE RenamePlain(p)
      BY <3>2, ReturnLocked DEF RenamePlain, Operating
    <3>3. CASE RenameRegistered(p)
      <4>1. PICK i \in Ids :
              proc' = [proc EXCEPT ![p] = [@ EXCEPT
                      !.pc = "preparing", !.own = TRUE,
                      !.txn = [id |-> i, old |-> proc[p].call.old,
                               new |-> proc[p].call.new,
                               file |-> desktop[proc[p].call.old]]]]
        BY <3>3 DEF RenameRegistered
      <4>2. /\ proc'[p].pc = "preparing" /\ proc'[p].own
            /\ proc'[p].txn = [id |-> i, old |-> proc[p].call.old,
                               new |-> proc[p].call.new,
                               file |-> desktop[proc[p].call.old]]
            /\ \A q \in Procs \ {p} : proc'[q] = proc[q]
        BY <2>0, <4>1 DEF TypeOK, Process
      <4>3. proc'[p].txn # None
        <5>1. desktop[proc[p].call.old] \in Files
          BY <2>0, <3>3, CallType
             DEF RenameRegistered, Operating, Renameable, TypeOK, Process
        <5>2. proc'[p].txn \in Journal
          BY <2>0, <3>3, <4>2, <5>1, CallType
             DEF RenameRegistered, Operating, Process, Journal
        <5>. QED
          BY <5>2, NoneIsNothing
      <4>4. lock = p /\ lock' = lock /\ journal = None /\ journal' = journal
        BY <2>0, <3>3 DEF RenameRegistered, Operating, Locked, Sound
      <4>. QED
        BY <4>2, <4>3, <4>4, Moves DEF Sound
    <3>4. CASE RenameRefused(p)
      BY <3>4, ReturnLocked DEF RenameRefused, Operating
    <3>5. CASE Register(p)
      <4>1. /\ proc[p].call.old \in Names
            /\ proc[p].call.entry \in {"applications", "desktop"}
        BY <2>0, <3>5, CallType DEF Register, Operating, Process
      <4>2. \A i \in Naming(proc[p].call.old) :
                i \in Ids /\ Flagged(records[i], proc[p].call.entry, TRUE) \in Record
        BY <4>1, FlaggedType DEF Naming, Registered, TypeOK
      <4>3. Flagged(Unshown(proc[p].call.old), proc[p].call.entry, TRUE)
                \in Record
        BY <4>1, FlaggedType DEF Unshown, Record
      <4>4. fresh \subseteq Ids
        BY DEF TypeOK
      <4>. QED
        BY <3>5, <4>2, <4>3, <4>4, ProjectLocked DEF Register, Operating
    <3>6. CASE SetFlag(p)
      <4>1. /\ proc[p].call.id \in Ids /\ records[proc[p].call.id] \in Record
            /\ proc[p].call.entry \in {"applications", "desktop"}
            /\ proc[p].call.on \in BOOLEAN
        BY <2>0, <3>6, CallType
           DEF SetFlag, Operating, Registered, TypeOK, Process
      <4>2. Flagged(records[proc[p].call.id], proc[p].call.entry,
                    proc[p].call.on) \in Record
        BY <4>1, FlaggedType
      <4>3. CASE \E record \in Record : Project(p, proc[p].call.id, record)
        BY <3>6, <4>1, <4>3, ProjectLocked DEF SetFlag, Operating
      <4>4. CASE /\ proc' = [proc EXCEPT ![p] =
                        [@ EXCEPT !.pc = "dropLauncher", !.id = proc[p].call.id]]
                 /\ UNCHANGED lock
        <5>1. /\ proc'[p].pc = "dropLauncher" /\ proc'[p].id = proc[p].call.id
              /\ \A q \in Procs \ {p} : proc'[q] = proc[q]
          BY <2>0, <4>4 DEF TypeOK, Process
        <5>2. lock = p /\ journal = None /\ journal' = journal
          BY <2>0, <3>6 DEF SetFlag, Operating, Locked, Sound
        <5>3. proc[p].call.id # None
          BY <4>1, NoneIsNothing
        <5>. QED
          BY <4>4, <5>1, <5>2, <5>3, Moves DEF Sound
      <4>. QED
        BY <3>6, <4>2, <4>3, <4>4 DEF SetFlag
    <3>7. CASE Resave(p)
      <4>1. proc[p].call.id \in Ids /\ records[proc[p].call.id] \in Record
        BY <2>0, <3>7, CallType
           DEF Resave, Operating, Registered, TypeOK, Process
      <4>. QED
        BY <3>7, <4>1, ProjectLocked DEF Resave, Operating
    <3>8. CASE PreviewRelink(p)
      <4>1. /\ proc'[p].pc = "previewed" /\ proc'[p].call = proc[p].call
            /\ proc'[p].seen = records[proc[p].call.id]
            /\ proc'[p].own = proc[p].own
            /\ \A q \in Procs \ {p} : proc'[q] = proc[q]
        BY <2>0, <3>8 DEF PreviewRelink, TypeOK, Process
      <4>2. lock = p /\ lock' = None
        BY <3>8 DEF PreviewRelink, Operating, Locked
      <4>3. Sound(proc[p], journal)' /\ ~Active(p)'
        BY <2>0, <3>8, <4>1 DEF PreviewRelink, Operating, Registered, Sound
      <4>. QED
        BY <4>1, <4>2, <4>3, Moves
    <3>9. CASE ChooseCandidate(p)
      <4>1. /\ \A q \in Procs \ {p} : proc'[q] = proc[q]
            /\ lock' = lock /\ journal' = journal
        BY <3>9 DEF ChooseCandidate, Goto, TypeOK
      <4>2. ~Active(p) /\ ~Active(p)' /\ Sound(proc[p], journal)'
        <5>1. CASE Goto(p, "chosen")
          <6>1. /\ proc'[p].pc = "chosen" /\ proc'[p].call = proc[p].call
                /\ proc'[p].seen = proc[p].seen /\ proc'[p].own = proc[p].own
            BY <2>0, <5>1 DEF Goto, TypeOK, Process
          <6>. QED
            BY <2>0, <3>9, <6>1 DEF ChooseCandidate, Sound
        <5>2. CASE proc' = [proc EXCEPT ![p] = Resting]
          <6>1. proc'[p] = Resting
            BY <5>2 DEF TypeOK
          <6>. QED
            BY <3>9, <6>1, RestingSound DEF ChooseCandidate, Sound
        <5>. QED
          BY <3>9, <5>1, <5>2 DEF ChooseCandidate
      <4>. QED
        BY <4>1, <4>2 DEF Locked, Sound
    <3>10. CASE BeginCommit(p)
      <4>1. /\ proc'[p].pc = "recovering" /\ proc'[p].own = proc[p].own
            /\ \A q \in Procs \ {p} : proc'[q] = proc[q]
        BY <2>0, <3>10 DEF BeginCommit, TypeOK, Process
      <4>2. Sound(proc[p], journal)' /\ Active(p)'
        BY <2>0, <3>10, <4>1 DEF BeginCommit, Sound
      <4>. QED
        BY <3>10, <4>1, <4>2, Moves DEF BeginCommit
    <3>11. CASE CommitRelink(p)
      <4>1. /\ proc[p].call.id \in Ids /\ proc[p].call.new \in Names
            /\ proc[p].seen \in Record
        BY <2>0, <3>11, CallType DEF CommitRelink, Operating, Process
      <4>2. [proc[p].seen EXCEPT !.target = proc[p].call.new] \in Record
        BY <4>1 DEF Record
      <4>. QED
        BY <3>11, <4>1, <4>2, ProjectLocked DEF CommitRelink, Operating
    <3>12. CASE CallFails(p)
      BY <3>12, ReturnLocked DEF CallFails, Operating
    <3>. QED
      BY <2>6, <3>1, <3>2, <3>3, <3>4, <3>5, <3>6, <3>7, <3>8, <3>9, <3>10,
         <3>11, <3>12 DEF Serve
  <2>7. CASE SaveOrRemove(p)
    <3>1. CASE WriteLauncher(p)
      BY <2>0, <3>1, GotoLocked DEF WriteLauncher, Sound
    <3>2. CASE WriteShortcut(p)
      BY <2>0, <3>2, GotoLocked DEF WriteShortcut, Sound
    <3>3. CASE SaveRecord(p)
      BY <2>0, <3>3, GotoLocked, ReturnLocked DEF SaveRecord, Sound
    <3>4. CASE RestoreRecord(p)
      BY <2>0, <3>4, GotoLocked, ReturnLocked DEF RestoreRecord, Sound
    <3>5. CASE RestoreShortcut(p)
      BY <2>0, <3>5, GotoLocked, ReturnLocked DEF RestoreShortcut, Sound
    <3>6. CASE RestoreLauncher(p)
      BY <3>6, ReturnLocked DEF RestoreLauncher
    <3>7. CASE DropLauncher(p)
      BY <2>0, <3>7, GotoLocked, ReturnLocked DEF DropLauncher, CutRemoval, Sound
    <3>8. CASE DropShortcut(p)
      BY <2>0, <3>8, GotoLocked, ReturnLocked DEF DropShortcut, CutRemoval, Sound
    <3>9. CASE DropRecord(p)
      BY <3>9, ReturnLocked DEF DropRecord, CutRemoval
    <3>. QED
      BY <2>7, <3>1, <3>2, <3>3, <3>4, <3>5, <3>6, <3>7, <3>8, <3>9
         DEF SaveOrRemove
  <2>. QED
    BY <1>5, <2>1, <2>2, <2>3, <2>4, <2>5, <2>6, <2>7 DEF Store
<1>. QED
  BY <1>1, <1>2, <1>3, <1>4, <1>5 DEF Next

\* What the writes do to the disk.
LEMMA SyncDoes ==
    ASSUME TypeOK, SyncDesktop
    PROVE  /\ durable'.desktop = desktop /\ durable'.records = durable.records
           /\ durable'.journal = durable.journal
BY DEF TypeOK, SyncDesktop

LEMMA JournalDoes ==
    ASSUME TypeOK, NEW j, WriteJournal(j)
    PROVE  /\ durable'.desktop = durable.desktop
           /\ durable'.records = durable.records
           /\ journal' = j /\ durable'.journal = j
BY DEF TypeOK, WriteJournal

LEMMA RecordDoes ==
    ASSUME TypeOK, NEW i \in Ids, NEW r \in Record \cup {None}, WriteRecord(i, r)
    PROVE  /\ durable'.desktop = durable.desktop
           /\ durable'.journal = durable.journal
           /\ records' = [records EXCEPT ![i] = r]
           /\ \/ durable'.records = records'
              \/ /\ r = None /\ records[i] = None /\ records' = records
                 /\ durable'.records = durable.records
<1>1. CASE r = None /\ records[i] = None
  BY <1>1 DEF TypeOK, WriteRecord
<1>2. CASE ~(r = None /\ records[i] = None)
  BY <1>2 DEF TypeOK, WriteRecord
<1>. QED
  BY <1>1, <1>2

LEMMA ShortcutDoes ==
    ASSUME TypeOK, NEW i, NEW in, PutShortcut(i, in)
    PROVE  /\ durable'.desktop \in {durable.desktop, desktop}
           /\ durable'.records = durable.records
           /\ durable'.journal = durable.journal
           /\ shortcuts' = Toggled(shortcuts, i, in)
BY SyncDoes DEF PutShortcut

-----------------------------------------------------------------------------
\* The rename

\* A process that has no part in a rename says nothing of it.
Renaming == {"preparing"} \cup Transacting

LEMMA NoProgress ==
    ASSUME NEW p \in Procs, proc'[p].pc \notin Renaming
    PROVE  Progress(p)' /\ Flushed(p)'
BY DEF Progress, Flushed, Renaming, Transacting

\* The other processes stay out of a step of the one with the lock.
LEMMA Others ==
    ASSUME TypeOK, Locked, NEW p \in Procs, lock \in {p, None},
           \A q \in Procs \ {p} : proc'[q] = proc[q]
    PROVE  \A q \in Procs \ {p} : /\ proc'[q].pc \notin Renaming
                                  /\ Progress(q)' /\ Flushed(q)'
<1>. SUFFICES ASSUME NEW q \in Procs \ {p}
              PROVE  proc'[q].pc \notin Renaming /\ Progress(q)' /\ Flushed(q)'
  OBVIOUS
<1>1. ~Active(q)
  BY NoneIsNothing DEF Locked
<1>2. proc'[q].pc \notin Renaming
  BY <1>1 DEF Active, ActivePc, Renaming, Unpending
<1>. QED
  BY <1>2, NoProgress

\* It is enough to look at what the process with the lock is doing.
LEMMA Seen ==
    ASSUME TypeOK, Locked, NEW p \in Procs, lock \in {p, None},
           \A q \in Procs \ {p} : proc'[q] = proc[q],
           ~disturbed' => /\ Progress(p)'
                          /\ journal' # None => Pending(journal)'
    PROVE  Undisturbed'
BY Others DEF Undisturbed

LEMMA PendingKept ==
    ASSUME UNCHANGED <<desktop, records>>, NEW j
    PROVE  Pending(j)' <=> Pending(j)
BY DEF Pending, Preflight, NotYetMoved, AlreadyMoved, Registered, Naming

\* A step that leaves what everyone sees alone.
LEMMA ViewKept ==
    ASSUME TypeOK, Locked, Undisturbed, NEW p \in Procs, lock \in {p, None},
           \A q \in Procs \ {p} : proc'[q] = proc[q],
           UNCHANGED <<desktop, records, journal>>, disturbed => disturbed',
           proc'[p].pc \in Renaming /\ ~disturbed => Progress(p)'
    PROVE  Undisturbed'
<1>1. journal # None => (Pending(journal) <=> Pending(journal)')
  BY PendingKept DEF Pending, Preflight, NotYetMoved, AlreadyMoved, Registered,
     Naming
<1>. QED
  BY <1>1, Seen, NoProgress DEF Undisturbed

\* What holds of a step that returns, or that goes on.
LEMMA ReturnDoes ==
    ASSUME TypeOK, NEW p \in Procs, Return(p)
    PROVE  /\ proc'[p].pc = "idle"
           /\ proc'[p].pc \notin Renaming \cup Saving \cup Removing
           /\ \A q \in Procs \ {p} : proc'[q] = proc[q]
BY DEF TypeOK, Return, Resting, Renaming, Transacting, Saving, Removing

LEMMA GotoDoes ==
    ASSUME TypeOK, NEW p \in Procs, NEW pc, Goto(p, pc)
    PROVE  /\ proc'[p].pc = pc
           /\ proc'[p].txn = proc[p].txn /\ proc'[p].own = proc[p].own
           /\ proc'[p].id = proc[p].id /\ proc'[p].after = proc[p].after
           /\ proc'[p].before = proc[p].before
           /\ \A q \in Procs \ {p} : proc'[q] = proc[q]
<1>1. proc[p] \in Process
  BY DEF TypeOK
<1>2. proc'[p] = [proc[p] EXCEPT !.pc = pc]
  BY DEF TypeOK, Goto
<1>. QED
  BY <1>1, <1>2 DEF TypeOK, Goto, Process

LEMMA ProjectDoes ==
    ASSUME TypeOK, NEW p \in Procs, NEW i, NEW record, Project(p, i, record)
    PROVE  /\ proc'[p].pc = "launcher" /\ proc'[p].id = i
           /\ proc'[p].after = record
           /\ proc'[p].before = [launcher |-> i \in launchers,
                                 shortcut |-> i \in shortcuts,
                                 record |-> records[i]]
           /\ \A q \in Procs \ {p} : proc'[q] = proc[q]
<1>1. proc[p] \in Process
  BY DEF TypeOK
<1>. QED
  BY <1>1 DEF TypeOK, Project, Process

\* A file that is pending is at one of two names, and they differ.
LEMMA TwoNames ==
    ASSUME TypeOK, NEW j \in Journal, NotYetMoved(j) \/ AlreadyMoved(j)
    PROVE  /\ j.old # j.new /\ j.file # None
           /\ j.old \in Names /\ j.new \in Names /\ j.id \in Ids
           /\ desktop[j.old] = j.file <=> NotYetMoved(j)
           /\ desktop[j.new] = j.file <=> AlreadyMoved(j)
BY NoneIsNothing DEF NotYetMoved, AlreadyMoved, Journal

\* Where a process that renames finds things.
LEMMA Underway ==
    ASSUME TypeOK, Locked, Undisturbed, NEW p \in Procs,
           proc[p].pc \in Renaming, NEW j, j = proc[p].txn
    PROVE  /\ lock = p /\ j \in Journal /\ j # None
           /\ proc[p].pc = "preparing" => journal = None
           /\ proc[p].pc # "preparing" => journal = j
           /\ ~disturbed =>
                /\ Progress(p) /\ Pending(j)
                /\ j.old # j.new /\ j.file # None
                /\ j.old \in Names /\ j.new \in Names /\ j.id \in Ids
                /\ desktop[j.old] = j.file <=> NotYetMoved(j)
                /\ desktop[j.new] = j.file <=> AlreadyMoved(j)
<1>1. Active(p) /\ Sound(proc[p], journal) /\ proc[p] \in Process
  BY DEF Locked, TypeOK, Active, ActivePc, Renaming, Unpending
<1>2. lock = p
  BY <1>1 DEF Locked
<1>3. j \in Journal /\ j # None
  BY <1>1, NoneIsNothing DEF Sound, Renaming, Process
<1>4. /\ proc[p].pc = "preparing" => journal = None
      /\ proc[p].pc # "preparing" => journal = j
  BY <1>1 DEF Sound, Renaming, Unpending
<1>5. ASSUME ~disturbed
      PROVE  Progress(p) /\ Pending(j)
  <2>1. Progress(p)
    BY <1>5 DEF Undisturbed
  <2>2. CASE proc[p].pc = "preparing"
    BY <2>1, <2>2 DEF Progress, Pending
  <2>3. CASE proc[p].pc # "preparing"
    BY <1>3, <1>4, <1>5, <2>3 DEF Undisturbed
  <2>. QED
    BY <2>1, <2>2, <2>3
<1>. QED
  BY <1>2, <1>3, <1>4, <1>5, TwoNames DEF Pending

\* update_renamed_registration of a rename that is pending.
LEMMA RetargetDoes ==
    ASSUME TypeOK, NEW j \in Journal, Retargetable(j)
    PROVE  /\ Retargeted(records, j)[j.id] \in Record
           /\ Retargeted(records, j)[j.id] # None
           /\ Retargeted(records, j)[j.id].target = j.new
           /\ \A k \in Ids \ {j.id} : Retargeted(records, j)[k] = records[k]
           /\ [records EXCEPT ![j.id] = Retargeted(records, j)[j.id]]
                    = Retargeted(records, j)
<1>1. records \in [Ids -> Record \cup {None}] /\ j.id \in Ids /\ j \in Journal
  BY DEF TypeOK, Journal
<1>2. [records EXCEPT ![j.id] = Retargeted(records, j)[j.id]]
            = Retargeted(records, j)
  BY <1>1 DEF Retargeted
<1>. QED
  BY <1>1, <1>2, RetargetedType, NoneIsNothing DEF Retargetable, Registered

LEMMA PendingRetargeted ==
    ASSUME TypeOK, NEW j \in Journal, Pending(j), Retargetable(j),
           desktop' = desktop, records' = Retargeted(records, j)
    PROVE  Pending(j)'
BY RetargetDoes
   DEF Pending, Preflight, Registered, Naming, NotYetMoved, AlreadyMoved

\* A step of a rename keeps the rename recoverable.
LEMMA TransactUndisturbed ==
    ASSUME TypeOK, Locked, Undisturbed, NEW p \in Procs, Transact(p)
    PROVE  Undisturbed'
<1>. USE DEF disk, entries, history, doubts
<1>1. proc[p].pc \in Renaming
  BY DEF Transact, Verify, Move, SyncMove, MoveFails, Abort, Settle, WritePhase,
     UpdateRecord, ClearJournal, At, Renaming, Transacting
<1>2. disturbed' = disturbed
  BY DEF Transact, Verify, Move, SyncMove, MoveFails, Abort, Settle, WritePhase,
     UpdateRecord, ClearJournal
<1>3. PICK j : j = proc[p].txn
  OBVIOUS
<1>4. /\ lock = p /\ j \in Journal /\ j # None
      /\ proc[p].pc = "preparing" => journal = None
      /\ proc[p].pc # "preparing" => journal = j
  BY <1>1, <1>3, Underway
<1>5. ASSUME Return(p), UNCHANGED <<desktop, records, journal>>
      PROVE  Undisturbed'
  BY <1>2, <1>4, <1>5, ReturnDoes, ViewKept
<1>6. CASE disturbed
  BY <1>2, <1>6 DEF Undisturbed
<1>7. CASE ~disturbed
  <2>1. /\ Progress(p) /\ Pending(j)
        /\ j.old # j.new /\ j.file # None
        /\ j.old \in Names /\ j.new \in Names /\ j.id \in Ids
        /\ desktop[j.old] = j.file <=> NotYetMoved(j)
        /\ desktop[j.new] = j.file <=> AlreadyMoved(j)
    BY <1>1, <1>3, <1>7, Underway
  <2>2. ASSUME Return(p), journal' = None \/ Pending(journal)'
        PROVE  Undisturbed'
    BY <1>4, <2>2, ReturnDoes, NoProgress, Seen
  <2>3. CASE Verify(p)
    <3>1. /\ proc'[p].pc = "moving" /\ proc'[p].txn = proc[p].txn
          /\ proc'[p].own = proc[p].own
          /\ \A q \in Procs \ {p} : proc'[q] = proc[q]
      BY <2>3, GotoDoes DEF Verify
    <3>2. Progress(p)'
      BY <2>1, <2>3, <3>1 DEF Progress, Verify, At, NotYetMoved
    <3>. QED
      BY <1>2, <1>4, <2>3, <3>1, <3>2, ViewKept DEF Verify
  <2>4. CASE Move(p)
    <3>1. /\ proc[p].pc = "moving"
          /\ proc'[p].pc = "moved" /\ proc'[p].txn = proc[p].txn
          /\ proc'[p].own = proc[p].own
          /\ \A q \in Procs \ {p} : proc'[q] = proc[q]
      BY <2>4, GotoDoes DEF Move, At
    <3>2. /\ desktop' = Renamed(desktop, j)
          /\ UNCHANGED <<records, journal>>
      BY <1>3, <2>4 DEF Move, NoReplaceRename
    <3>3. NotYetMoved(j)
      BY <1>3, <2>1, <3>1 DEF Progress
    <3>4. desktop'[j.old] = None /\ desktop'[j.new] = j.file
      BY <2>1, <3>2, <3>3 DEF Renamed, NotYetMoved
    <3>5. Pending(j)'
      BY <2>1, <3>2, <3>4
         DEF Pending, Preflight, Registered, Naming, AlreadyMoved
    <3>6. Progress(p)'
      BY <1>3, <2>1, <3>1, <3>2, <3>4 DEF Progress, AlreadyMoved
    <3>7. journal' = j
      BY <1>4, <3>1, <3>2
    <3>. QED
      BY <1>4, <3>1, <3>5, <3>6, <3>7, Seen
  <2>5. CASE SyncMove(p)
    <3>1. PICK pc \in {"filing", "settling"} : Goto(p, pc)
      BY <2>5 DEF SyncMove
    <3>2. /\ proc[p].pc = "moved" /\ UNCHANGED <<desktop, records, journal>>
          /\ proc'[p].pc = pc /\ proc'[p].txn = proc[p].txn
          /\ \A q \in Procs \ {p} : proc'[q] = proc[q]
      BY <2>5, <3>1, GotoDoes DEF SyncMove, At
    <3>3. Progress(p)'
      BY <2>1, <3>2 DEF Progress, AlreadyMoved
    <3>. QED
      BY <1>2, <1>4, <3>2, <3>3, ViewKept
  <2>6. CASE MoveFails(p)
    <3>1. /\ proc[p].pc \in {"verifying", "moving", "moved"}
          /\ UNCHANGED <<desktop, records, journal>>
      BY <2>6 DEF MoveFails, At
    <3>2. CASE Return(p)
      BY <1>5, <3>1, <3>2
    <3>3. ASSUME NEW pc \in {"refused", "aborting"}, proc[p].own, Goto(p, pc)
          PROVE  Undisturbed'
      <4>1. /\ proc'[p].pc = pc /\ proc'[p].txn = proc[p].txn
            /\ proc'[p].own = proc[p].own
            /\ \A q \in Procs \ {p} : proc'[q] = proc[q]
        BY <3>3, GotoDoes
      <4>2. Progress(p)'
        BY <2>1, <3>1, <3>3, <4>1 DEF Progress
      <4>. QED
        BY <1>2, <1>4, <3>1, <4>1, <4>2, ViewKept
    <3>. QED
      BY <2>6, <3>2, <3>3 DEF MoveFails
  <2>7. CASE Abort(p)
    <3>1. /\ Return(p) /\ UNCHANGED <<desktop, records>>
          /\ journal' \in {journal, None} /\ journal = j
      BY <1>4, <2>7 DEF Abort, At, WriteJournal, WriteJournalFails
    <3>. QED
      BY <1>5, <2>2, <3>1
  <2>8. CASE Settle(p)
    <3>1. proc[p].pc = "settling" /\ UNCHANGED <<desktop, records, journal>>
      BY <2>8 DEF Settle, At
    <3>2. CASE Return(p)
      BY <1>5, <3>1, <3>2
    <3>3. CASE Goto(p, "filing")
      <4>1. /\ proc'[p].pc = "filing" /\ proc'[p].txn = proc[p].txn
            /\ \A q \in Procs \ {p} : proc'[q] = proc[q]
        BY <3>3, GotoDoes
      <4>2. Progress(p)'
        BY <2>1, <3>1, <4>1 DEF Progress, AlreadyMoved
      <4>. QED
        BY <1>2, <1>4, <3>1, <4>1, <4>2, ViewKept
    <3>. QED
      BY <2>8, <3>2, <3>3 DEF Settle
  <2>9. CASE WritePhase(p)
    <3>1. /\ UNCHANGED <<desktop, records>> /\ journal' \in {journal, j}
          /\ proc[p].pc \in {"preparing", "filing", "confirming"}
      BY <1>3, <2>9 DEF WritePhase, At, WriteJournal, WriteJournalFails
    <3>2. journal' # None => Pending(journal)'
      BY <1>4, <2>1, <3>1, PendingKept
         DEF Pending, Preflight, NotYetMoved, AlreadyMoved, Registered, Naming
    <3>3. CASE Return(p)
      BY <2>2, <3>2, <3>3
    <3>4. ASSUME NEW pc, Goto(p, pc),
                 pc = CASE At(p, "preparing")  -> "verifying"
                        [] At(p, "filing")     -> "updating"
                        [] At(p, "confirming") -> "clearing"
          PROVE  Undisturbed'
      <4>1. /\ proc'[p].pc = pc /\ proc'[p].txn = proc[p].txn
            /\ proc'[p].own = proc[p].own
            /\ \A q \in Procs \ {p} : proc'[q] = proc[q]
        BY <3>4, GotoDoes
      <4>2. \/ proc[p].pc = "preparing" /\ pc = "verifying"
            \/ proc[p].pc = "filing" /\ pc = "updating"
            \/ proc[p].pc = "confirming" /\ pc = "clearing"
        BY <3>1, <3>4 DEF At
      <4>3. Progress(p)'
        BY <2>1, <3>1, <4>1, <4>2 DEF Progress, NotYetMoved, AlreadyMoved
      <4>. QED
        BY <1>4, <3>2, <4>1, <4>3, Seen
    <3>. QED
      BY <2>9, <3>3, <3>4 DEF WritePhase
  <2>10. CASE UpdateRecord(p)
    <3>1. /\ proc[p].pc = "updating" /\ journal = j
          /\ UNCHANGED <<desktop, journal>>
      BY <1>4, <2>10 DEF UpdateRecord, At
    <3>2. ASSUME Retargetable(j), records' = Retargeted(records, j)
          PROVE  Pending(j)' /\ records'[j.id].target = j.new
      BY <1>4, <2>1, <3>1, <3>2, PendingRetargeted, RetargetDoes
    <3>3. CASE Return(p)
      <4>1. UNCHANGED records \/ Pending(j)'
        BY <1>3, <1>4, <2>10, <3>2, <3>3, RetargetDoes
           DEF UpdateRecord, WriteRecord, WriteRecordFails
      <4>. QED
        BY <1>5, <2>2, <3>1, <3>3, <4>1
    <3>4. CASE Retargetable(j) /\ Goto(p, "confirming")
               /\ WriteRecord(j.id, Retargeted(records, j)[j.id])
      <4>1. /\ proc'[p].pc = "confirming" /\ proc'[p].txn = proc[p].txn
            /\ \A q \in Procs \ {p} : proc'[q] = proc[q]
        BY <3>4, GotoDoes
      <4>2. records' = Retargeted(records, j)
        BY <1>4, <3>4, RetargetDoes DEF WriteRecord
      <4>3. Pending(j)' /\ records'[j.id].target = j.new
        BY <3>2, <3>4, <4>2
      <4>4. Progress(p)'
        BY <1>3, <2>1, <3>1, <4>1, <4>3 DEF Progress, AlreadyMoved
      <4>. QED
        BY <1>4, <3>1, <4>1, <4>3, <4>4, Seen
    <3>. QED
      BY <1>3, <2>10, <3>3, <3>4 DEF UpdateRecord
  <2>11. CASE ClearJournal(p)
    <3>1. /\ UNCHANGED <<desktop, records>> /\ journal' \in {journal, None}
          /\ journal = j
      BY <1>4, <2>11 DEF ClearJournal, At, WriteJournal, WriteJournalFails
    <3>2. CASE Return(p)
      BY <1>5, <2>2, <3>1, <3>2
    <3>3. CASE /\ WriteJournal(None)
               /\ proc' = [proc EXCEPT ![p] =
                              [@ EXCEPT !.pc = "operating", !.txn = None]]
      <4>1. /\ proc'[p].pc \notin Renaming
            /\ \A q \in Procs \ {p} : proc'[q] = proc[q]
        BY <3>3 DEF TypeOK, Process, Renaming, Transacting
      <4>. QED
        BY <1>4, <3>3, <4>1, NoProgress, Seen DEF WriteJournal
    <3>. QED
      BY <2>11, <3>2, <3>3 DEF ClearJournal
  <2>. QED
    BY <2>3, <2>4, <2>5, <2>6, <2>7, <2>8, <2>9, <2>10, <2>11 DEF Transact
<1>. QED
  BY <1>6, <1>7

\* What a killed process leaves of the rename it was at.
LEMMA CrashUndisturbed ==
    ASSUME TypeOK, Locked, Undisturbed, NEW p \in Procs, Crash(p)
    PROVE  Undisturbed'
<1>. USE DEF disk, entries, history, doubts
<1>1. /\ lock = p /\ disturbed' = disturbed
      /\ proc'[p].pc \notin Renaming /\ Progress(p)'
      /\ \A q \in Procs \ {p} : proc'[q] = proc[q]
  BY ReturnDoes, NoProgress DEF Crash
<1>2. ASSUME UNCHANGED <<desktop, records, journal>>
      PROVE  Undisturbed'
  BY <1>1, <1>2, ViewKept
<1>3. ASSUME journal' = None
      PROVE  Undisturbed'
  BY <1>1, <1>3, Seen
<1>4. Sound(proc[p], journal)
  BY DEF Locked
<1>5. CASE JournalHalfWritten(p)
  <2>1. CASE journal' = None
    BY <1>3, <2>1
  <2>2. CASE journal' # None
    <3>1. /\ proc[p].pc \in Renaming /\ journal' = proc[p].txn
          /\ UNCHANGED <<desktop, records>>
      BY <1>5, <2>2 DEF JournalHalfWritten, At, Renaming, Transacting
    <3>2. ~disturbed => Pending(journal')
      BY <3>1, Underway
    <3>3. ~disturbed' => Pending(journal)'
      BY <1>1, <3>1, <3>2, PendingKept
         DEF Pending, Preflight, NotYetMoved, AlreadyMoved, Registered, Naming
    <3>. QED
      BY <1>1, <3>3, Seen
  <2>. QED
    BY <2>1, <2>2
<1>6. CASE RecordHalfWritten(p)
  <2>1. CASE proc[p].pc = "updating"
    <3>1. PICK j : j = proc[p].txn
      OBVIOUS
    <3>2. /\ Retargetable(j) /\ records' = Retargeted(records, j)
          /\ UNCHANGED <<desktop, journal>>
      BY <1>6, <2>1, <3>1 DEF RecordHalfWritten, At
    <3>3. proc[p].pc \in Renaming
      BY <2>1 DEF Renaming, Transacting
    <3>4. journal = j /\ j \in Journal /\ (~disturbed => Pending(j))
      BY <2>1, <3>1, <3>3, Underway
    <3>5. ~disturbed' => Pending(j)'
      BY <1>1, <3>2, <3>4, PendingRetargeted
    <3>6. journal' = j
      BY <3>2, <3>4
    <3>. QED
      BY <1>1, <3>5, <3>6, Seen
  <2>2. CASE proc[p].pc # "updating"
    <3>1. proc[p].pc \in Unpending /\ journal' = journal
      BY <1>6, <2>2 DEF RecordHalfWritten, At, Unpending, Saving, Removing
    <3>. QED
      BY <1>3, <1>4, <3>1 DEF Sound
  <2>. QED
    BY <2>1, <2>2
<1>7. CASE EntryHalfWritten(p)
  BY <1>2, <1>7 DEF EntryHalfWritten
<1>8. CASE PlainHalfRenamed(p)
  <2>1. proc[p].pc \in Unpending /\ journal' = journal
    BY <1>8 DEF PlainHalfRenamed, Operating, At, Unpending
  <2>. QED
    BY <1>3, <1>4, <2>1 DEF Sound
<1>. QED
  BY <1>2, <1>5, <1>6, <1>7, <1>8 DEF Crash

\* Who goes on has the lock, and no rename is pending.
LEMMA Settled ==
    ASSUME TypeOK, Locked, NEW p \in Procs, proc[p].pc \in Unpending
    PROVE  lock = p /\ journal = None
BY DEF Active, ActivePc, Locked, Sound

\* What a call decides to do.
LEMMA ServeUndisturbed ==
    ASSUME TypeOK, Locked, Undisturbed, NEW p \in Procs, Serve(p)
    PROVE  Undisturbed'
<1>. USE DEF disk, entries, history, doubts
<1>1. ASSUME Return(p), UNCHANGED <<journal, disturbed>>, At(p, "operating")
      PROVE  Undisturbed'
  <2>1. lock = p /\ journal = None
    BY <1>1, Settled DEF At, Unpending
  <2>. QED
    BY <1>1, <2>1, ReturnDoes, NoProgress, Seen
<1>2. ASSUME NEW i, NEW record, Project(p, i, record),
             UNCHANGED <<journal, disturbed>>, At(p, "operating")
      PROVE  Undisturbed'
  <2>1. lock = p /\ journal = None
    BY <1>2, Settled DEF At, Unpending
  <2>2. "launcher" \notin Renaming
    BY DEF Renaming, Transacting
  <2>. QED
    BY <1>2, <2>1, <2>2, ProjectDoes, NoProgress, Seen
<1>3. CASE ReadOnly(p) \/ RenameRefused(p) \/ CallFails(p) \/ RenamePlain(p)
  BY <1>1, <1>3 DEF ReadOnly, RenameRefused, CallFails, RenamePlain, Operating
<1>4. CASE RenameRegistered(p)
  <2>0. proc[p].pc = "operating" /\ proc[p] \in Process
    BY <1>4 DEF RenameRegistered, Operating, At, TypeOK
  <2>1. lock = p
    BY <2>0, Settled DEF Unpending
  <2>2. PICK i \in Ids :
          /\ Renameable(i, proc[p].call.old, proc[p].call.new)
          /\ proc' = [proc EXCEPT ![p] = [@ EXCEPT
                        !.pc = "preparing", !.own = TRUE,
                        !.txn = [id |-> i, old |-> proc[p].call.old,
                                 new |-> proc[p].call.new,
                                 file |-> desktop[proc[p].call.old]]]]
    BY <1>4 DEF RenameRegistered
  <2>. DEFINE j == [id |-> i, old |-> proc[p].call.old,
                    new |-> proc[p].call.new,
                    file |-> desktop[proc[p].call.old]]
  <2>3. /\ proc'[p].pc = "preparing" /\ proc'[p].txn = j
        /\ \A q \in Procs \ {p} : proc'[q] = proc[q]
    BY <2>0, <2>2 DEF TypeOK, Process
  <2>4. UNCHANGED <<desktop, records, journal, disturbed>>
    BY <1>4 DEF RenameRegistered
  <2>5. /\ Preflight(j) /\ NotYetMoved(j) /\ records[j.id].target = j.old
    BY <2>2 DEF Renameable, Preflight, Registered, Naming, NotYetMoved
  <2>. HIDE DEF j
  <2>6. Progress(p)'
    BY <2>3, <2>4, <2>5
       DEF Progress, Preflight, Registered, Naming, NotYetMoved
  <2>. QED
    BY <2>1, <2>3, <2>4, <2>6, ViewKept
<1>5. CASE Register(p) \/ Resave(p) \/ CommitRelink(p)
  <2>1. At(p, "operating") /\ UNCHANGED <<journal, disturbed>>
    BY <1>5 DEF Register, Resave, CommitRelink, Operating
  <2>2. \E i, record : Project(p, i, record)
    BY <1>5 DEF Register, Resave, CommitRelink
  <2>. QED
    BY <1>2, <2>1, <2>2
<1>6. CASE SetFlag(p)
  <2>1. At(p, "operating") /\ UNCHANGED <<desktop, records, journal, disturbed>>
    BY <1>6 DEF SetFlag, Operating
  <2>2. CASE \E i, record : Project(p, i, record)
    BY <1>2, <2>1, <2>2
  <2>3. CASE proc' = [proc EXCEPT ![p] = [@ EXCEPT !.pc = "dropLauncher",
                                                   !.id = proc[p].call.id]]
    <3>1. lock = p /\ proc[p] \in Process
      BY <2>1, Settled DEF At, Unpending, TypeOK
    <3>2. proc'[p].pc \notin Renaming /\ \A q \in Procs \ {p} : proc'[q] = proc[q]
      BY <2>3, <3>1 DEF TypeOK, Process, Renaming, Transacting
    <3>. QED
      BY <2>1, <3>1, <3>2, ViewKept
  <2>. QED
    BY <1>6, <2>2, <2>3 DEF SetFlag
<1>7. CASE PreviewRelink(p)
  <2>1. lock = p /\ proc[p] \in Process
    BY <1>7, Settled DEF PreviewRelink, Operating, At, Unpending, TypeOK
  <2>2. proc'[p].pc = "previewed" /\ \A q \in Procs \ {p} : proc'[q] = proc[q]
    BY <1>7, <2>1 DEF PreviewRelink, TypeOK, Process
  <2>. QED
    BY <1>7, <2>1, <2>2, ViewKept DEF PreviewRelink, Renaming, Transacting
<1>8. CASE ChooseCandidate(p)
  <2>1. proc'[p].pc \in {"chosen", "idle"} /\ \A q \in Procs \ {p} : proc'[q] = proc[q]
    BY <1>8, GotoDoes DEF ChooseCandidate, TypeOK, Resting
  <2>2. Progress(p)'
    BY <2>1, NoProgress DEF Renaming, Transacting
  <2>3. UNCHANGED <<desktop, records, journal, disturbed>>
    BY <1>8 DEF ChooseCandidate
  <2>4. ASSUME NEW q \in Procs \ {p}, Progress(q)
        PROVE  Progress(q)'
    BY <2>1, <2>3, <2>4
       DEF Progress, Preflight, Registered, Naming, NotYetMoved, AlreadyMoved
  <2>5. journal # None => (Pending(journal) <=> Pending(journal)')
    BY <2>3 DEF Pending, Preflight, NotYetMoved, AlreadyMoved, Registered,
       Naming
  <2>. QED
    BY <2>2, <2>3, <2>4, <2>5 DEF Undisturbed
<1>9. CASE BeginCommit(p)
  <2>1. lock = None /\ proc[p] \in Process
    BY <1>9 DEF BeginCommit, TypeOK
  <2>2. proc'[p].pc = "recovering" /\ \A q \in Procs \ {p} : proc'[q] = proc[q]
    BY <1>9, <2>1 DEF BeginCommit, TypeOK, Process
  <2>. QED
    BY <1>9, <2>1, <2>2, ViewKept, GoOnType
       DEF BeginCommit, Renaming, Transacting
<1>. QED
  BY <1>3, <1>4, <1>5, <1>6, <1>7, <1>8, <1>9 DEF Serve

\* What a save or a removal does: no rename is pending, nor will one be.
LEMMA SaveOrRemoveDoes ==
    ASSUME TypeOK, Locked, NEW p \in Procs, SaveOrRemove(p)
    PROVE  /\ proc[p].pc \in Saving \cup Removing
           /\ lock = p /\ journal = None /\ journal' = None
           /\ desktop' = desktop /\ unsure' = unsure /\ disturbed' = disturbed
           /\ proc[p].id \in Ids
           /\ proc[p].after \in Record \cup {None}
           /\ proc[p].before.record \in Record \cup {None}
           /\ proc'[p].pc \notin Renaming
           /\ proc'[p].id = proc[p].id \/ lock' = None
           /\ \A q \in Procs \ {p} : proc'[q] = proc[q]
<1>. USE DEF disk, entries, history, doubts
<1>1. proc[p].pc \in Saving \cup Removing
  BY DEF SaveOrRemove, WriteLauncher, WriteShortcut, SaveRecord, RestoreRecord,
     RestoreShortcut, RestoreLauncher, DropLauncher, DropShortcut, DropRecord,
     At, Saving, Removing
<1>2. lock = p /\ journal = None
  BY <1>1, Settled DEF Unpending
<1>3. /\ proc[p] \in Process /\ proc[p].id \in Ids
      /\ proc[p].after \in Record \cup {None}
      /\ proc[p].before.record \in Record \cup {None}
  BY <1>1 DEF TypeOK, Process, Locked, Sound
<1>4. journal' = None /\ desktop' = desktop
      /\ unsure' = unsure /\ disturbed' = disturbed
  BY <1>2 DEF SaveOrRemove, WriteLauncher, WriteShortcut, SaveRecord,
     RestoreRecord, RestoreShortcut, RestoreLauncher, DropLauncher,
     DropShortcut, DropRecord
<1>5. /\ proc'[p].pc \notin Renaming
      /\ proc'[p].id = proc[p].id \/ lock' = None
      /\ \A q \in Procs \ {p} : proc'[q] = proc[q]
  <2>1. ASSUME NEW pc \in {"shortcut", "saving", "restoreRecord",
                           "restoreShortcut", "restoreLauncher",
                           "dropShortcut", "dropRecord"},
               Goto(p, pc)
        PROVE  <1>5!1 /\ <1>5!2 /\ <1>5!3
    BY <2>1, GotoDoes DEF Renaming, Transacting
  <2>2. \/ Return(p)
        \/ \E pc \in {"shortcut", "saving", "restoreRecord",
                      "restoreShortcut", "restoreLauncher", "dropShortcut",
                      "dropRecord"} : Goto(p, pc)
    BY DEF SaveOrRemove, WriteLauncher, WriteShortcut, SaveRecord,
       RestoreRecord, RestoreShortcut, RestoreLauncher, DropLauncher,
       DropShortcut, DropRecord, CutRemoval
  <2>3. Return(p) => lock' = None
    BY DEF Return
  <2>. QED
    BY <2>1, <2>2, <2>3, ReturnDoes
<1>. QED
  BY <1>1, <1>2, <1>3, <1>4, <1>5

LEMMA SaveOrRemoveUndisturbed ==
    ASSUME TypeOK, Locked, Undisturbed, NEW p \in Procs, SaveOrRemove(p)
    PROVE  Undisturbed'
BY SaveOrRemoveDoes, NoProgress, Seen

\* Taking the lock, and recovery deciding what to do.
LEMMA RecoverUndisturbed ==
    ASSUME TypeOK, Locked, Undisturbed, NEW p \in Procs,
           Begin(p) \/ NothingPending(p) \/ RecoverPending(p) \/ Ambiguous(p)
    PROVE  Undisturbed'
<1>. USE DEF disk, entries, history, doubts
<1>1. CASE Begin(p)
  <2>1. lock = None /\ UNCHANGED <<desktop, records, journal, disturbed>>
    BY <1>1, GoOnType DEF Begin
  <2>2. proc'[p].pc = "recovering" /\ \A q \in Procs \ {p} : proc'[q] = proc[q]
    BY <1>1 DEF Begin, TypeOK, Resting
  <2>. QED
    BY <2>1, <2>2, ViewKept DEF Renaming, Transacting
<1>2. ASSUME At(p, "recovering")
      PROVE  lock = p
  BY <1>2 DEF At, Locked, Active, ActivePc
<1>3. CASE NothingPending(p) \/ Ambiguous(p)
  <2>1. /\ At(p, "recovering")
        /\ UNCHANGED <<desktop, records, journal, disturbed>>
    BY <1>3 DEF NothingPending, Ambiguous
  <2>2. Return(p) \/ Goto(p, "operating")
    BY <1>3 DEF NothingPending, Ambiguous
  <2>3. /\ proc'[p].pc \notin Renaming
        /\ \A q \in Procs \ {p} : proc'[q] = proc[q]
    BY <2>2, ReturnDoes, GotoDoes DEF Renaming, Transacting
  <2>. QED
    BY <1>2, <2>1, <2>3, ViewKept
<1>4. CASE RecoverPending(p)
  <2>1. /\ lock = p /\ UNCHANGED <<desktop, records, journal, disturbed>>
        /\ proc[p] \in Process
    BY <1>2, <1>4 DEF RecoverPending, TypeOK
  <2>2. PICK pc \in {"verifying", "settling"} :
          /\ IF pc = "verifying" THEN NotYetMoved(journal)
                                 ELSE AlreadyMoved(journal)
          /\ proc' = [proc EXCEPT ![p] = [@ EXCEPT !.pc = pc, !.txn = journal]]
    BY <1>4 DEF RecoverPending
  <2>3. /\ proc'[p].pc = pc /\ proc'[p].txn = journal
        /\ proc'[p].own = proc[p].own
        /\ \A q \in Procs \ {p} : proc'[q] = proc[q]
    BY <2>1, <2>2 DEF TypeOK, Process
  <2>4. ~proc[p].own
    BY <1>4 DEF RecoverPending, At, Locked, Sound
  <2>5. Progress(p)'
    BY <2>1, <2>2, <2>3, <2>4
       DEF Progress, NotYetMoved, AlreadyMoved
  <2>. QED
    BY <2>1, <2>3, <2>5, ViewKept
<1>. QED
  BY <1>1, <1>3, <1>4

-----------------------------------------------------------------------------
\* The disk

\* It is enough to look at the disk and at the process with the lock.
LEMMA Looked ==
    ASSUME TypeOK, Locked, NEW p \in Procs, lock \in {p, None},
           \A q \in Procs \ {p} : proc'[q] = proc[q],
           ~disturbed' /\ ~unsure' =>
                /\ Flushed(p)'
                /\ \/ Explained'
                   \/ lock' = None /\ \E j \in Journal : Leftover(j)'
    PROVE  Stored'
BY Others DEF Stored

\* What the disk holds while a process renames.
LEMMA RenamingDisk ==
    ASSUME TypeOK, Locked, Undisturbed, Stored, ~disturbed, ~unsure,
           NEW p \in Procs, proc[p].pc \in Renaming
    PROVE  /\ Flushed(p) /\ durable.journal = journal
           /\ proc[p].pc = "preparing" => /\ durable.desktop = desktop
                                          /\ durable.records = records
           /\ proc[p].pc # "preparing" => OnDisk(proc[p].txn)
<1>1. /\ lock = p /\ proc[p].txn # None
      /\ proc[p].pc = "preparing" => journal = None
      /\ proc[p].pc # "preparing" => journal = proc[p].txn
  BY Underway
<1>2. Explained /\ Flushed(p)
  BY <1>1, NoneIsNothing DEF Stored
<1>3. ~Cut
  <2>1. \A q \in Procs : proc[q].pc # "restoreRecord"
    BY <1>1 DEF Locked, Active, ActivePc, Renaming, Transacting, Unpending,
       Saving
  <2>. QED
    BY <1>1, <2>1, NoneIsNothing DEF Cut
<1>. QED
  BY <1>1, <1>2, <1>3 DEF Explained

\* The same of one that answers a call, saves or removes.
LEMMA UnpendingDisk ==
    ASSUME TypeOK, Locked, Stored, ~disturbed, ~unsure,
           NEW p \in Procs, proc[p].pc \in Unpending
    PROVE  /\ lock = p /\ journal = None
           /\ durable.journal = None /\ durable.desktop = desktop
           /\ \/ durable.records = records
              \/ proc[p].pc = "restoreRecord" /\ Registered(proc[p].id)
<1>1. lock = p /\ journal = None
  BY Settled
<1>2. Explained
  BY <1>1, NoneIsNothing DEF Stored
<1>3. ASSUME Cut
      PROVE  proc[p].pc = "restoreRecord" /\ Registered(proc[p].id)
  <2>1. \A q \in Procs \ {p} : proc[q].pc # "restoreRecord"
    BY <1>1 DEF Locked, Active, ActivePc, Unpending, Saving
  <2>. QED
    BY <1>1, <1>3, <2>1, NoneIsNothing DEF Cut
<1>. QED
  BY <1>1, <1>2, <1>3 DEF Explained

\* A rename that is about to drop its journal is all on the disk.
LEMMA Ending ==
    ASSUME TypeOK, Locked, Undisturbed, Stored, ~disturbed, ~unsure,
           NEW p \in Procs, NEW j, j = proc[p].txn,
           \/ At(p, "clearing")
           \/ (At(p, "refused") \/ At(p, "aborting")) /\ CanAbort(p)
    PROVE  /\ durable.desktop = desktop /\ durable.records = records
           /\ desktop[records[j.id].target] = j.file
<1>1. proc[p].pc \in Renaming /\ proc[p].pc # "preparing"
  BY DEF At, Renaming, Transacting
<1>2. /\ lock = p /\ j \in Journal /\ journal = j
      /\ Progress(p) /\ Pending(j)
      /\ j.old # j.new /\ j.file # None
      /\ j.old \in Names /\ j.new \in Names /\ j.id \in Ids
  BY <1>1, Underway
<1>3. Flushed(p) /\ OnDisk(j)
  BY <1>1, RenamingDisk
<1>4. CASE At(p, "clearing")
  BY <1>2, <1>3, <1>4 DEF At, Progress, Flushed, AlreadyMoved
<1>5. CASE (At(p, "refused") \/ At(p, "aborting")) /\ CanAbort(p)
  <2>1. proc[p].own
    BY <1>5 DEF Locked, Sound, At
  <2>2. records[j.id].target = j.old /\ desktop[j.old] = j.file
    BY <1>2, <1>5, <2>1 DEF Progress, At, CanAbort
  <2>3. durable.desktop = desktop
    BY <1>2, <1>3, <2>2 DEF OnDisk, Renamed
  <2>4. durable.records = records
    <3>1. ASSUME records = Retargeted(durable.records, j),
                 durable.records[j.id] # None
          PROVE  FALSE
      BY <1>2, <2>2, <3>1, RetargetedType DEF TypeOK
    <3>. QED
      BY <1>3, <3>1 DEF OnDisk
  <2>. QED
    BY <2>2, <2>3, <2>4
<1>. QED
  BY <1>4, <1>5

\* The record names the new path, and is not durable.
LEMMA RecordUnsynced ==
    ASSUME TypeOK, NEW j \in Journal, Pending(j), OnDisk(j), Retargetable(j),
           durable.desktop = desktop, j.old # j.new,
           UNCHANGED <<desktop, durable>>, records' = Retargeted(records, j)
    PROVE  OnDisk(j)'
<1>1. records \in [Ids -> Record \cup {None}] /\ j.id \in Ids
      /\ durable.records \in [Ids -> Record \cup {None}]
  BY DEF TypeOK, Journal
<1>2. CASE durable.records # records
  <2>1. durable.records[j.id] # None /\ records = Retargeted(durable.records, j)
        /\ durable.records[j.id].target = j.old
    BY <1>2 DEF OnDisk
  <2>2. Retargeted(Retargeted(durable.records, j), j)
            = Retargeted(durable.records, j)
    BY <1>1 DEF Retargeted
  <2>. QED
    BY <2>1, <2>2 DEF OnDisk
<1>3. CASE durable.records = records
  <2>1. CASE records[j.id].target = j.old
    BY <1>3, <2>1 DEF OnDisk, Retargetable, Registered
  <2>2. CASE records[j.id].target = j.new
    <3>1. records[j.id] \in Record
      BY <1>1 DEF Retargetable, Registered
    <3>2. [records[j.id] EXCEPT !.target = j.new] = records[j.id]
      BY <2>2, <3>1 DEF Record
    <3>3. Retargeted(records, j) = records
      BY <1>1, <3>2 DEF Retargeted
    <3>. QED
      BY <1>3, <3>3 DEF OnDisk
  <2>. QED
    BY <2>1, <2>2 DEF Retargetable
<1>. QED
  BY <1>2, <1>3

\* The first write of a journal, or its removal, is not durable.
LEMMA JournalUnsynced ==
    ASSUME TypeOK, Locked, Undisturbed, Stored, ~disturbed, ~unsure,
           NEW p \in Procs, NEW j, j = proc[p].txn,
           \/ At(p, "preparing") /\ journal' = j
           \/ At(p, "clearing") /\ journal' = None
           \/ /\ At(p, "refused") \/ At(p, "aborting")
              /\ CanAbort(p) /\ journal' = None,
           UNCHANGED <<desktop, records, durable>>
    PROVE  Leftover(j)' /\ j \in Journal
<1>1. proc[p].pc \in Renaming
  BY DEF At, Renaming, Transacting
<1>2. /\ j \in Journal /\ j # None /\ Pending(j) /\ Progress(p)
      /\ proc[p].pc = "preparing" => journal = None
      /\ proc[p].pc # "preparing" => journal = j
  BY <1>1, Underway
<1>3. durable.journal = journal
  BY <1>1, RenamingDisk
<1>4. Pending(j)'
  BY <1>2, PendingKept
<1>5. CASE At(p, "preparing")
  <2>1. durable.desktop = desktop /\ durable.records = records
    BY <1>1, <1>5, RenamingDisk DEF At
  <2>2. proc[p].own
    BY <1>5 DEF Locked, Sound, At
  <2>3. desktop[records[j.id].target] = j.file
    BY <1>2, <1>5, <2>2 DEF At, Progress, NotYetMoved
  <2>. QED
    BY <1>2, <1>3, <1>4, <1>5, <2>1, <2>3 DEF Leftover, At
<1>6. CASE ~At(p, "preparing")
  <2>1. /\ durable.desktop = desktop /\ durable.records = records
        /\ desktop[records[j.id].target] = j.file
    BY <1>6, Ending
  <2>. QED
    BY <1>2, <1>3, <1>4, <1>6, <2>1 DEF Leftover, At
<1>. QED
  BY <1>5, <1>6

\* A step of a rename leaves nothing that its journal does not make up for.
LEMMA TransactStored ==
    ASSUME TypeOK, Locked, Undisturbed, Stored, NEW p \in Procs, Transact(p)
    PROVE  Stored'
<1>. USE DEF disk, entries, history, doubts
<1>1. proc[p].pc \in Renaming
  BY DEF Transact, Verify, Move, SyncMove, MoveFails, Abort, Settle, WritePhase,
     UpdateRecord, ClearJournal, At, Renaming, Transacting
<1>2. disturbed' = disturbed
  BY DEF Transact, Verify, Move, SyncMove, MoveFails, Abort, Settle, WritePhase,
     UpdateRecord, ClearJournal
<1>3. PICK j : j = proc[p].txn
  OBVIOUS
<1>4. /\ lock = p /\ j \in Journal /\ j # None
      /\ proc[p].pc = "preparing" => journal = None
      /\ proc[p].pc # "preparing" => journal = j
  BY <1>1, <1>3, Underway
<1>5. \A q \in Procs \ {p} : proc'[q] = proc[q]
  <2>1. (\E pc : Goto(p, pc)) \/ Return(p)
        => \A q \in Procs \ {p} : proc'[q] = proc[q]
    BY GotoDoes, ReturnDoes
  <2>2. CASE ClearJournal(p)
    BY <2>1, <2>2 DEF ClearJournal, TypeOK
  <2>3. CASE ~ClearJournal(p)
    BY <2>1, <2>3 DEF Transact, Verify, Move, SyncMove, MoveFails, Abort,
       Settle, WritePhase, UpdateRecord
  <2>. QED
    BY <2>2, <2>3
<1>6. CASE disturbed
  BY <1>2, <1>6 DEF Stored
<1>7. ASSUME ~disturbed, ~unsure
      PROVE  /\ Flushed(p)'
             /\ \/ Explained'
                \/ lock' = None /\ \E k \in Journal : Leftover(k)'
  <2>1. /\ Progress(p) /\ Pending(j)
        /\ j.old # j.new /\ j.file # None
        /\ j.old \in Names /\ j.new \in Names /\ j.id \in Ids
        /\ desktop[j.old] = j.file <=> NotYetMoved(j)
        /\ desktop[j.new] = j.file <=> AlreadyMoved(j)
    BY <1>1, <1>3, <1>7, Underway
  <2>2. /\ Flushed(p) /\ durable.journal = journal
        /\ proc[p].pc = "preparing" => /\ durable.desktop = desktop
                                       /\ durable.records = records
        /\ proc[p].pc # "preparing" => OnDisk(j)
    BY <1>1, <1>3, <1>7, RenamingDisk
  <2>3. Return(p) => Flushed(p)' /\ lock' = None
    BY ReturnDoes, NoProgress DEF Return
  <2>4. ASSUME proc[p].pc # "preparing",
               UNCHANGED <<records, journal>>, desktop' = desktop,
               \/ UNCHANGED durable
               \/ /\ durable'.desktop = desktop /\ durable'.journal = durable.journal
                  /\ durable'.records = durable.records
        PROVE  Explained'
    BY <1>4, <2>2, <2>4 DEF Explained, OnDisk, Renamed, Retargeted
  <2>5. CASE Verify(p)
    <3>1. proc[p].pc # "preparing" /\ UNCHANGED <<desktop, records, journal, durable>>
          /\ proc'[p].pc = "moving"
      BY <2>5, GotoDoes DEF Verify, At
    <3>. QED
      BY <2>4, <3>1 DEF Flushed
  <2>6. CASE Move(p)
    <3>1. proc[p].pc = "moving" /\ proc'[p].pc = "moved"
      BY <2>6, GotoDoes DEF Move, At
    <3>2. /\ desktop' = Renamed(desktop, j)
          /\ UNCHANGED <<records, journal, durable>>
      BY <1>3, <2>6 DEF Move, NoReplaceRename
    <3>3. NotYetMoved(j) /\ desktop[j.new] = None
      BY <1>3, <2>1, <3>1 DEF Progress, NotYetMoved
    <3>4. durable.desktop = desktop
      BY <2>1, <2>2, <3>1, <3>3 DEF OnDisk, Renamed, NotYetMoved
    <3>5. OnDisk(j)'
      BY <2>2, <3>1, <3>2, <3>3, <3>4 DEF OnDisk, Renamed, Retargeted
    <3>6. Explained'
      BY <1>4, <2>2, <3>1, <3>2, <3>5 DEF Explained
    <3>. QED
      BY <3>1, <3>6 DEF Flushed
  <2>7. CASE SyncMove(p)
    <3>1. PICK pc \in {"filing", "settling"} : Goto(p, pc)
      BY <2>7 DEF SyncMove
    <3>2. /\ proc[p].pc = "moved" /\ UNCHANGED <<desktop, records, journal>>
          /\ proc'[p].pc = pc
          /\ durable'.desktop = desktop /\ durable'.records = durable.records
          /\ durable'.journal = durable.journal
      BY <2>7, <3>1, GotoDoes, SyncDoes DEF SyncMove, At
    <3>. QED
      BY <2>4, <3>2 DEF Flushed
  <2>8. CASE MoveFails(p)
    <3>1. /\ proc[p].pc \in {"verifying", "moving", "moved"}
          /\ UNCHANGED <<desktop, records, journal>>
          /\ \/ UNCHANGED durable
             \/ /\ durable'.desktop = desktop
                /\ durable'.records = durable.records
                /\ durable'.journal = durable.journal
      BY <2>8, SyncDoes DEF MoveFails, At
    <3>2. Flushed(p)'
      <4>1. ASSUME NEW pc \in {"refused", "aborting"}, Goto(p, pc)
            PROVE  Flushed(p)'
        BY <4>1, GotoDoes DEF Flushed
      <4>. QED
        BY <2>3, <2>8, <4>1 DEF MoveFails
    <3>. QED
      BY <2>4, <3>1, <3>2
  <2>9. CASE Abort(p)
    <3>1. /\ At(p, "refused") \/ At(p, "aborting")
          /\ Return(p) /\ UNCHANGED <<desktop, records>>
      BY <2>9 DEF Abort
    <3>2. CASE UNCHANGED <<journal, durable>>
      BY <2>3, <2>4, <3>1, <3>2 DEF At
    <3>3. CASE CanAbort(p) /\ WriteJournal(None)
      <4>1. durable.desktop = desktop /\ durable.records = records
        BY <1>3, <1>7, <3>1, <3>3, Ending
      <4>. QED
        BY <2>3, <3>1, <3>3, <4>1, JournalDoes DEF Explained
    <3>4. CASE CanAbort(p) /\ WriteJournalFails(None) /\ journal' # journal
      <4>1. Leftover(j)'
        BY <1>3, <1>7, <3>1, <3>4, JournalUnsynced DEF WriteJournalFails
      <4>. QED
        BY <1>4, <2>3, <3>1, <4>1
    <3>. QED
      BY <2>9, <3>2, <3>3, <3>4 DEF Abort, WriteJournalFails
  <2>10. CASE Settle(p)
    <3>1. proc[p].pc = "settling" /\ UNCHANGED <<desktop, records, journal>>
      BY <2>10 DEF Settle, At
    <3>2. CASE Return(p) /\ UNCHANGED durable
      BY <2>3, <2>4, <3>1, <3>2
    <3>3. CASE SyncDesktop /\ Goto(p, "filing")
      <4>1. /\ proc'[p].pc = "filing" /\ durable'.desktop = desktop
            /\ durable'.records = durable.records
            /\ durable'.journal = durable.journal
        BY <3>3, GotoDoes, SyncDoes
      <4>. QED
        BY <2>4, <3>1, <4>1 DEF Flushed
    <3>. QED
      BY <2>10, <3>2, <3>3 DEF Settle
  <2>11. CASE WritePhase(p)
    <3>1. /\ UNCHANGED <<desktop, records>>
          /\ proc[p].pc \in {"preparing", "filing", "confirming"}
      BY <2>11 DEF WritePhase, At
    <3>2. CASE WriteJournalFails(j) /\ Return(p)
      <4>1. CASE At(p, "preparing") /\ journal' = j
        <5>1. Leftover(j)'
          BY <1>3, <1>7, <3>1, <3>2, <4>1, JournalUnsynced DEF WriteJournalFails
        <5>. QED
          BY <1>4, <2>3, <3>2, <5>1
      <4>2. CASE At(p, "preparing") /\ journal' = journal
        BY <1>4, <2>2, <2>3, <3>1, <3>2, <4>2
           DEF Explained, WriteJournalFails, At
      <4>3. CASE ~At(p, "preparing")
        BY <1>4, <2>3, <2>4, <3>1, <3>2, <4>3 DEF WriteJournalFails, At
      <4>. QED
        BY <3>2, <4>1, <4>2, <4>3 DEF WriteJournalFails
    <3>3. ASSUME NEW pc, Goto(p, pc), WriteJournal(j),
                 pc = CASE At(p, "preparing")  -> "verifying"
                        [] At(p, "filing")     -> "updating"
                        [] At(p, "confirming") -> "clearing"
          PROVE  Explained' /\ Flushed(p)'
      <4>1. /\ proc'[p].pc = pc /\ durable'.desktop = durable.desktop
            /\ durable'.records = durable.records
            /\ journal' = j /\ durable'.journal = j
        BY <3>3, GotoDoes, JournalDoes
      <4>2. \/ proc[p].pc = "preparing" /\ pc = "verifying"
            \/ proc[p].pc = "filing" /\ pc = "updating"
            \/ proc[p].pc = "confirming" /\ pc = "clearing"
        BY <3>1, <3>3 DEF At
      <4>3. OnDisk(j)'
        BY <2>2, <3>1, <4>1 DEF OnDisk, Renamed, Retargeted
      <4>. QED
        BY <1>4, <2>2, <3>1, <4>1, <4>2, <4>3 DEF Explained, Flushed
    <3>. QED
      BY <1>3, <2>11, <3>2, <3>3 DEF WritePhase
  <2>12. CASE UpdateRecord(p)
    <3>1. /\ proc[p].pc = "updating" /\ journal = j
          /\ UNCHANGED <<desktop, journal>>
      BY <1>4, <2>12 DEF UpdateRecord, At
    <3>2. durable.desktop = desktop /\ OnDisk(j) /\ durable.journal = j
      BY <2>2, <3>1 DEF Flushed
    <3>3. CASE Return(p) /\ UNCHANGED <<records, durable>>
      BY <2>3, <2>4, <3>1, <3>3
    <3>4. CASE /\ Retargetable(j) /\ Return(p) /\ UNCHANGED durable
               /\ records' = Retargeted(records, j)
      <4>1. OnDisk(j)'
        BY <1>4, <2>1, <3>1, <3>2, <3>4, RecordUnsynced
      <4>. QED
        BY <1>4, <2>3, <3>1, <3>2, <3>4, <4>1 DEF Explained
    <3>5. CASE Retargetable(j) /\ Goto(p, "confirming")
               /\ WriteRecord(j.id, Retargeted(records, j)[j.id])
      <4>1. proc'[p].pc = "confirming"
        BY <3>5, GotoDoes
      <4>2. Retargeted(records, j)[j.id] \in Record /\ None \notin Record
        BY <1>4, <3>5, RetargetDoes, NoneIsNothing
      <4>3. /\ durable'.records = records' /\ durable'.desktop = desktop'
            /\ durable'.journal = journal'
        BY <2>1, <3>1, <3>2, <3>5, <4>2, RecordDoes
      <4>. QED
        BY <1>4, <3>1, <4>1, <4>3 DEF Explained, OnDisk, Flushed
    <3>6. ASSUME Retargetable(j)
          PROVE  [records EXCEPT ![j.id] = Retargeted(records, j)[j.id]]
                        = Retargeted(records, j)
      BY <1>4, <3>6, RetargetDoes
    <3>. QED
      BY <1>3, <2>12, <3>3, <3>4, <3>5, <3>6 DEF UpdateRecord, WriteRecordFails
  <2>13. CASE ClearJournal(p)
    <3>1. At(p, "clearing") /\ UNCHANGED <<desktop, records>>
      BY <2>13 DEF ClearJournal
    <3>2. CASE WriteJournal(None)
      <4>1. durable.desktop = desktop /\ durable.records = records
        BY <1>3, <1>7, <3>1, Ending
      <4>2. Explained'
        BY <3>1, <3>2, <4>1, JournalDoes DEF Explained
      <4>3. ASSUME proc' = [proc EXCEPT ![p] =
                              [@ EXCEPT !.pc = "operating", !.txn = None]]
            PROVE  Flushed(p)'
        BY <4>3 DEF TypeOK, Process, Flushed
      <4>4. journal # None /\ journal' = None
        BY <1>4, <3>1, <3>2 DEF WriteJournal, At
      <4>. QED
        BY <2>3, <2>13, <4>2, <4>3 DEF ClearJournal
    <3>3. CASE WriteJournalFails(None) /\ Return(p)
      <4>1. CASE journal' = journal
        BY <2>3, <2>4, <3>1, <3>3, <4>1 DEF WriteJournalFails, At
      <4>2. CASE journal' = None
        <5>1. Leftover(j)'
          BY <1>3, <1>7, <3>1, <3>3, <4>2, JournalUnsynced DEF WriteJournalFails
        <5>. QED
          BY <1>4, <2>3, <3>3, <5>1
      <4>. QED
        BY <3>3, <4>1, <4>2 DEF WriteJournalFails
    <3>. QED
      BY <2>13, <3>2, <3>3 DEF ClearJournal
  <2>. QED
    BY <2>5, <2>6, <2>7, <2>8, <2>9, <2>10, <2>11, <2>12, <2>13 DEF Transact
<1>8. CASE Synced' /\ WritePhase(p)
  <2>1. /\ durable'.desktop = desktop' /\ durable'.records = records'
        /\ durable'.journal = journal'
    BY <1>8 DEF Synced
  <2>2. Explained' /\ Flushed(p)'
    BY <2>1 DEF Explained, Flushed, OnDisk
  <2>. QED
    BY <1>4, <1>5, <2>2, Looked
<1>9. ASSUME ~unsure', ~(Synced' /\ WritePhase(p))
      PROVE  ~unsure
  BY <1>9 DEF Transact, Verify, Move, SyncMove, MoveFails, Abort, Settle,
     WritePhase, UpdateRecord, ClearJournal
<1>. QED
  BY <1>2, <1>4, <1>5, <1>6, <1>7, <1>8, <1>9, Looked

\* A step that leaves the disk alone and no doubt behind.
LEMMA DiskKept ==
    ASSUME TypeOK, Locked, Stored, NEW p \in Procs, lock = p,
           \A q \in Procs \ {p} : proc'[q] = proc[q],
           proc[p].pc # "restoreRecord", Flushed(p)',
           UNCHANGED <<desktop, records, journal, durable, unsure, disturbed>>
    PROVE  Stored'
<1>1. ~Cut
  <2>1. \A q \in Procs : proc[q].pc # "restoreRecord"
    BY NoneIsNothing DEF Locked, Active, ActivePc, Unpending, Saving
  <2>. QED
    BY <2>1, NoneIsNothing DEF Cut
<1>2. ASSUME ~disturbed, ~unsure
      PROVE  Explained'
  <2>1. Explained
    BY <1>2, NoneIsNothing DEF Stored
  <2>. QED
    BY <1>1, <2>1 DEF Explained, OnDisk, Renamed, Retargeted
<1>. QED
  BY <1>2, Looked

\* Whoever takes the lock and is sure finds an explained disk.
LEMMA GoOnStored ==
    ASSUME TypeOK, Locked, Stored, NEW p \in Procs, lock = None, GoOn,
           \A q \in Procs \ {p} : proc'[q] = proc[q],
           proc'[p].pc = "recovering",
           UNCHANGED <<desktop, records, journal, durable>>
    PROVE  Stored'
<1>1. ASSUME ~disturbed', ~unsure'
      PROVE  Explained'
  <2>1. CASE Synced
    BY <2>1 DEF Synced, Explained, OnDisk
  <2>2. CASE ~Synced
    <3>1. ~unsure /\ ~disturbed /\ journal # None /\ durable.journal = journal
      BY <1>1, <2>2 DEF GoOn
    <3>2. Explained
      BY <3>1 DEF Stored, Leftover
    <3>. QED
      BY <3>1, <3>2 DEF Explained, OnDisk, Renamed, Retargeted
  <2>. QED
    BY <2>1, <2>2
<1>. QED
  BY <1>1, Looked, NoProgress DEF Renaming, Transacting

\* Taking the lock, and recovery deciding what to do.
LEMMA RecoverStored ==
    ASSUME TypeOK, Locked, Stored, NEW p \in Procs,
           Begin(p) \/ NothingPending(p) \/ RecoverPending(p) \/ Ambiguous(p)
    PROVE  Stored'
<1>. USE DEF disk, entries, history, doubts
<1>1. CASE Begin(p)
  <2>1. proc'[p].pc = "recovering" /\ \A q \in Procs \ {p} : proc'[q] = proc[q]
    BY <1>1 DEF Begin, TypeOK, Resting
  <2>. QED
    BY <1>1, <2>1, GoOnStored DEF Begin
<1>2. CASE NothingPending(p) \/ RecoverPending(p) \/ Ambiguous(p)
  <2>1. /\ At(p, "recovering") /\ proc[p] \in Process
        /\ UNCHANGED <<desktop, records, journal, durable, unsure, disturbed>>
    BY <1>2 DEF NothingPending, RecoverPending, Ambiguous, TypeOK
  <2>2. lock = p
    BY <2>1 DEF At, Locked, Active, ActivePc
  <2>3. /\ proc'[p].pc \in {"idle", "operating", "verifying", "settling"}
        /\ \A q \in Procs \ {p} : proc'[q] = proc[q]
    <3>1. CASE RecoverPending(p)
      BY <2>1, <3>1 DEF RecoverPending, TypeOK, Process
    <3>2. CASE NothingPending(p) \/ Ambiguous(p)
      BY <3>2, GotoDoes, ReturnDoes DEF NothingPending, Ambiguous
    <3>. QED
      BY <1>2, <3>1, <3>2
  <2>. QED
    BY <2>1, <2>2, <2>3, DiskKept DEF At, Flushed
<1>. QED
  BY <1>1, <1>2

\* A call that leaves the disk alone, or renames what nothing registers.
LEMMA ServeStored ==
    ASSUME TypeOK, Locked, Stored, NEW p \in Procs, Serve(p)
    PROVE  Stored'
<1>. USE DEF disk, entries, history, doubts
<1>1. proc[p] \in Process
  BY DEF TypeOK
<1>2. CASE RenamePlain(p)
  <2>1. proc[p].pc = "operating" /\ proc[p].pc \in Unpending
    BY <1>2 DEF RenamePlain, Operating, At, Unpending
  <2>2. lock = p /\ journal' = None
    BY <1>2, <2>1, Settled DEF RenamePlain
  <2>3. ASSUME ~disturbed', ~unsure'
        PROVE  Explained'
    <3>1. /\ ~disturbed /\ ~unsure /\ records' = records
          /\ durable' = [durable EXCEPT !.desktop = desktop']
      BY <1>2, <2>3 DEF RenamePlain
    <3>2. durable.records = records /\ durable.journal = None
      BY <2>1, <3>1, UnpendingDisk
    <3>. QED
      BY <2>2, <3>1, <3>2 DEF Explained, TypeOK
  <2>. QED
    BY <1>2, <2>2, <2>3, ReturnDoes, NoProgress, Looked DEF RenamePlain
<1>3. CASE ChooseCandidate(p)
  <2>1. /\ proc'[p].pc \in {"chosen", "idle"}
        /\ \A q \in Procs \ {p} : proc'[q] = proc[q]
        /\ proc[p].pc = "previewed"
    BY <1>3, GotoDoes DEF ChooseCandidate, TypeOK, Resting, At
  <2>2. UNCHANGED <<desktop, records, journal, durable, unsure, disturbed,
                    torn, lock>>
    BY <1>3 DEF ChooseCandidate, Goto
  <2>3. Cut => Cut'
    BY <2>1, <2>2 DEF Cut, Registered
  <2>4. Explained => Explained'
    BY <2>2, <2>3 DEF Explained, OnDisk, Renamed, Retargeted
  <2>5. \A j \in Journal : Leftover(j) => Leftover(j)'
    BY <2>2, PendingKept DEF Leftover
  <2>6. ASSUME NEW q \in Procs, Flushed(q)
        PROVE  Flushed(q)'
    BY <2>1, <2>2, <2>6 DEF Flushed
  <2>. QED
    BY <2>2, <2>4, <2>5, <2>6 DEF Stored
<1>4. CASE BeginCommit(p)
  <2>1. proc'[p].pc = "recovering" /\ \A q \in Procs \ {p} : proc'[q] = proc[q]
    BY <1>1, <1>4 DEF BeginCommit, TypeOK, Process
  <2>. QED
    BY <1>4, <2>1, GoOnStored DEF BeginCommit
<1>5. CASE Serve(p) /\ ~RenamePlain(p) /\ ~ChooseCandidate(p) /\ ~BeginCommit(p)
  <2>1. /\ proc[p].pc = "operating"
        /\ UNCHANGED <<desktop, records, journal, durable, unsure, disturbed>>
    BY <1>5 DEF Serve, ReadOnly, RenameRegistered, RenameRefused, Register,
       SetFlag, Resave, PreviewRelink, CommitRelink, CallFails, Operating, At
  <2>2. lock = p
    BY <2>1, Settled DEF Unpending
  <2>3. \/ Return(p) \/ \E i, record : Project(p, i, record)
        \/ \E pc \in {"preparing", "dropLauncher", "previewed"} :
                /\ proc'[p].pc = pc
                /\ \A q \in Procs \ {p} : proc'[q] = proc[q]
    <3>1. CASE ReadOnly(p) \/ RenameRefused(p) \/ CallFails(p)
      BY <3>1 DEF ReadOnly, RenameRefused, CallFails
    <3>2. CASE Register(p) \/ Resave(p) \/ CommitRelink(p)
      BY <3>2 DEF Register, Resave, CommitRelink
    <3>3. CASE RenameRegistered(p)
      <4>1. PICK j : proc' = [proc EXCEPT ![p] = [@ EXCEPT
                                !.pc = "preparing", !.own = TRUE, !.txn = j]]
        BY <3>3 DEF RenameRegistered
      <4>. QED
        BY <1>1, <4>1 DEF TypeOK, Process
    <3>4. CASE PreviewRelink(p)
      BY <1>1, <3>4 DEF PreviewRelink, TypeOK, Process
    <3>5. CASE SetFlag(p)
      <4>1. CASE \E i, record : Project(p, i, record)
        BY <4>1
      <4>2. CASE proc' = [proc EXCEPT ![p] = [@ EXCEPT !.pc = "dropLauncher",
                                                       !.id = proc[p].call.id]]
        BY <1>1, <4>2 DEF TypeOK, Process
      <4>. QED
        BY <3>5, <4>1, <4>2 DEF SetFlag
    <3>. QED
      BY <1>5, <3>1, <3>2, <3>3, <3>4, <3>5 DEF Serve
  <2>4. Flushed(p)' /\ \A q \in Procs \ {p} : proc'[q] = proc[q]
    BY <2>3, ReturnDoes, ProjectDoes DEF Flushed
  <2>. QED
    BY <2>1, <2>2, <2>4, DiskKept
<1>. QED
  BY <1>2, <1>3, <1>4, <1>5

\* A save or a removal: the record is synced, or the failure is one that is
\* rolled back or leaves the save or the removal torn.
LEMMA SaveOrRemoveStored ==
    ASSUME TypeOK, Locked, Stored, NEW p \in Procs, SaveOrRemove(p)
    PROVE  Stored'
<1>. USE DEF disk, entries, history, doubts
<1>1. PICK i : i = proc[p].id
  OBVIOUS
<1>2. /\ proc[p].pc \in Saving \cup Removing
      /\ lock = p /\ journal = None /\ journal' = None
      /\ desktop' = desktop /\ unsure' = unsure /\ disturbed' = disturbed
      /\ i \in Ids
      /\ proc[p].after \in Record \cup {None}
      /\ proc[p].before.record \in Record \cup {None}
      /\ proc'[p].pc \notin Renaming
      /\ \A q \in Procs \ {p} : proc'[q] = proc[q]
  BY <1>1, SaveOrRemoveDoes
<1>3. ASSUME ~disturbed, ~unsure
      PROVE  Explained'
  <2>1. /\ durable.journal = None /\ durable.desktop = desktop
        /\ \/ durable.records = records
           \/ proc[p].pc = "restoreRecord" /\ Registered(i)
    BY <1>1, <1>2, <1>3, UnpendingDisk DEF Unpending
  <2>2. ASSUME durable'.journal = None, durable'.desktop = desktop,
               durable'.records = records' \/ Cut'
        PROVE  Explained'
    BY <1>2, <2>2 DEF Explained
  <2>3. CASE WriteLauncher(p) \/ RestoreLauncher(p) \/ DropLauncher(p)
    BY <2>1, <2>2, <2>3 DEF WriteLauncher, RestoreLauncher, DropLauncher, At
  <2>4. CASE WriteShortcut(p) \/ RestoreShortcut(p) \/ DropShortcut(p)
    <3>1. /\ UNCHANGED records /\ proc[p].pc # "restoreRecord"
          /\ UNCHANGED durable \/ \E in : PutShortcut(i, in)
      BY <1>1, <2>4 DEF WriteShortcut, RestoreShortcut, DropShortcut, At
    <3>2. /\ durable'.journal = None /\ durable'.desktop = desktop
          /\ durable'.records = records'
      BY <2>1, <3>1, ShortcutDoes
    <3>. QED
      BY <2>2, <3>2
  <2>5. CASE SaveRecord(p)
    <3>1. proc[p].pc = "saving" /\ proc[p].after # None
      BY <2>5 DEF SaveRecord, At, Locked, Sound, Saving
    <3>2. CASE WriteRecord(i, proc[p].after)
      BY <1>2, <2>1, <2>2, <3>1, <3>2, RecordDoes
    <3>3. CASE WriteRecordFails(i, proc[p].after) /\ Goto(p, "restoreRecord")
      <4>1. proc'[p].pc = "restoreRecord" /\ proc'[p].id = i
        BY <1>1, <3>3, GotoDoes
      <4>2. records' # records => records'[i] # None
        BY <1>2, <3>1, <3>3 DEF WriteRecordFails, TypeOK
      <4>3. durable' = durable
        BY <3>3 DEF WriteRecordFails
      <4>. QED
        BY <2>1, <2>2, <3>1, <4>1, <4>2, <4>3 DEF Cut, Registered
    <3>. QED
      BY <1>1, <2>5, <3>2, <3>3 DEF SaveRecord
  <2>6. CASE RestoreRecord(p)
    <3>1. CASE WriteRecord(i, proc[p].before.record)
      BY <1>2, <2>1, <2>2, <3>1, RecordDoes DEF Registered
    <3>2. CASE WriteRecordFails(i, proc[p].before.record) /\ Return(p)
                    /\ torn' = "save"
      BY <2>1, <2>2, <3>2 DEF Cut, Return, WriteRecordFails
    <3>. QED
      BY <1>1, <2>6, <3>1, <3>2 DEF RestoreRecord
  <2>7. CASE DropRecord(p)
    <3>1. CASE WriteRecord(i, None)
      BY <1>2, <2>1, <2>2, <2>7, <3>1, RecordDoes DEF DropRecord, At
    <3>2. CASE WriteRecordFails(i, None) /\ CutRemoval(p)
      BY <2>1, <2>2, <3>2 DEF Cut, CutRemoval, Return, WriteRecordFails
    <3>. QED
      BY <1>1, <2>7, <3>1, <3>2 DEF DropRecord
  <2>. QED
    BY <2>3, <2>4, <2>5, <2>6, <2>7 DEF SaveOrRemove
<1>. QED
  BY <1>2, <1>3, NoProgress, Looked DEF Stored

\* A process that is killed leaves what a failed write leaves.
LEMMA CrashStored ==
    ASSUME TypeOK, Locked, Undisturbed, Stored, NEW p \in Procs, Crash(p)
    PROVE  Stored'
<1>. USE DEF disk, entries, history, doubts
<1>1. /\ lock = p /\ lock' = None /\ UNCHANGED <<durable, disturbed>>
      /\ torn' = TornBy(p) /\ proc[p] \in Process
      /\ Flushed(p)' /\ \A q \in Procs \ {p} : proc'[q] = proc[q]
  BY ReturnDoes, NoProgress DEF Crash, Return, TypeOK
<1>2. ASSUME ~disturbed', ~unsure'
      PROVE  Explained' \/ \E j \in Journal : Leftover(j)'
  <2>1. ~disturbed /\ ~unsure
    <3>1. ~disturbed
      BY <1>1, <1>2
    <3>2. UNCHANGED unsure
      BY <1>2 DEF Crash, JournalHalfWritten, RecordHalfWritten,
         EntryHalfWritten, PlainHalfRenamed
    <3>. QED
      BY <1>2, <3>1, <3>2
  <2>2. Explained
    BY <1>1, <2>1, NoneIsNothing DEF Stored
  <2>3. Sound(proc[p], journal)
    BY DEF Locked
  <2>4. ASSUME proc[p].pc \in Saving \cup Removing,
               UNCHANGED <<desktop, journal>>
        PROVE  Explained'
    <3>1. journal = None /\ durable.journal = None /\ durable.desktop = desktop
      BY <2>1, <2>4, UnpendingDisk DEF Unpending
    <3>2. torn' # "no"
      BY <1>1, <2>4 DEF TornBy
    <3>. QED
      BY <1>1, <2>4, <3>1, <3>2 DEF Explained, Cut
  <2>5. CASE UNCHANGED <<desktop, records, journal>>
    <3>1. CASE proc[p].pc \in Saving \cup Removing
      BY <2>4, <2>5, <3>1
    <3>2. CASE proc[p].pc \notin Saving \cup Removing
      <4>1. ~Cut
        <5>1. \A q \in Procs : proc[q].pc # "restoreRecord"
          BY <1>1, <3>2 DEF Locked, Active, ActivePc, Unpending, Saving
        <5>. QED
          BY <1>1, <5>1, NoneIsNothing DEF Cut
      <4>. QED
        BY <1>1, <2>2, <2>5, <4>1 DEF Explained, OnDisk, Renamed, Retargeted
    <3>. QED
      BY <3>1, <3>2
  <2>6. CASE JournalHalfWritten(p) /\ journal' # journal
    <3>1. /\ \/ At(p, "preparing") /\ journal' = proc[p].txn
             \/ At(p, "clearing") /\ journal' = None
             \/ (At(p, "refused") \/ At(p, "aborting"))
                    /\ CanAbort(p) /\ journal' = None
          /\ UNCHANGED <<desktop, records>>
      BY <2>3, <2>6 DEF JournalHalfWritten, At, Sound, Transacting
    <3>. QED
      BY <1>1, <2>1, <3>1, JournalUnsynced
  <2>7. CASE RecordHalfWritten(p)
    <3>1. CASE proc[p].pc = "updating"
      <4>1. PICK j : j = proc[p].txn
        OBVIOUS
      <4>2. /\ Retargetable(j) /\ records' = Retargeted(records, j)
            /\ UNCHANGED <<desktop, journal>>
        BY <2>7, <3>1, <4>1 DEF RecordHalfWritten, At
      <4>3. proc[p].pc \in Renaming
        BY <3>1 DEF Renaming, Transacting
      <4>4. /\ journal = j /\ j \in Journal /\ j # None /\ Pending(j)
            /\ j.old # j.new
        BY <2>1, <3>1, <4>1, <4>3, Underway
      <4>5. OnDisk(j) /\ durable.desktop = desktop /\ durable.journal = j
        BY <2>1, <3>1, <4>1, <4>3, <4>4, RenamingDisk DEF Flushed
      <4>6. OnDisk(j)'
        BY <1>1, <4>2, <4>4, <4>5, RecordUnsynced
      <4>. QED
        BY <1>1, <4>2, <4>4, <4>5, <4>6 DEF Explained
    <3>2. CASE proc[p].pc # "updating"
      <4>1. proc[p].pc \in Saving \cup Removing /\ UNCHANGED <<desktop, journal>>
        BY <2>7, <3>2 DEF RecordHalfWritten, At, Saving, Removing
      <4>. QED
        BY <2>4, <4>1
    <3>. QED
      BY <3>1, <3>2
  <2>8. CASE EntryHalfWritten(p)
    BY <2>5, <2>8 DEF EntryHalfWritten
  <2>9. CASE PlainHalfRenamed(p)
    BY <1>2, <2>9 DEF PlainHalfRenamed
  <2>. QED
    BY <2>5, <2>6, <2>7, <2>8, <2>9 DEF Crash, JournalHalfWritten
<1>. QED
  BY <1>1, <1>2, Looked

\* A power loss: everyone rests, and the disk is what remains.
LEMMA PowerLossDoes ==
    ASSUME TypeOK, PowerLoss
    PROVE  /\ desktop' \in {desktop, durable.desktop}
           /\ records' \in {records, durable.records}
           /\ journal' \in {journal, durable.journal}
           /\ durable'.desktop = desktop' /\ durable'.records = records'
           /\ durable'.journal = journal' /\ lock' = None
           /\ \A p \in Procs : proc'[p].pc \notin Renaming
           /\ ~disturbed' => /\ ~disturbed
                             /\ unsure => UNCHANGED <<desktop, records, journal>>
BY DEF PowerLoss, Resting, Renaming, Transacting

\* What remains of a rename after a power loss can be finished.
LEMMA PowerLossPending ==
    ASSUME TypeOK, Undisturbed, Stored, PowerLoss, ~disturbed', journal' # None
    PROVE  Pending(journal)'
<1>1. /\ desktop' \in {desktop, durable.desktop}
      /\ records' \in {records, durable.records}
      /\ journal' \in {journal, durable.journal}
      /\ ~disturbed
      /\ unsure => UNCHANGED <<desktop, records, journal>>
  BY PowerLossDoes
<1>2. CASE UNCHANGED <<desktop, records, journal>>
  BY <1>1, <1>2, PowerLossDoes
     DEF Undisturbed, Pending, Preflight, NotYetMoved, AlreadyMoved, Registered,
         Naming
<1>3. CASE ~unsure
  <2>1. ASSUME NEW j \in Journal, Leftover(j)
        PROVE  Pending(journal)'
    <3>1. UNCHANGED <<desktop, records>> /\ Pending(j) /\ journal' = j
      BY <1>1, <2>1 DEF Leftover
    <3>. QED
      BY <3>1 DEF Pending, Preflight, NotYetMoved, AlreadyMoved, Registered,
         Naming
  <2>2. CASE Explained
    <3>1. PICK j : j = journal
      OBVIOUS
    <3>2. journal' = j /\ j \in Journal /\ Pending(j) /\ OnDisk(j)
      BY <1>1, <2>2, <3>1, PowerLossDoes DEF Explained, Undisturbed, TypeOK
    <3>3. /\ j.old \in Names /\ j.new \in Names /\ j.id \in Ids
          /\ j.file # None /\ j.old # j.new
      BY <3>2, TwoNames DEF Pending
    <3>4. (NotYetMoved(j) \/ AlreadyMoved(j))'
      BY <1>1, <3>2, <3>3
         DEF Pending, OnDisk, NotYetMoved, AlreadyMoved, Renamed, TypeOK
    <3>5. Preflight(j)'
      <4>1. \/ records' = records
            \/ /\ records' = durable.records
               /\ records'[j.id] # None
               /\ records'[j.id].target = j.old
               /\ \A i \in Ids \ {j.id} : records'[i] = records[i]
        BY <1>1, <3>2, <3>3, RetargetedType DEF OnDisk, TypeOK
      <4>. QED
        BY <3>2, <4>1 DEF Pending, Preflight, Registered, Naming
    <3>. QED
      BY <3>2, <3>4, <3>5 DEF Pending
  <2>. QED
    BY <1>1, <1>3, <2>1, <2>2, PowerLossDoes DEF Stored
<1>. QED
  BY <1>1, <1>2, <1>3

\* Every step keeps a rename recoverable and the disk in line with it.
LEMMA DiskStep ==
    ASSUME TypeOK, Locked, Undisturbed, Stored, [Next]_vars
    PROVE  Undisturbed' /\ Stored'
<1>. USE DEF disk, entries, history, doubts
<1>1. CASE UNCHANGED vars
  <2>1. UNCHANGED <<desktop, records, journal, durable, unsure, disturbed, torn,
                    lock, proc>>
    BY <1>1 DEF vars
  <2>2. \A p \in Procs : /\ Progress(p) <=> Progress(p)'
                         /\ Flushed(p) <=> Flushed(p)'
    BY <2>1 DEF Progress, Flushed, Preflight, Registered, Naming, NotYetMoved,
       AlreadyMoved
  <2>3. Pending(journal) <=> Pending(journal)'
    BY <2>1 DEF Pending, Preflight, NotYetMoved, AlreadyMoved, Registered,
       Naming
  <2>4. Explained <=> Explained'
    BY <2>1 DEF Explained, Cut, OnDisk, Renamed, Retargeted, Registered
  <2>5. \A j \in Journal : Leftover(j) <=> Leftover(j)'
    BY <2>1, PendingKept DEF Leftover
  <2>. QED
    BY <2>1, <2>2, <2>3, <2>4, <2>5 DEF Undisturbed, Stored
<1>2. CASE PowerLoss
  <2>1. \A p \in Procs : Progress(p)' /\ Flushed(p)'
    BY <1>2, PowerLossDoes, NoProgress
  <2>2. Undisturbed'
    BY <1>2, <2>1, PowerLossPending DEF Undisturbed
  <2>3. Explained'
    BY <1>2, PowerLossDoes DEF Explained, OnDisk
  <2>. QED
    BY <2>1, <2>2, <2>3 DEF Stored
<1>3. CASE Outside
  <2>1. CASE disturbed'
    BY <2>1 DEF Undisturbed, Stored
  <2>2. CASE ~disturbed'
    <3>1. /\ ~disturbed /\ lock = None /\ journal = None
          /\ durable.journal = None
          /\ durable' = [durable EXCEPT !.desktop = desktop']
          /\ UNCHANGED <<records, journal, unsure, torn, lock, proc>>
      BY <1>3, <2>2 DEF Outside
    <3>2. \A p \in Procs : proc'[p].pc \notin Renaming
      BY <3>1, NoneIsNothing
         DEF Locked, Active, ActivePc, Renaming, Unpending
    <3>3. \A p \in Procs : Progress(p)' /\ Flushed(p)'
      BY <3>2, NoProgress
    <3>4. ASSUME ~unsure
          PROVE  Explained'
      <4>1. Explained
        BY <3>1, <3>4, NoneIsNothing DEF Stored, Leftover
      <4>2. Cut => Cut'
        BY <3>1 DEF Cut, Registered
      <4>. QED
        BY <3>1, <4>1, <4>2 DEF Explained, TypeOK
    <3>. QED
      BY <3>1, <3>3, <3>4 DEF Undisturbed, Stored
  <2>. QED
    BY <2>1, <2>2
<1>4. ASSUME NEW p \in Procs, Crash(p)
      PROVE  Undisturbed' /\ Stored'
  BY <1>4, CrashUndisturbed, CrashStored
<1>5. ASSUME NEW p \in Procs, Store(p)
      PROVE  Undisturbed' /\ Stored'
  BY <1>5, RecoverUndisturbed, TransactUndisturbed, ServeUndisturbed,
     SaveOrRemoveUndisturbed, RecoverStored, TransactStored, ServeStored,
     SaveOrRemoveStored DEF Store
<1>. QED
  BY <1>1, <1>2, <1>3, <1>4, <1>5 DEF Next

\* The rename j is pending, about to be or just over.
Stands(j) ==
    /\ Preflight(j)
    /\ NotYetMoved(j) \/ AlreadyMoved(j)
    /\ \/ journal = j
       \/ journal = None /\ desktop[records[j.id].target] = j.file

\* A step during which j stands and that concerns nothing else takes no file
\* from a registration.
LEMMA StandsBound ==
    ASSUME NEW j \in Journal, Stands(j), Stands(j)',
           \A i \in Ids \ {j.id} : records'[i] = records[i],
           \A n \in Names \ {j.old, j.new} : desktop'[n] = desktop[n],
           TypeOK
    PROVE  \A i \in Ids : Bound(i)' = Bound(i)
<1>1. j.file # None /\ j # None
  BY NoneIsNothing DEF Journal
<1>2. Bound(j.id) = j.file
  BY <1>1 DEF Stands, Bound, Preflight, NotYetMoved, AlreadyMoved
<1>3. Bound(j.id)' = j.file
  BY <1>1 DEF Stands, Bound, Preflight, Registered, Naming, NotYetMoved,
     AlreadyMoved
<1>4. ASSUME NEW i \in Ids \ {j.id}
      PROVE  Bound(i)' = Bound(i)
  <2>1. /\ Bound(i) = IF ~Registered(i) THEN None
                      ELSE desktop[records[i].target]
        /\ Bound(i)' = IF ~Registered(i)' THEN None
                       ELSE desktop'[records'[i].target]
    BY <1>1, <1>4 DEF Stands, Bound
  <2>2. Registered(i) =>
            records[i].target \in Names /\ records[i].target \notin {j.old, j.new}
    BY <1>4 DEF Stands, Preflight, Naming, Registered, TypeOK, Record
  <2>. QED
    BY <1>4, <2>1, <2>2 DEF Registered
<1>. QED
  BY <1>2, <1>3, <1>4

\* A rename that a process works on stands.
LEMMA UnderwayStands ==
    ASSUME TypeOK, Locked, Undisturbed, ~disturbed, NEW p \in Procs,
           proc[p].pc \in Renaming, NEW j, j = proc[p].txn
    PROVE  Stands(j)
<1>1. /\ Progress(p) /\ Pending(j) /\ Sound(proc[p], journal)
      /\ proc[p].pc = "preparing" => journal = None
      /\ proc[p].pc # "preparing" => journal = j
  BY Underway DEF Locked
<1>2. CASE proc[p].pc = "preparing"
  BY <1>1, <1>2 DEF Stands, Pending, Progress, Sound, NotYetMoved
<1>3. CASE proc[p].pc # "preparing"
  BY <1>1, <1>3 DEF Stands, Pending
<1>. QED
  BY <1>2, <1>3

\* The journal of a rename is written again, or goes when all is done or undone.
LEMMA JournalBound ==
    ASSUME TypeOK, Locked, Undisturbed, ~disturbed, NEW p \in Procs,
           proc[p].pc \in Renaming, NEW j, j = proc[p].txn,
           UNCHANGED <<desktop, records>>,
           \/ journal' \in {journal, j}
           \/ (journal' = None /\ desktop[records[j.id].target] = j.file)
    PROVE  \A i \in Ids : Bound(i)' = Bound(i)
<1>1. Stands(j) /\ j \in Journal /\ Pending(j)
  BY Underway, UnderwayStands
<1>2. CASE journal' = journal
  BY <1>2 DEF Bound, Registered
<1>3. CASE journal' # journal
  <2>1. /\ Preflight(j)'
        /\ NotYetMoved(j)' \/ AlreadyMoved(j)'
    BY <1>1, PendingKept DEF Pending
  <2>2. Stands(j)'
    BY <1>3, <2>1 DEF Stands
  <2>. QED
    BY <1>1, <2>2, StandsBound
<1>. QED
  BY <1>2, <1>3

\* The record of a rename is written.
LEMMA RecordBound ==
    ASSUME TypeOK, Locked, Undisturbed, ~disturbed, NEW p \in Procs,
           At(p, "updating"), Retargetable(proc[p].txn),
           records' = Retargeted(records, proc[p].txn),
           UNCHANGED <<desktop, journal>>
    PROVE  \A i \in Ids : Bound(i)' = Bound(i)
<1>1. PICK j : j = proc[p].txn
  OBVIOUS
<1>2. proc[p].pc \in Renaming /\ proc[p].pc # "preparing"
  BY DEF At, Renaming, Transacting
<1>3. Stands(j) /\ j \in Journal /\ Pending(j) /\ journal = j
  BY <1>1, <1>2, Underway, UnderwayStands
<1>4. /\ Preflight(j)'
      /\ NotYetMoved(j)' \/ AlreadyMoved(j)'
  BY <1>1, <1>3, PendingRetargeted DEF Pending
<1>5. Stands(j)'
  BY <1>3, <1>4 DEF Stands
<1>6. \A i \in Ids \ {j.id} : records'[i] = records[i]
  BY <1>1, <1>3, RetargetDoes
<1>. QED
  BY <1>3, <1>5, <1>6, StandsBound

\* A step of a rename lets every registration stand for its file.
LEMMA TransactBound ==
    ASSUME TypeOK, Locked, Undisturbed, Undisturbed', NEW p \in Procs,
           Transact(p), ~disturbed'
    PROVE  \A i \in Ids : Bound(i)' = Bound(i)
<1>. USE DEF disk, entries, history, doubts
<1>1. ~disturbed
  BY DEF Transact, Verify, Move, SyncMove, MoveFails, Abort, Settle,
     WritePhase, UpdateRecord, ClearJournal
<1>2. proc[p].pc \in Renaming
  BY DEF Transact, Verify, Move, SyncMove, MoveFails, Abort, Settle,
     WritePhase, UpdateRecord, ClearJournal, At, Renaming, Transacting
<1>3. PICK j : j = proc[p].txn
  OBVIOUS
<1>4. /\ j \in Journal /\ j # None /\ Pending(j) /\ Progress(p) /\ Stands(j)
      /\ Sound(proc[p], journal)
      /\ proc[p].pc # "preparing" => journal = j
  BY <1>1, <1>2, <1>3, Underway, UnderwayStands DEF Locked
<1>5. CASE UNCHANGED <<desktop, records, journal>>
  BY <1>5 DEF Bound, Registered
<1>6. CASE Verify(p) \/ SyncMove(p) \/ MoveFails(p) \/ Settle(p)
  BY <1>5, <1>6 DEF Verify, SyncMove, MoveFails, Settle
<1>7. CASE Move(p)
  <2>1. /\ journal' = j /\ journal = j /\ records' = records
        /\ desktop' = Renamed(desktop, j)
    BY <1>3, <1>4, <1>7 DEF Move, At, NoReplaceRename
  <2>2. Stands(j)'
    BY <1>4, <2>1 DEF Stands, Undisturbed, Pending
  <2>3. \A n \in Names \ {j.old, j.new} : desktop'[n] = desktop[n]
    BY <2>1 DEF Renamed
  <2>. QED
    BY <1>4, <2>1, <2>2, <2>3, StandsBound
<1>8. CASE Abort(p)
  <2>1. UNCHANGED <<desktop, records>>
    BY <1>8 DEF Abort
  <2>2. records[j.id].target = j.old
    BY <1>3, <1>4, <1>8 DEF Abort, At, Progress, Sound
  <2>3. journal' = journal \/ (journal' = None /\ desktop[j.old] = j.file)
    <3>1. \/ CanAbort(p) /\ (WriteJournal(None) \/ WriteJournalFails(None))
          \/ UNCHANGED journal
      BY <1>8 DEF Abort
    <3>2. CanAbort(p) => desktop[j.old] = j.file
      BY <1>3 DEF CanAbort
    <3>. QED
      BY <3>1, <3>2 DEF WriteJournal, WriteJournalFails
  <2>. QED
    BY <1>1, <1>2, <1>3, <2>1, <2>2, <2>3, JournalBound
<1>9. CASE WritePhase(p)
  <2>1. UNCHANGED <<desktop, records>> /\ journal' \in {journal, j}
    BY <1>3, <1>9 DEF WritePhase, WriteJournal, WriteJournalFails
  <2>. QED
    BY <1>1, <1>2, <1>3, <2>1, JournalBound
<1>10. CASE UpdateRecord(p)
  <2>1. UNCHANGED <<desktop, journal>> /\ At(p, "updating")
    BY <1>10 DEF UpdateRecord
  <2>2. \/ UNCHANGED records
        \/ /\ Retargetable(j)
           /\ records' = [records EXCEPT ![j.id] = Retargeted(records, j)[j.id]]
    BY <1>3, <1>10 DEF UpdateRecord, WriteRecord, WriteRecordFails
  <2>3. Retargetable(j) => [records EXCEPT ![j.id] = Retargeted(records, j)[j.id]]
                                = Retargeted(records, j)
    BY <1>4, RetargetDoes
  <2>. QED
    BY <1>1, <1>3, <1>5, <2>1, <2>2, <2>3, RecordBound
<1>11. CASE ClearJournal(p)
  <2>1. /\ UNCHANGED <<desktop, records>> /\ journal' \in {journal, None}
        /\ proc[p].pc = "clearing"
    BY <1>11 DEF ClearJournal, WriteJournal, WriteJournalFails, At
  <2>2. desktop[records[j.id].target] = j.file
    BY <1>3, <1>4, <2>1 DEF Progress, AlreadyMoved
  <2>. QED
    BY <1>1, <1>2, <1>3, <2>1, <2>2, JournalBound
<1>. QED
  BY <1>6, <1>7, <1>8, <1>9, <1>10, <1>11 DEF Transact

\* So does a process that is killed while it renames.
LEMMA CrashBound ==
    ASSUME TypeOK, Locked, Undisturbed, NEW p \in Procs, Crash(p), ~disturbed',
           journal # None \/ journal' # None
    PROVE  \A i \in Ids : Bound(i)' = Bound(i)
<1>. USE DEF disk, entries, history, doubts
<1>1. ~disturbed /\ Sound(proc[p], journal)
  BY DEF Crash, Locked
<1>2. CASE UNCHANGED <<desktop, records, journal>>
  BY <1>2 DEF Bound, Registered
<1>3. CASE JournalHalfWritten(p)
  <2>1. PICK j : j = proc[p].txn
    OBVIOUS
  <2>2. /\ proc[p].pc \in Renaming /\ UNCHANGED <<desktop, records>>
        /\ \/ journal' = j
           \/ journal' = None /\ At(p, "clearing")
           \/ /\ journal' = None /\ desktop[j.old] = j.file
              /\ At(p, "refused") \/ At(p, "aborting")
    BY <1>3, <2>1 DEF JournalHalfWritten, CanAbort, At, Renaming, Transacting
  <2>3. Progress(p)
    BY <1>1 DEF Undisturbed
  <2>4. \/ journal' = j
        \/ (journal' = None /\ desktop[records[j.id].target] = j.file)
    <3>1. At(p, "clearing") => desktop[records[j.id].target] = j.file
      BY <2>1, <2>3 DEF At, Progress, AlreadyMoved
    <3>2. At(p, "refused") \/ At(p, "aborting") => records[j.id].target = j.old
      BY <1>1, <2>1, <2>3 DEF At, Progress, Sound
    <3>. QED
      BY <2>2, <3>1, <3>2
  <2>. QED
    BY <1>1, <2>1, <2>2, <2>4, JournalBound
<1>4. CASE RecordHalfWritten(p)
  <2>1. CASE At(p, "updating")
    BY <1>1, <1>4, <2>1, RecordBound DEF RecordHalfWritten, At
  <2>2. CASE ~At(p, "updating")
    <3>1. proc[p].pc \in Unpending /\ journal' = journal
      BY <1>4, <2>2 DEF RecordHalfWritten, At, Unpending, Saving, Removing
    <3>. QED
      BY <1>1, <3>1 DEF Sound
  <2>. QED
    BY <2>1, <2>2
<1>5. CASE EntryHalfWritten(p)
  BY <1>2, <1>5 DEF EntryHalfWritten
<1>6. CASE PlainHalfRenamed(p)
  <2>1. proc[p].pc \in Unpending /\ journal' = journal
    BY <1>6 DEF PlainHalfRenamed, Operating, At, Unpending
  <2>. QED
    BY <1>1, <2>1 DEF Sound
<1>. QED
  BY <1>2, <1>3, <1>4, <1>5, <1>6 DEF Crash

\* And a power loss, but for a record whose save or removal it cuts.
LEMMA PowerLossBound ==
    ASSUME TypeOK, Locked, Undisturbed, Stored, Undisturbed', PowerLoss,
           ~disturbed', NEW i \in Ids,
           torn' = "no" \/ journal # None \/ records'[i] = records[i]
    PROVE  Bound(i)' = Bound(i)
<1>1. /\ desktop' \in {desktop, durable.desktop}
      /\ records' \in {records, durable.records}
      /\ journal' \in {journal, durable.journal}
      /\ ~disturbed
      /\ unsure => UNCHANGED <<desktop, records, journal>>
  BY PowerLossDoes
<1>2. CASE UNCHANGED <<desktop, records, journal>>
  BY <1>2 DEF Bound, Registered
<1>3. ASSUME NEW j \in Journal, Leftover(j)
      PROVE  Bound(i)' = Bound(i)
  <2>1. UNCHANGED <<desktop, records>> /\ journal' \in {j, None}
    BY <1>1, <1>3 DEF Leftover
  <2>2. Stands(j)
    BY <1>3 DEF Leftover, Stands, Pending
  <2>3. Pending(j)'
    BY <1>3, <2>1, PendingKept DEF Leftover
  <2>4. Stands(j)'
    BY <1>3, <2>1, <2>3 DEF Leftover, Stands, Pending
  <2>. QED
    BY <2>1, <2>2, <2>4, StandsBound
<1>4. CASE Explained /\ journal = None
  <2>1. UNCHANGED <<desktop, journal>>
    BY <1>1, <1>4 DEF Explained
  <2>2. Cut => torn' # "no"
    <3>1. ASSUME NEW p \in Procs, proc[p].pc = "restoreRecord"
          PROVE  torn' # "no"
      <4>1. lock = p /\ lock # None
        BY <3>1, NoneIsNothing DEF Locked, Active, ActivePc, Unpending, Saving
      <4>. QED
        BY <3>1, <4>1 DEF PowerLoss, TornBy, Saving
    <3>. QED
      BY <3>1 DEF Cut, PowerLoss
  <2>3. records'[i] = records[i]
    BY <1>1, <1>4, <2>2 DEF Explained
  <2>. QED
    BY <1>4, <2>1, <2>3 DEF Bound, Registered
<1>5. CASE Explained /\ journal # None
  <2>1. PICK j \in Journal : j = journal
    BY <1>5 DEF TypeOK
  <2>2. Pending(j) /\ OnDisk(j) /\ journal' = j
    BY <1>1, <1>5, <2>1 DEF Undisturbed, Explained
  <2>3. Stands(j) /\ Stands(j)'
    BY <1>5, <2>1, <2>2 DEF Stands, Pending, Undisturbed
  <2>4. \A k \in Ids \ {j.id} : records'[k] = records[k]
    BY <1>1, <2>2, RetargetedType DEF OnDisk, Journal, TypeOK
  <2>5. \A n \in Names \ {j.old, j.new} : desktop'[n] = desktop[n]
    BY <1>1, <2>2 DEF OnDisk, Renamed, TypeOK
  <2>. QED
    BY <2>3, <2>4, <2>5, StandsBound
<1>. QED
  BY <1>1, <1>2, <1>3, <1>4, <1>5 DEF Stored

\* Outside a rename and its recovery no step touches the journal, or it leaves
\* the Desktop and the records alone.
LEMMA OtherwiseBound ==
    ASSUME TypeOK, Locked, NEW p \in Procs,
           \/ Begin(p) \/ NothingPending(p) \/ RecoverPending(p) \/ Ambiguous(p)
           \/ Serve(p) \/ SaveOrRemove(p),
           journal # None \/ journal' # None
    PROVE  \A i \in Ids : Bound(i)' = Bound(i)
<1>. USE DEF disk, entries, history, doubts
<1>1. CASE UNCHANGED <<desktop, records, journal>>
  BY <1>1 DEF Bound, Registered
<1>2. CASE Begin(p) \/ NothingPending(p) \/ RecoverPending(p) \/ Ambiguous(p)
  BY <1>1, <1>2 DEF Begin, NothingPending, RecoverPending, Ambiguous
<1>3. CASE Serve(p)
  <2>1. CASE RenamePlain(p)
    <3>1. journal = None /\ journal' = journal
      BY <2>1 DEF RenamePlain, Operating, At, Locked, Sound, Unpending
    <3>. QED
      BY <3>1
  <2>2. CASE ~RenamePlain(p)
    BY <1>1, <1>3, <2>2 DEF Serve, ReadOnly, RenameRegistered, RenameRefused,
       Register, SetFlag, Resave, PreviewRelink, ChooseCandidate, BeginCommit,
       CommitRelink, CallFails
  <2>. QED
    BY <2>1, <2>2
<1>4. CASE SaveOrRemove(p)
  <2>1. journal' = journal /\ proc[p].pc \in Unpending
    BY <1>4 DEF SaveOrRemove, WriteLauncher, WriteShortcut, SaveRecord,
       RestoreRecord, RestoreShortcut, RestoreLauncher, DropLauncher,
       DropShortcut, DropRecord, At, Saving, Removing, Unpending
  <2>. QED
    BY <2>1 DEF Locked, Sound
<1>. QED
  BY <1>2, <1>3, <1>4

\* renameat2 with RENAME_NOREPLACE takes no file away.
LEMMA NoReplaceKeeps ==
    ASSUME TypeOK, NEW j, j.old \in Names, j.new \in Names, NoReplaceRename(j)
    PROVE  OnDesktop(desktop) \subseteq OnDesktop(desktop')
<1>. SUFFICES ASSUME NEW f \in Files, NEW n \in Names, desktop[n] = f
              PROVE  \E m \in Names : desktop'[m] = f
  BY DEF OnDesktop
<1>1. f # None
  BY NoneIsNothing
<1>2. CASE n = j.old
  BY <1>2 DEF NoReplaceRename, Renamed
<1>3. CASE n # j.old
  BY <1>1, <1>3 DEF NoReplaceRename, Renamed
<1>. QED
  BY <1>2, <1>3

LEMMA StoreKeeps ==
    ASSUME TypeOK, Locked, NEW p \in Procs, Store(p)
    PROVE  OnDesktop(desktop) \subseteq OnDesktop(desktop')
<1>. USE DEF disk, entries, history, doubts
<1>1. proc[p] \in Process
  BY DEF TypeOK
<1>2. CASE UNCHANGED desktop
  BY <1>2
<1>3. CASE Move(p)
  <2>1. proc[p].txn \in Journal
    BY <1>1, <1>3 DEF Move, At, Locked, Sound, Transacting, Process
  <2>2. proc[p].txn.old \in Names /\ proc[p].txn.new \in Names
    BY <2>1 DEF Journal
  <2>. QED
    BY <1>3, <2>2, NoReplaceKeeps DEF Move
<1>4. CASE RenamePlain(p)
  <2>1. proc[p].call.old \in Names /\ proc[p].call.new \in Names
    BY <1>1, <1>4, CallType DEF RenamePlain, Operating, Process
  <2>. QED
    BY <1>4, <2>1, NoReplaceKeeps DEF RenamePlain
<1>5. CASE Begin(p) \/ NothingPending(p) \/ RecoverPending(p) \/ Ambiguous(p)
  BY <1>2, <1>5 DEF Begin, NothingPending, RecoverPending, Ambiguous
<1>6. CASE Transact(p) /\ ~Move(p)
  BY <1>2, <1>6 DEF Transact, Verify, SyncMove, MoveFails, Abort, Settle,
     WritePhase, UpdateRecord, ClearJournal
<1>7. CASE Serve(p) /\ ~RenamePlain(p)
  BY <1>2, <1>7 DEF Serve, ReadOnly, RenameRegistered, RenameRefused, Register,
     SetFlag, Resave, PreviewRelink, ChooseCandidate, BeginCommit,
     CommitRelink, CallFails
<1>8. CASE SaveOrRemove(p)
  BY <1>2, <1>8 DEF SaveOrRemove, WriteLauncher, WriteShortcut, SaveRecord,
     RestoreRecord, RestoreShortcut, RestoreLauncher, DropLauncher,
     DropShortcut, DropRecord
<1>. QED
  BY <1>3, <1>4, <1>5, <1>6, <1>7, <1>8 DEF Store

-----------------------------------------------------------------------------
\* The entries

\* Two records that ask for the same entries.
Alike(r, s) ==
    /\ r = None <=> s = None
    /\ r # None => /\ r.applications <=> s.applications
                   /\ r.desktop <=> s.desktop

\* Only the process with the lock saves or removes.
LEMMA Working ==
    ASSUME TypeOK, Locked, NEW p \in Procs, lock \in {p, None},
           \A q \in Procs \ {p} : proc'[q] = proc[q]
    PROVE  /\ \A q \in Procs \ {p} : proc'[q].pc \notin Saving \cup Removing
           /\ \A i : /\ Saved(i) <=> proc[p].pc \in Saving /\ proc[p].id = i
                     /\ Saved(i)' <=> proc'[p].pc \in Saving /\ proc'[p].id = i
                     /\ Removed(i) <=> proc[p].pc \in Removing /\ proc[p].id = i
                     /\ Removed(i)'
                            <=> proc'[p].pc \in Removing /\ proc'[p].id = i
<1>1. ASSUME NEW q \in Procs \ {p}
      PROVE  proc[q].pc \notin Saving \cup Removing
  <2>1. ~Active(q)
    BY NoneIsNothing DEF Locked
  <2>. QED
    BY <2>1 DEF Active, ActivePc, Unpending
<1>. QED
  BY <1>1 DEF Saved, Removed

LEMMA FollowsKept ==
    ASSUME NEW i \in Ids, Follows(i),
           i \in launchers' <=> i \in launchers,
           i \in shortcuts' <=> i \in shortcuts,
           torn' = torn, ~Removed(i)' => ~Removed(i),
           \E r \in {records[i], durable.records[i]} : Alike(records'[i], r),
           \E r \in {records[i], durable.records[i]} :
                Alike(durable'.records[i], r)
    PROVE  Follows(i)'
BY DEF Follows, InMenu, OnScreen, Alike

\* A step that leaves the entries and what the records ask for alone.
LEMMA EntriesKept ==
    ASSUME TypeOK, Locked, Entries, NEW p \in Procs, lock \in {p, None},
           \A q \in Procs \ {p} : proc'[q] = proc[q],
           proc[p].pc \notin Saving \cup Removing,
           proc'[p].pc \notin Saving \cup Removing,
           UNCHANGED <<launchers, shortcuts, torn>>,
           \A i \in Ids :
             /\ \E r \in {records[i], durable.records[i]} : Alike(records'[i], r)
             /\ \E r \in {records[i], durable.records[i]} :
                    Alike(durable'.records[i], r)
    PROVE  Entries'
<1>1. \A i \in Ids : ~Saved(i) /\ (Removed(i) <=> Removed(i)')
  BY Working
<1>2. \A i \in Ids : Follows(i)'
  BY <1>1, FollowsKept DEF Entries
<1>3. \A q \in Procs : proc'[q].pc \notin Saving \cup Removing
  BY Working
<1>4. \A q \in Procs : proc'[q].pc \notin {"dropShortcut", "dropRecord"}
  BY <1>3 DEF Removing
<1>. QED
  BY <1>2, <1>3, <1>4 DEF Entries

\* A step of a projection: the others are as they were, and p's own too.
LEMMA EntriesOfOne ==
    ASSUME TypeOK, Locked, Entries, NEW p \in Procs, lock \in {p, None},
           \A q \in Procs \ {p} : proc'[q] = proc[q],
           NEW i \in Ids,
           proc[p].pc \in Saving \cup Removing => proc[p].id = i,
           proc'[p].pc \in Saving \cup Removing => proc'[p].id = i,
           torn' = torn,
           \A k \in Ids \ {i} :
             /\ k \in launchers' <=> k \in launchers
             /\ k \in shortcuts' <=> k \in shortcuts
             /\ records'[k] = records[k]
             /\ durable'.records[k] \in {records[k], durable.records[k]},
           proc'[p].pc \notin Saving => Follows(i)',
           proc'[p].pc \in Saving => Projecting(p)',
           proc'[p].pc \in Removing => Registered(i)',
           proc'[p].pc = "dropShortcut" => i \notin launchers',
           proc'[p].pc = "dropRecord" => i \notin launchers' \cup shortcuts'
    PROVE  Entries'
<1>1. ASSUME NEW k \in Ids \ {i}
      PROVE  Follows(k)'
  <2>1. ~Saved(k) /\ ~Removed(k) /\ ~Removed(k)'
    BY Working
  <2>. QED
    BY <2>1, FollowsKept DEF Entries, Alike
<1>2. \A q \in Procs \ {p} : proc'[q].pc \notin Saving \cup Removing
  BY Working
<1>3. \A q \in Procs \ {p} : proc'[q].pc \notin {"dropShortcut", "dropRecord"}
  BY <1>2 DEF Removing
<1>4. proc'[p].pc \in {"dropShortcut", "dropRecord"} => proc'[p].pc \in Removing
  BY DEF Removing
<1>5. \A k \in Ids : ~Saved(k)' => Follows(k)'
  BY <1>1, Working
<1>. QED
  BY <1>2, <1>3, <1>4, <1>5 DEF Entries

\* A save or a removal that is cut.
LEMMA EntriesTorn ==
    ASSUME TypeOK, Locked, Entries, NEW p \in Procs, lock \in {p, None},
           Return(p), torn' # "no", torn' # "save" => torn # "save",
           \/ torn' = "save"
           \/ /\ \A i \in Ids : ~Saved(i)
              /\ launchers' \subseteq launchers /\ shortcuts' \subseteq shortcuts
              /\ \A i \in Ids :
                    \/ i \notin launchers' \cup shortcuts'
                    \/ /\ records'[i] \in {records[i], durable.records[i]}
                       /\ durable'.records[i]
                            \in {records[i], durable.records[i]}
    PROVE  Entries'
<1>1. proc'[p].pc = "idle" /\ \A q \in Procs \ {p} : proc'[q] = proc[q]
  BY ReturnDoes
<1>2. \A q \in Procs : proc'[q].pc \notin Saving \cup Removing
  BY <1>1, Working DEF Saving, Removing
<1>3. \A q \in Procs : proc'[q].pc \notin {"dropShortcut", "dropRecord"}
  BY <1>2 DEF Removing
<1>4. ASSUME NEW i \in Ids
      PROVE  Follows(i)'
  <2>1. CASE torn' = "save"
    BY <2>1 DEF Follows
  <2>2. CASE torn' # "save"
    BY <2>2 DEF Follows, Entries, InMenu, OnScreen
  <2>. QED
    BY <2>1, <2>2
<1>. QED
  BY <1>2, <1>3, <1>4 DEF Entries

\* A rename changes nothing of what a record asks for.
LEMMA RetargetedAlike ==
    ASSUME TypeOK, NEW j \in Journal, Retargetable(j)
    PROVE  \A i \in Ids : Alike(Retargeted(records, j)[i], records[i])
<1>1. /\ Retargeted(records, j)[j.id].applications = records[j.id].applications
      /\ Retargeted(records, j)[j.id].desktop = records[j.id].desktop
      /\ records[j.id] # None
  BY RetargetedType DEF TypeOK, Retargetable, Registered
<1>. QED
  BY <1>1, RetargetDoes DEF Alike

\* No step of a rename changes what the records ask for.
LEMMA TransactEntries ==
    ASSUME TypeOK, Locked, Entries, NEW p \in Procs, Transact(p)
    PROVE  Entries'
<1>. USE DEF disk, entries, history, doubts
<1>1. proc[p].pc \in Renaming /\ proc[p] \in Process
  BY DEF Transact, Verify, Move, SyncMove, MoveFails, Abort, Settle,
     WritePhase, UpdateRecord, ClearJournal, At, Renaming, Transacting, TypeOK
<1>2. lock = p /\ proc[p].pc \notin Saving \cup Removing
  BY <1>1 DEF Locked, Active, ActivePc, Renaming, Unpending, Transacting,
     Saving, Removing
<1>3. /\ proc'[p].pc \notin Saving \cup Removing
      /\ \A q \in Procs \ {p} : proc'[q] = proc[q]
  <2>1. ASSUME NEW pc \in Renaming, Goto(p, pc)
        PROVE  <1>3!1 /\ <1>3!2
    BY <2>1, GotoDoes DEF Renaming, Transacting, Saving, Removing
  <2>2. CASE proc' = [proc EXCEPT ![p] =
                        [@ EXCEPT !.pc = "operating", !.txn = None]]
    BY <1>1, <2>2 DEF TypeOK, Process, Saving, Removing
  <2>3. CASE Return(p)
    BY <2>3, ReturnDoes
  <2>4. CASE Verify(p) \/ Move(p) \/ SyncMove(p) \/ MoveFails(p)
    BY <2>1, <2>3, <2>4
       DEF Verify, Move, SyncMove, MoveFails, Renaming, Transacting
  <2>5. CASE Abort(p) \/ Settle(p) \/ UpdateRecord(p)
    BY <2>1, <2>3, <2>5 DEF Abort, Settle, UpdateRecord, Renaming, Transacting
  <2>6. CASE WritePhase(p)
    BY <2>1, <2>3, <2>6 DEF WritePhase, At, Renaming, Transacting
  <2>7. CASE ClearJournal(p)
    BY <2>2, <2>3, <2>7 DEF ClearJournal
  <2>. QED
    BY <2>4, <2>5, <2>6, <2>7 DEF Transact
<1>4. UNCHANGED <<launchers, shortcuts, torn>>
  BY DEF Transact, Verify, Move, SyncMove, MoveFails, Abort, Settle,
     WritePhase, UpdateRecord, ClearJournal
<1>5. ASSUME UNCHANGED records, durable'.records = durable.records
      PROVE  Entries'
  BY <1>2, <1>3, <1>4, <1>5, EntriesKept DEF Alike
<1>6. CASE UpdateRecord(p)
  <2>1. PICK j \in Journal : j = proc[p].txn
    BY <1>1, <1>6, NoneIsNothing
       DEF UpdateRecord, At, Locked, Sound, Transacting, Process
  <2>2. CASE UNCHANGED <<records, durable>>
    BY <1>5, <2>2
  <2>3. CASE Retargetable(j) /\ WriteRecord(j.id, Retargeted(records, j)[j.id])
    <3>1. records' = Retargeted(records, j) /\ durable'.records = records'
      BY <2>3, RecordDoes, RetargetDoes DEF Journal
    <3>2. \A i \in Ids : Alike(records'[i], records[i])
      BY <2>3, <3>1, RetargetedAlike
    <3>. QED
      BY <1>2, <1>3, <1>4, <3>1, <3>2, EntriesKept
  <2>4. CASE /\ Retargetable(j)
             /\ WriteRecordFails(j.id, Retargeted(records, j)[j.id])
    <3>1. records' \in {records, Retargeted(records, j)} /\ durable' = durable
      BY <2>4, RetargetDoes DEF WriteRecordFails
    <3>2. \A i \in Ids : Alike(records'[i], records[i])
      BY <2>4, <3>1, RetargetedAlike DEF Alike
    <3>3. \A i \in Ids : Alike(durable'.records[i], durable.records[i])
      BY <3>1 DEF Alike
    <3>. QED
      BY <1>2, <1>3, <1>4, <3>2, <3>3, EntriesKept
  <2>. QED
    BY <1>6, <2>1, <2>2, <2>3, <2>4 DEF UpdateRecord
<1>7. CASE ~UpdateRecord(p)
  <2>1. /\ UNCHANGED records
        /\ UNCHANGED durable \/ SyncDesktop \/ \E j : WriteJournal(j)
    BY <1>7 DEF Transact, Verify, Move, SyncMove, MoveFails, Abort, Settle,
       WritePhase, UpdateRecord, ClearJournal, WriteJournalFails
  <2>. QED
    BY <1>5, <2>1, SyncDoes, JournalDoes
<1>. QED
  BY <1>6, <1>7

\* What a call decides to do: a projection is captured as the entries are.
LEMMA ServeEntries ==
    ASSUME TypeOK, Locked, Entries, NEW p \in Procs, Serve(p)
    PROVE  Entries'
<1>. USE DEF disk, entries, history, doubts
<1>1. /\ UNCHANGED <<launchers, shortcuts, torn, records>>
      /\ durable'.records = durable.records
  <2>1. CASE RenamePlain(p)
    BY <2>1 DEF RenamePlain, TypeOK
  <2>2. CASE ~RenamePlain(p)
    BY <2>2, GoOnType DEF Serve, ReadOnly, RenameRegistered, RenameRefused,
       Register, SetFlag, Resave, PreviewRelink, ChooseCandidate, BeginCommit,
       CommitRelink, CallFails
  <2>. QED
    BY <2>1, <2>2
<1>2. ASSUME At(p, "operating")
      PROVE  lock = p /\ proc[p].pc \notin Saving \cup Removing
  BY <1>2 DEF At, Locked, Active, ActivePc, Unpending, Saving, Removing
<1>3. ASSUME lock \in {p, None}, \A q \in Procs \ {p} : proc'[q] = proc[q],
             proc[p].pc \notin Saving \cup Removing,
             proc'[p].pc \notin Saving \cup Removing
      PROVE  Entries'
  BY <1>1, <1>3, EntriesKept DEF Alike
<1>4. ASSUME At(p, "operating"), NEW i \in Ids, NEW record,
             Project(p, i, record)
      PROVE  Entries'
  <2>1. /\ proc'[p].pc = "launcher" /\ proc'[p].id = i
        /\ proc'[p].before = [launcher |-> i \in launchers,
                              shortcut |-> i \in shortcuts,
                              record |-> records[i]]
        /\ \A q \in Procs \ {p} : proc'[q] = proc[q]
    BY <1>4, ProjectDoes
  <2>2. Follows(i) /\ ~Removed(i)
    BY <1>2, <1>4, <2>1, Working DEF Entries
  <2>3. Projecting(p)'
    <3>1. /\ proc'[p].before.launcher = (i \in launchers)
          /\ proc'[p].before.shortcut = (i \in shortcuts)
          /\ proc'[p].before.record = records[i]
      BY <2>1
    <3>2. /\ torn # "save" =>
              /\ i \in launchers =>
                    /\ records[i] # None /\ records[i].applications
                    /\ i \in InMenu(durable.records)
              /\ i \in shortcuts =>
                    /\ records[i] # None /\ records[i].desktop
                    /\ i \in OnScreen(durable.records)
          /\ torn = "no" =>
              /\ records[i] # None /\ records[i].applications
                    => i \in launchers
              /\ i \in InMenu(durable.records) => i \in launchers
              /\ records[i] # None /\ records[i].desktop => i \in shortcuts
              /\ i \in OnScreen(durable.records) => i \in shortcuts
      BY <2>2 DEF Follows, InMenu, OnScreen
    <3>3. UNCHANGED <<torn, records>> /\ durable'.records = durable.records
      BY <1>1
    <3>. QED
      BY <2>1, <3>1, <3>2, <3>3 DEF Projecting
  <2>4. "launcher" \in Saving /\ "launcher" \notin Removing
    BY DEF Saving, Removing
  <2>. QED
    BY <1>1, <1>2, <1>4, <2>1, <2>3, <2>4, EntriesOfOne
<1>5. ASSUME At(p, "operating"), Return(p)
      PROVE  Entries'
  BY <1>2, <1>3, <1>5, ReturnDoes
<1>6. CASE ReadOnly(p) \/ RenamePlain(p) \/ RenameRefused(p) \/ CallFails(p)
  BY <1>5, <1>6 DEF ReadOnly, RenamePlain, RenameRefused, CallFails, Operating
<1>7. CASE RenameRegistered(p)
  <2>1. proc[p] \in Process /\ At(p, "operating")
    BY <1>7 DEF TypeOK, RenameRegistered, Operating
  <2>2. proc'[p].pc = "preparing" /\ \A q \in Procs \ {p} : proc'[q] = proc[q]
    BY <1>7, <2>1 DEF RenameRegistered, TypeOK, Process
  <2>. QED
    BY <1>2, <1>3, <2>1, <2>2 DEF Saving, Removing
<1>8. CASE Register(p)
  <2>1. At(p, "operating") /\ \E i \in Ids : \E record : Project(p, i, record)
    BY <1>8 DEF Register, Operating, Naming, TypeOK
  <2>. QED
    BY <1>4, <2>1
<1>9. CASE Resave(p) \/ CommitRelink(p)
  <2>1. proc[p].call \in Calls /\ At(p, "operating")
    BY <1>9 DEF Resave, CommitRelink, Operating, TypeOK, Process
  <2>2. proc[p].call.id \in Ids
    BY <1>9, <2>1, CallType DEF Resave, CommitRelink, Operating
  <2>3. \E record : Project(p, proc[p].call.id, record)
    BY <1>9 DEF Resave, CommitRelink
  <2>. QED
    BY <1>4, <2>1, <2>2, <2>3
<1>10. CASE SetFlag(p)
  <2>1. proc[p] \in Process /\ proc[p].call \in Calls /\ At(p, "operating")
    BY <1>10 DEF SetFlag, Operating, TypeOK, Process
  <2>2. proc[p].call.id \in Ids /\ Registered(proc[p].call.id)
    BY <1>10, <2>1, CallType DEF SetFlag, Operating
  <2>3. CASE \E record : Project(p, proc[p].call.id, record)
    BY <1>4, <2>1, <2>2, <2>3
  <2>4. CASE proc' = [proc EXCEPT ![p] = [@ EXCEPT !.pc = "dropLauncher",
                                                   !.id = proc[p].call.id]]
    <3>1. /\ proc'[p].pc = "dropLauncher" /\ proc'[p].id = proc[p].call.id
          /\ \A q \in Procs \ {p} : proc'[q] = proc[q]
      BY <2>1, <2>4 DEF TypeOK, Process
    <3>3. records'[proc[p].call.id] # None
      BY <1>1, <2>2 DEF Registered
    <3>4. "dropLauncher" \notin Saving
      BY DEF Saving
    <3>5. lock = p /\ proc[p].pc \notin Saving \cup Removing
      BY <1>2, <2>1
    <3>6. PICK i \in Ids : i = proc[p].call.id
      BY <2>2
    <3>7. Follows(i)' /\ Registered(i)'
      <4>1. i = proc[p].call.id /\ UNCHANGED <<launchers, shortcuts, torn, records>>
            /\ durable'.records = durable.records
        BY <1>1, <3>6
      <4>2. Follows(i)
        BY <1>2, <2>1, <2>2, <3>1, <3>6, Working DEF Entries
      <4>3. Removed(i)'
        BY <3>1, <3>6 DEF Removed, Removing
      <4>. QED
        BY <3>3, <4>1, <4>2, <4>3, FollowsKept DEF Alike, Registered
    <3>. QED
      BY <1>1, <3>1, <3>4, <3>5, <3>6, <3>7, EntriesOfOne
  <2>. QED
    BY <1>10, <2>3, <2>4 DEF SetFlag
<1>11. CASE PreviewRelink(p)
  <2>1. proc[p] \in Process /\ At(p, "operating")
    BY <1>11 DEF PreviewRelink, Operating, TypeOK
  <2>2. proc'[p].pc = "previewed" /\ \A q \in Procs \ {p} : proc'[q] = proc[q]
    BY <1>11, <2>1 DEF PreviewRelink, TypeOK, Process
  <2>. QED
    BY <1>2, <1>3, <2>1, <2>2 DEF Saving, Removing
<1>12. CASE BeginCommit(p)
  <2>1. proc[p] \in Process /\ At(p, "chosen") /\ lock = None
    BY <1>12 DEF BeginCommit, TypeOK
  <2>2. proc'[p].pc = "recovering" /\ \A q \in Procs \ {p} : proc'[q] = proc[q]
    BY <1>12, <2>1 DEF BeginCommit, TypeOK, Process
  <2>. QED
    BY <1>3, <2>1, <2>2 DEF At, Saving, Removing
<1>13. CASE ChooseCandidate(p)
  <2>1. /\ proc[p].pc \notin Saving \cup Removing
        /\ proc'[p].pc \notin Saving \cup Removing
        /\ proc'[p].pc \in {"chosen", "idle"}
        /\ \A q \in Procs \ {p} : proc'[q] = proc[q]
    BY <1>13, GotoDoes
       DEF ChooseCandidate, At, TypeOK, Resting, Saving, Removing
  <2>2. \A i \in Ids : (Saved(i) <=> Saved(i)') /\ (Removed(i) <=> Removed(i)')
    BY <2>1 DEF Saved, Removed
  <2>3. \A i \in Ids : Follows(i) => Follows(i)'
    BY <1>1, <2>2, FollowsKept DEF Alike
  <2>4. ASSUME NEW q \in Procs \ {p}
        PROVE  Projecting(q) => Projecting(q)'
    BY <1>1, <2>1 DEF Projecting, InMenu, OnScreen
  <2>. QED
    BY <1>1, <2>1, <2>2, <2>3, <2>4 DEF Entries, Registered
<1>. QED
  BY <1>6, <1>7, <1>8, <1>9, <1>10, <1>11, <1>12, <1>13 DEF Serve

\* What a save or a removal does to the entries, and how a failure is undone.
LEMMA SaveOrRemoveEntries ==
    ASSUME TypeOK, Locked, Entries, NEW p \in Procs, SaveOrRemove(p)
    PROVE  Entries'
<1>. USE DEF disk, entries, history, doubts
<1>. DEFINE before == proc[p].before
            after == proc[p].after
<1>1. proc[p].pc \in Saving \cup Removing
  BY DEF SaveOrRemove, WriteLauncher, WriteShortcut, SaveRecord, RestoreRecord,
     RestoreShortcut, RestoreLauncher, DropLauncher, DropShortcut, DropRecord,
     At, Saving, Removing
<1>2. /\ lock = p /\ Sound(proc[p], journal) /\ proc[p] \in Process
      /\ proc[p].id \in Ids
      /\ proc[p].pc \in Saving => after \in Record
      /\ before.record \in Record \cup {None}
  BY <1>1 DEF TypeOK, Process, Locked, Sound, Active, ActivePc, Unpending
<1>3. PICK i \in Ids : i = proc[p].id
  BY <1>2
<1>4. /\ launchers \subseteq Ids /\ shortcuts \subseteq Ids
      /\ records \in [Ids -> Record \cup {None}]
      /\ durable.records \in [Ids -> Record \cup {None}]
  BY DEF TypeOK
<1>5. /\ proc[p].pc \in Saving => Projecting(p)
      /\ proc[p].pc \notin Saving => Follows(i)
  <2>1. proc[p].pc \notin Saving => ~Saved(i)
    <3>1. ASSUME NEW q \in Procs, proc[q].pc \in Saving
          PROVE  q = p
      BY <1>2, <3>1, NoneIsNothing DEF Locked, Active, ActivePc, Unpending
    <3>. QED
      BY <3>1 DEF Saved
  <2>. QED
    BY <2>1 DEF Entries
<1>0. ASSUME proc[p].pc \in Removing
      PROVE  \A k \in Ids : ~Saved(k)
  <2>1. ASSUME NEW q \in Procs, proc[q].pc \in Saving
        PROVE  FALSE
    <3>1. q = p
      BY <1>2, <2>1, NoneIsNothing DEF Locked, Active, ActivePc, Unpending
    <3>. QED
      BY <1>0, <2>1, <3>1 DEF Saving, Removing
  <2>. QED
    BY <2>1 DEF Saved
<1>6. ASSUME NEW pc \in Saving \cup Removing, Goto(p, pc), torn' = torn,
             \A k \in Ids \ {i} :
               /\ k \in launchers' <=> k \in launchers
               /\ k \in shortcuts' <=> k \in shortcuts
               /\ records'[k] = records[k]
               /\ durable'.records[k] \in {records[k], durable.records[k]},
             pc \notin Saving => Follows(i)',
             pc \in Saving => Projecting(p)',
             pc \in Removing => records'[i] # None,
             pc = "dropShortcut" => i \notin launchers',
             pc = "dropRecord" => i \notin launchers' \cup shortcuts'
      PROVE  Entries'
  <2>1. /\ proc'[p].pc = pc /\ proc'[p].id = i
        /\ \A q \in Procs \ {p} : proc'[q] = proc[q]
    BY <1>3, <1>6, GotoDoes
  <2>. QED
    BY <1>2, <1>3, <1>6, <2>1, EntriesOfOne DEF Registered
<1>7. ASSUME Return(p), torn' = torn,
             \A k \in Ids \ {i} :
               /\ k \in launchers' <=> k \in launchers
               /\ k \in shortcuts' <=> k \in shortcuts
               /\ records'[k] = records[k]
               /\ durable'.records[k] \in {records[k], durable.records[k]},
             Follows(i)'
      PROVE  Entries'
  <2>1. /\ proc'[p].pc = "idle"
        /\ proc'[p].pc \notin Saving \cup Removing
        /\ \A q \in Procs \ {p} : proc'[q] = proc[q]
    BY <1>7, ReturnDoes
  <2>. QED
    BY <1>2, <1>3, <1>7, <2>1, EntriesOfOne
<1>8. ASSUME NEW pc, Goto(p, pc)
      PROVE  /\ proc'[p].pc = pc /\ proc'[p].id = i
             /\ proc'[p].before = before /\ proc'[p].after = after
  BY <1>3, <1>8, GotoDoes
<1>9. ASSUME Return(p), torn' = "save"
      PROVE  Entries'
  BY <1>2, <1>9, EntriesTorn
<1>10. ASSUME proc[p].pc \in Removing, CutRemoval(p),
              launchers' \subseteq launchers, shortcuts' \subseteq shortcuts,
              UNCHANGED <<records, durable>>
       PROVE  Entries'
  <2>1. \A k \in Ids : ~Saved(k)
    BY <1>0, <1>10
  <2>2. Return(p) /\ torn' # "no" /\ (torn' # "save" => torn # "save")
    BY <1>10 DEF CutRemoval
  <2>. QED
    BY <1>2, <1>10, <2>1, <2>2, EntriesTorn
<1>. HIDE DEF before, after
<1>11. CASE WriteLauncher(p)
  <2>1. proc[p].pc = "launcher" /\ Projecting(p)
    BY <1>5, <1>11 DEF WriteLauncher, At, Saving
  <2>2. UNCHANGED <<records, durable, shortcuts, torn>>
    BY <1>11 DEF WriteLauncher
  <2>3. \A k \in Ids \ {i} : k \in launchers' <=> k \in launchers
    BY <1>3, <1>11 DEF WriteLauncher, Toggled
  <2>4. CASE Goto(p, "shortcut") /\ launchers' = Toggled(launchers, i, after.applications)
    <3>1. /\ proc'[p].pc = "shortcut" /\ proc'[p].id = i
          /\ proc'[p].before = before /\ proc'[p].after = after
      BY <1>8, <2>4
    <3>2. i \in launchers' <=> after.applications
      BY <2>4 DEF Toggled
    <3>3. Projecting(p)'
      BY <1>3, <2>1, <2>2, <3>1, <3>2
         DEF Projecting, InMenu, OnScreen, before
    <3>. QED
      BY <1>6, <2>2, <2>3, <2>4, <3>3 DEF Saving, Removing
  <2>5. CASE Goto(p, "restoreRecord")
    <3>1. /\ proc'[p].pc = "restoreRecord" /\ proc'[p].id = i
          /\ proc'[p].before = before /\ proc'[p].after = after
      BY <1>8, <2>5
    <3>2. Projecting(p)'
      BY <1>3, <2>1, <2>2, <3>1 DEF Projecting, InMenu, OnScreen, before
    <3>. QED
      BY <1>6, <2>2, <2>3, <2>5, <3>2 DEF Saving, Removing
  <2>. QED
    BY <1>3, <1>11, <2>4, <2>5 DEF WriteLauncher, after
<1>12. CASE WriteShortcut(p)
  <2>1. proc[p].pc = "shortcut" /\ Projecting(p)
    BY <1>5, <1>12 DEF WriteShortcut, At, Saving
  <2>2. UNCHANGED <<records, launchers, torn>>
    BY <1>12 DEF WriteShortcut
  <2>3. durable'.records = durable.records
    BY <1>12, ShortcutDoes DEF WriteShortcut
  <2>4. \A k \in Ids \ {i} : k \in shortcuts' <=> k \in shortcuts
    BY <1>3, <1>12 DEF WriteShortcut, PutShortcut, Toggled
  <2>5. CASE Goto(p, "saving") /\ shortcuts' = Toggled(shortcuts, i, after.desktop)
    <3>1. /\ proc'[p].pc = "saving" /\ proc'[p].id = i
          /\ proc'[p].before = before /\ proc'[p].after = after
      BY <1>8, <2>5
    <3>2. i \in shortcuts' <=> after.desktop
      BY <2>5 DEF Toggled
    <3>3. Projecting(p)'
      BY <1>3, <2>1, <2>2, <2>3, <3>1, <3>2
         DEF Projecting, InMenu, OnScreen, before, after
    <3>. QED
      BY <1>6, <2>2, <2>3, <2>4, <2>5, <3>3 DEF Saving, Removing
  <2>6. CASE Goto(p, "restoreRecord")
    <3>1. /\ proc'[p].pc = "restoreRecord" /\ proc'[p].id = i
          /\ proc'[p].before = before /\ proc'[p].after = after
      BY <1>8, <2>6
    <3>2. Projecting(p)'
      BY <1>3, <2>1, <2>2, <2>3, <3>1 DEF Projecting, InMenu, OnScreen, before
    <3>. QED
      BY <1>6, <2>2, <2>3, <2>4, <2>6, <3>2 DEF Saving, Removing
  <2>. QED
    BY <1>3, <1>12, <2>5, <2>6 DEF WriteShortcut, PutShortcut, after
<1>13. CASE SaveRecord(p)
  <2>1. proc[p].pc = "saving" /\ Projecting(p) /\ after \in Record
    BY <1>2, <1>5, <1>13 DEF SaveRecord, At, Saving
  <2>2. UNCHANGED <<launchers, shortcuts, torn>>
    BY <1>13 DEF SaveRecord
  <2>3. CASE WriteRecord(i, after) /\ Return(p)
    <3>1. records' = [records EXCEPT ![i] = after] /\ durable'.records = records'
      BY <2>1, <2>3, RecordDoes, NoneIsNothing
    <3>2. /\ records'[i] = after /\ after # None
          /\ \A k \in Ids \ {i} : records'[k] = records[k]
      BY <1>4, <2>1, <3>1, NoneIsNothing
    <3>3. /\ i \in launchers' <=> after.applications
          /\ i \in shortcuts' <=> after.desktop
      BY <1>3, <2>1, <2>2 DEF Projecting, after
    <3>4. Follows(i)'
      BY <3>1, <3>2, <3>3 DEF Follows, InMenu, OnScreen
    <3>. QED
      BY <1>7, <2>2, <2>3, <3>1, <3>2, <3>4
  <2>4. CASE WriteRecordFails(i, after) /\ Goto(p, "restoreRecord")
    <3>1. /\ proc'[p].pc = "restoreRecord" /\ proc'[p].id = i
          /\ proc'[p].before = before /\ proc'[p].after = after
      BY <1>8, <2>4
    <3>2. durable' = durable /\ \A k \in Ids \ {i} : records'[k] = records[k]
      BY <1>4, <2>4 DEF WriteRecordFails
    <3>3. Projecting(p)'
      BY <1>3, <2>1, <2>2, <3>1, <3>2
         DEF Projecting, InMenu, OnScreen, before
    <3>. QED
      BY <1>6, <2>2, <2>4, <3>2, <3>3 DEF Saving, Removing
  <2>. QED
    BY <1>3, <1>13, <2>3, <2>4 DEF SaveRecord, after
<1>14. CASE RestoreRecord(p)
  <2>1. proc[p].pc = "restoreRecord" /\ Projecting(p)
    BY <1>5, <1>14 DEF RestoreRecord, At, Saving
  <2>2. UNCHANGED <<launchers, shortcuts>>
    BY <1>14 DEF RestoreRecord
  <2>3. CASE /\ WriteRecord(i, before.record) /\ torn' = torn
             /\ Goto(p, "restoreShortcut")
    <3>1. /\ proc'[p].pc = "restoreShortcut" /\ proc'[p].id = i
          /\ proc'[p].before = before /\ proc'[p].after = after
      BY <1>8, <2>3
    <3>2. /\ records' = [records EXCEPT ![i] = before.record]
          /\ durable'.records \in {records', durable.records}
      BY <1>2, <2>3, RecordDoes DEF before
    <3>3. /\ records'[i] = before.record
          /\ \A k \in Ids \ {i} : records'[k] = records[k]
      BY <1>4, <3>2
    <3>4. /\ i \in InMenu(records') <=>
                before.record # None /\ before.record.applications
          /\ i \in OnScreen(records') <=>
                before.record # None /\ before.record.desktop
      BY <3>3 DEF InMenu, OnScreen
    <3>5. Projecting(p)'
      BY <1>3, <2>1, <2>2, <2>3, <3>1, <3>2, <3>3, <3>4
         DEF Projecting, before
    <3>. QED
      BY <1>6, <2>2, <2>3, <3>2, <3>3, <3>5 DEF Saving, Removing
  <2>. QED
    BY <1>3, <1>9, <1>14, <2>3 DEF RestoreRecord, before
<1>15. CASE RestoreShortcut(p)
  <2>1. proc[p].pc = "restoreShortcut" /\ Projecting(p)
    BY <1>5, <1>15 DEF RestoreShortcut, At, Saving
  <2>2. UNCHANGED <<records, launchers>>
    BY <1>15 DEF RestoreShortcut
  <2>3. CASE /\ PutShortcut(i, before.shortcut) /\ torn' = torn
             /\ Goto(p, "restoreLauncher")
    <3>1. /\ proc'[p].pc = "restoreLauncher" /\ proc'[p].id = i
          /\ proc'[p].before = before /\ proc'[p].after = after
      BY <1>8, <2>3
    <3>2. /\ durable'.records = durable.records
          /\ i \in shortcuts' <=> before.shortcut
          /\ \A k \in Ids \ {i} : k \in shortcuts' <=> k \in shortcuts
      BY <2>3, ShortcutDoes DEF Toggled
    <3>3. Projecting(p)'
      BY <1>3, <2>1, <2>2, <2>3, <3>1, <3>2
         DEF Projecting, InMenu, OnScreen, before
    <3>. QED
      BY <1>6, <2>2, <2>3, <3>2, <3>3 DEF Saving, Removing
  <2>. QED
    BY <1>3, <1>9, <1>15, <2>3 DEF RestoreShortcut, before
<1>16. CASE RestoreLauncher(p)
  <2>1. proc[p].pc = "restoreLauncher" /\ Projecting(p)
    BY <1>5, <1>16 DEF RestoreLauncher, At, Saving
  <2>2. UNCHANGED <<records, durable, shortcuts>> /\ Return(p)
    BY <1>16 DEF RestoreLauncher
  <2>3. CASE launchers' = Toggled(launchers, i, before.launcher) /\ torn' = torn
    <3>1. /\ i \in launchers' <=> before.launcher
          /\ \A k \in Ids \ {i} : k \in launchers' <=> k \in launchers
      BY <2>3 DEF Toggled
    <3>2. /\ records'[i] = before.record /\ durable' = durable
          /\ i \in shortcuts' <=> before.shortcut
      BY <1>3, <2>1, <2>2 DEF Projecting, before
    <3>3. /\ torn # "save" =>
              /\ before.launcher =>
                    /\ before.record # None /\ before.record.applications
                    /\ i \in InMenu(durable.records)
              /\ before.shortcut =>
                    /\ before.record # None /\ before.record.desktop
                    /\ i \in OnScreen(durable.records)
          /\ torn = "no" =>
              /\ before.record # None /\ before.record.applications
                    => before.launcher
              /\ i \in InMenu(durable.records) => before.launcher
              /\ before.record # None /\ before.record.desktop
                    => before.shortcut
              /\ i \in OnScreen(durable.records) => before.shortcut
      BY <1>3, <2>1 DEF Projecting, before
    <3>4. Follows(i)'
      BY <2>2, <2>3, <3>1, <3>2, <3>3 DEF Follows, InMenu, OnScreen
    <3>. QED
      BY <1>7, <2>2, <2>3, <3>1, <3>4
  <2>. QED
    BY <1>3, <1>9, <1>16, <2>2, <2>3 DEF RestoreLauncher, before
<1>17. CASE DropLauncher(p)
  <2>1. /\ proc[p].pc = "dropLauncher" /\ proc[p].pc \in Removing
        /\ Follows(i) /\ records[i] # None
    BY <1>3, <1>5, <1>17
       DEF DropLauncher, At, Saving, Removing, Entries, Registered
  <2>2. UNCHANGED <<records, durable, shortcuts>>
    BY <1>17 DEF DropLauncher
  <2>3. CASE /\ Goto(p, "dropShortcut") /\ torn' = torn
             /\ launchers' = launchers \ {i}
    <3>1. Removed(i)'
      <4>1. proc'[p].pc = "dropShortcut" /\ proc'[p].id = i
        BY <1>8, <2>3
      <4>. QED
        BY <4>1 DEF Removed, Removing
    <3>2. Follows(i)'
      BY <2>1, <2>2, <2>3, <3>1 DEF Follows, InMenu, OnScreen
    <3>3. "dropShortcut" \in Removing /\ "dropShortcut" \notin Saving
      BY DEF Removing, Saving
    <3>. QED
      BY <1>6, <2>1, <2>2, <2>3, <3>2, <3>3
  <2>. QED
    BY <1>3, <1>10, <1>17, <2>1, <2>2, <2>3 DEF DropLauncher
<1>18. CASE DropShortcut(p)
  <2>1. /\ proc[p].pc = "dropShortcut" /\ proc[p].pc \in Removing
        /\ Follows(i) /\ records[i] # None /\ i \notin launchers
    BY <1>3, <1>5, <1>18
       DEF DropShortcut, At, Saving, Removing, Entries, Registered
  <2>2. UNCHANGED <<records, launchers>>
    BY <1>18 DEF DropShortcut
  <2>3. CASE /\ Goto(p, "dropRecord") /\ torn' = torn
             /\ PutShortcut(i, FALSE)
    <3>1. Removed(i)'
      <4>1. proc'[p].pc = "dropRecord" /\ proc'[p].id = i
        BY <1>8, <2>3
      <4>. QED
        BY <4>1 DEF Removed, Removing
    <3>2. shortcuts' = shortcuts \ {i} /\ durable'.records = durable.records
      BY <2>3, ShortcutDoes DEF Toggled
    <3>3. Follows(i)'
      BY <2>1, <2>2, <2>3, <3>1, <3>2 DEF Follows, InMenu, OnScreen
    <3>4. "dropRecord" \in Removing /\ "dropRecord" \notin Saving
      BY DEF Removing, Saving
    <3>. QED
      BY <1>6, <2>1, <2>2, <2>3, <3>2, <3>3, <3>4
  <2>4. CASE /\ CutRemoval(p) /\ UNCHANGED durable
             /\ shortcuts' \in {shortcuts, shortcuts \ {i}}
    BY <1>10, <2>1, <2>2, <2>4
  <2>. QED
    BY <1>3, <1>18, <2>3, <2>4 DEF DropShortcut
<1>19. CASE DropRecord(p)
  <2>1. /\ proc[p].pc = "dropRecord" /\ proc[p].pc \in Removing
        /\ proc[p].pc \notin Saving
        /\ Follows(i) /\ records[i] # None
        /\ i \notin launchers /\ i \notin shortcuts
    BY <1>3, <1>5, <1>19
       DEF DropRecord, At, Saving, Removing, Entries, Registered
  <2>2. UNCHANGED <<launchers, shortcuts>> /\ Return(p)
    BY <1>19 DEF DropRecord, CutRemoval
  <2>3. CASE WriteRecord(i, None) /\ torn' = torn
    <3>1. /\ records' = [records EXCEPT ![i] = None]
          /\ durable'.records = records'
      BY <2>1, <2>3, RecordDoes
    <3>2. records'[i] = None /\ \A k \in Ids \ {i} : records'[k] = records[k]
      BY <1>4, <3>1
    <3>3. Follows(i)'
      BY <2>1, <2>2, <3>1, <3>2 DEF Follows, InMenu, OnScreen
    <3>. QED
      BY <1>7, <2>2, <2>3, <3>1, <3>2, <3>3
  <2>4. CASE WriteRecordFails(i, None) /\ CutRemoval(p)
    <3>1. \A k \in Ids : ~Saved(k)
      BY <1>0, <2>1
    <3>2. durable' = durable /\ \A k \in Ids \ {i} : records'[k] = records[k]
      BY <1>4, <2>4 DEF WriteRecordFails
    <3>3. torn' # "no" /\ (torn' # "save" => torn # "save")
      BY <2>4 DEF CutRemoval
    <3>. QED
      BY <1>2, <2>1, <2>2, <3>1, <3>2, <3>3, EntriesTorn
  <2>. QED
    BY <1>3, <1>19, <2>3, <2>4 DEF DropRecord
<1>. QED
  BY <1>11, <1>12, <1>13, <1>14, <1>15, <1>16, <1>17, <1>18, <1>19
     DEF SaveOrRemove

\* A process that is killed tears its save or its removal, and nothing else.
LEMMA CrashEntries ==
    ASSUME TypeOK, Locked, Entries, NEW p \in Procs, Crash(p)
    PROVE  Entries'
<1>. USE DEF disk, entries, history, doubts
<1>1. lock = p /\ Return(p) /\ torn' = TornBy(p) /\ UNCHANGED durable
  BY DEF Crash
<1>2. PICK i : i = proc[p].id
  OBVIOUS
<1>3. CASE proc[p].pc \in Saving
  BY <1>1, <1>3, EntriesTorn DEF TornBy
<1>4. CASE proc[p].pc \in Removing
  <2>1. \A k \in Ids : ~Saved(k)
    BY <1>1, <1>4, Working, ReturnDoes DEF Saving, Removing
  <2>2. torn' # "no" /\ (torn' # "save" => torn # "save")
    BY <1>1, <1>4 DEF TornBy
  <2>3. launchers' \subseteq launchers /\ shortcuts' \subseteq shortcuts
    <3>1. CASE EntryHalfWritten(p)
      <4>1. CASE /\ At(p, "dropLauncher") /\ UNCHANGED shortcuts
                 /\ launchers' = Toggled(launchers, i, FALSE)
        BY <4>1 DEF Toggled
      <4>2. CASE /\ At(p, "dropShortcut") /\ UNCHANGED launchers
                 /\ shortcuts' = Toggled(shortcuts, i, FALSE)
        BY <4>2 DEF Toggled
      <4>. QED
        BY <1>2, <1>4, <3>1, <4>1, <4>2 DEF EntryHalfWritten, At, Removing
    <3>2. CASE ~EntryHalfWritten(p)
      BY <3>2 DEF Crash, JournalHalfWritten, RecordHalfWritten, PlainHalfRenamed
    <3>. QED
      BY <3>1, <3>2
  <2>4. \/ UNCHANGED records
        \/ /\ records' = [records EXCEPT ![i] = None]
           /\ UNCHANGED <<launchers, shortcuts>>
           /\ proc[p].pc = "dropRecord"
    BY <1>2, <1>4 DEF Crash, JournalHalfWritten, RecordHalfWritten,
       EntryHalfWritten, PlainHalfRenamed, At, Removing
  <2>5. ASSUME NEW k \in Ids
        PROVE  k \notin launchers' \cup shortcuts' \/ records'[k] = records[k]
    BY <1>2, <2>4 DEF Entries, TypeOK
  <2>. QED
    BY <1>1, <2>1, <2>2, <2>3, <2>5, EntriesTorn
<1>5. CASE proc[p].pc \notin Saving \cup Removing
  <2>1. torn' = torn
    BY <1>1, <1>5 DEF TornBy
  <2>2. UNCHANGED <<launchers, shortcuts>>
    BY <1>5 DEF Crash, JournalHalfWritten, RecordHalfWritten,
       EntryHalfWritten, PlainHalfRenamed, At, Saving, Removing
  <2>3. \/ UNCHANGED records
        \/ /\ At(p, "updating") /\ Retargetable(proc[p].txn)
           /\ records' = Retargeted(records, proc[p].txn)
    BY <1>5 DEF Crash, JournalHalfWritten, RecordHalfWritten,
       EntryHalfWritten, PlainHalfRenamed, At, Saving, Removing
  <2>4. At(p, "updating") => proc[p].txn \in Journal
    BY NoneIsNothing DEF At, TypeOK, Locked, Sound, Transacting, Process
  <2>5. \A k \in Ids : Alike(records'[k], records[k])
    BY <2>3, <2>4, RetargetedAlike DEF Alike
  <2>6. \A k \in Ids : Alike(durable'.records[k], durable.records[k])
    BY <1>1 DEF Alike
  <2>. QED
    BY <1>1, <1>5, <2>1, <2>2, <2>5, <2>6, ReturnDoes, EntriesKept
<1>. QED
  BY <1>3, <1>4, <1>5

\* Every step keeps the entries in line with the records.
LEMMA EntriesStep ==
    ASSUME TypeOK, Locked, Entries, [Next]_vars
    PROVE  Entries'
<1>. USE DEF disk, entries, history, doubts
<1>1. CASE UNCHANGED <<records, durable, launchers, shortcuts, proc, torn>>
  <2>1. \A i : /\ Saved(i) <=> Saved(i)'
               /\ Removed(i) <=> Removed(i)'
    BY <1>1 DEF Saved, Removed
  <2>2. \A i \in Ids : Follows(i) <=> Follows(i)'
    BY <1>1, <2>1 DEF Follows, InMenu, OnScreen
  <2>3. \A p \in Procs : Projecting(p) <=> Projecting(p)'
    BY <1>1 DEF Projecting, InMenu, OnScreen
  <2>. QED
    BY <1>1, <2>1, <2>2, <2>3 DEF Entries, Registered
<1>2. ASSUME NEW p \in Procs,
             Begin(p) \/ NothingPending(p) \/ RecoverPending(p) \/ Ambiguous(p)
      PROVE  Entries'
  <2>1. /\ UNCHANGED <<launchers, shortcuts, torn, records, durable>>
        /\ proc[p].pc \in {"idle", "recovering"} /\ proc[p] \in Process
    BY <1>2, GoOnType
       DEF Begin, NothingPending, RecoverPending, Ambiguous, At, TypeOK
  <2>2. lock \in {p, None}
    BY <1>2 DEF Begin, NothingPending, RecoverPending, Ambiguous, At, Locked,
       Active, ActivePc
  <2>3. /\ proc'[p].pc \in {"idle", "recovering", "operating", "verifying",
                            "settling"}
        /\ \A q \in Procs \ {p} : proc'[q] = proc[q]
    <3>1. CASE Begin(p)
      BY <3>1 DEF Begin, TypeOK, Resting
    <3>2. CASE RecoverPending(p)
      BY <2>1, <3>2 DEF RecoverPending, TypeOK, Process
    <3>3. CASE NothingPending(p) \/ Ambiguous(p)
      BY <3>3, GotoDoes, ReturnDoes DEF NothingPending, Ambiguous
    <3>. QED
      BY <1>2, <3>1, <3>2, <3>3
  <2>4. {"idle", "recovering", "operating", "verifying", "settling"}
            \cap (Saving \cup Removing) = {}
    BY DEF Saving, Removing
  <2>5. proc[p].pc \notin Saving \cup Removing /\ proc'[p].pc \notin Saving \cup Removing
    BY <2>1, <2>3, <2>4
  <2>. QED
    BY <2>1, <2>2, <2>3, <2>5, EntriesKept DEF Alike
<1>3. ASSUME NEW p \in Procs, Crash(p)
      PROVE  Entries'
  BY <1>3, CrashEntries
<1>4. CASE PowerLoss
  <2>1. /\ \A p \in Procs : proc'[p].pc = "idle"
        /\ records' \in {records, durable.records}
        /\ durable'.records = records'
        /\ torn' = IF lock = None THEN torn ELSE TornBy(lock)
        /\ UNCHANGED <<launchers, shortcuts>>
    BY <1>4 DEF PowerLoss, Resting
  <2>2. ASSUME NEW i \in Ids
        PROVE  Follows(i)'
    <3>1. ASSUME Saved(i)
          PROVE  torn' = "save"
      <4>1. PICK p \in Procs : proc[p].pc \in Saving
        BY <3>1 DEF Saved
      <4>2. lock = p
        BY <4>1 DEF Locked, Active, ActivePc, Unpending
      <4>. QED
        BY <2>1, <4>1, <4>2, NoneIsNothing DEF TornBy
    <3>2. ASSUME Removed(i)
          PROVE  torn' # "no"
      <4>1. PICK p \in Procs : proc[p].pc \in Removing
        BY <3>2 DEF Removed
      <4>2. lock = p
        BY <4>1 DEF Locked, Active, ActivePc, Unpending
      <4>. QED
        BY <2>1, <4>1, <4>2, NoneIsNothing DEF TornBy
    <3>3. (torn' # "save" => torn # "save") /\ (torn' = "no" => torn = "no")
      BY <2>1 DEF TornBy
    <3>4. CASE torn' = "save"
      BY <3>4 DEF Follows
    <3>5. CASE torn' # "save"
      <4>1. Follows(i)
        BY <3>1, <3>5 DEF Entries
      <4>. QED
        BY <2>1, <3>2, <3>3, <3>5, <4>1 DEF Follows
    <3>. QED
      BY <3>4, <3>5
  <2>3. \A p \in Procs : proc'[p].pc \notin Saving \cup Removing
    BY <2>1 DEF Saving, Removing
  <2>. QED
    BY <2>1, <2>2, <2>3 DEF Entries
<1>5. CASE Outside
  <2>1. UNCHANGED <<records, launchers, shortcuts, proc, torn>>
        /\ durable'.records = durable.records
    BY <1>5 DEF Outside, TypeOK
  <2>2. \A i : /\ Saved(i) <=> Saved(i)'
               /\ Removed(i) <=> Removed(i)'
    BY <2>1 DEF Saved, Removed
  <2>3. \A i \in Ids : Follows(i) <=> Follows(i)'
    BY <2>1, <2>2 DEF Follows, InMenu, OnScreen
  <2>4. \A p \in Procs : Projecting(p) <=> Projecting(p)'
    BY <2>1 DEF Projecting, InMenu, OnScreen
  <2>. QED
    BY <2>1, <2>2, <2>3, <2>4 DEF Entries, Registered
<1>. QED
  BY <1>1, <1>2, <1>3, <1>4, <1>5, TransactEntries, ServeEntries,
     SaveOrRemoveEntries DEF Next, Store, vars

-----------------------------------------------------------------------------
\* The theorems

\* What holds of a store at rest.
LEMMA Beginning ==
    ASSUME Init
    PROVE  TypeOK /\ Locked /\ Undisturbed /\ Stored /\ Entries
<1>1. TypeOK
  BY BudgetsAreNatural, RestingType DEF Init, TypeOK, InMenu, OnScreen
<1>2. Locked
  BY RestingSound, NoneIsNothing DEF Init, Locked, Active
<1>3. \A p \in Procs : proc[p].pc = "idle"
  BY DEF Init, Resting
<1>4. Undisturbed
  BY <1>3 DEF Init, Undisturbed, Progress
<1>5. Stored
  BY <1>3 DEF Init, Stored, Explained, Flushed
<1>6. Entries
  <2>1. \A i \in Ids : Follows(i)
    BY DEF Init, Follows
  <2>. QED
    BY <1>3, <2>1 DEF Entries, Saving, Removing
<1>. QED
  BY <1>1, <1>2, <1>4, <1>5, <1>6

LEMMA StoreCorrect ==
    Spec => [](TypeOK /\ Locked /\ Undisturbed /\ Stored /\ Entries)
<1>. DEFINE Correct == TypeOK /\ Locked /\ Undisturbed /\ Stored /\ Entries
<1>1. Init => Correct
  BY Beginning
<1>2. Correct /\ [Next]_vars => Correct'
  BY TypeStep, LockedStep, DiskStep, EntriesStep
<1>. QED
  BY <1>1, <1>2, PTL DEF Spec

\* Types hold always.
THEOREM StoreTypeCorrect == Spec => []TypeOK
BY StoreCorrect, PTL

\* Wherever a rename was cut, by a failure, by a power loss, or by a kill between
\* its steps or between the rename or unlink of one of its writes and the fsync,
\* the call that next takes the lock can finish it.  Not claimed: a rename during
\* which the Desktop was changed, and one whose journal a power loss brought back
\* or took away after another call had gone on from its unsynced write.
THEOREM PendingIsRecoverableCorrect == Spec => []PendingIsRecoverable
<1>1. Undisturbed => PendingIsRecoverable
  BY DEF Undisturbed, Pending, PendingIsRecoverable
<1>. QED
  BY <1>1, StoreCorrect, PTL

\* Through a rename, its failures, its kills and its recovery, and through any
\* power loss, every registration keeps standing for the same file.  Not claimed:
\* the two exceptions above, and the record of a save or a removal that was cut,
\* which a power loss may give its old value or its new one.
THEOREM RenameKeepsTheFileCorrect == Spec => RenameKeepsTheFile
<1>. DEFINE Keeps == (journal # None \/ journal' # None \/ PowerLoss)
                        /\ ~disturbed'
            => \A i \in Ids :
                    /\ Bound(i) # None
                    /\ torn' = "no" \/ journal # None \/ records'[i] = records[i]
                    => Bound(i)' = Bound(i)
<1>1. ASSUME TypeOK, Locked, Undisturbed, Stored, Undisturbed', Next
      PROVE  Keeps
  <2>1. CASE PowerLoss
    BY <1>1, <2>1, PowerLossBound
  <2>2. CASE Outside /\ ~PowerLoss
    BY <2>2 DEF Outside
  <2>3. ASSUME NEW p \in Procs, Transact(p), ~disturbed'
        PROVE  \A i \in Ids : Bound(i)' = Bound(i)
    BY <1>1, <2>3, TransactBound
  <2>4. ASSUME NEW p \in Procs, Crash(p), ~disturbed',
               journal # None \/ journal' # None
        PROVE  \A i \in Ids : Bound(i)' = Bound(i)
    BY <1>1, <2>4, CrashBound
  <2>5. ASSUME NEW p \in Procs,
               \/ Begin(p) \/ NothingPending(p) \/ RecoverPending(p)
               \/ Ambiguous(p) \/ Serve(p) \/ SaveOrRemove(p),
               journal # None \/ journal' # None
        PROVE  \A i \in Ids : Bound(i)' = Bound(i)
    BY <1>1, <2>5, OtherwiseBound
  <2>. QED
    BY <1>1, <2>1, <2>2, <2>3, <2>4, <2>5 DEF Next, Store
<1>2. ASSUME TypeOK, Locked, Undisturbed, Stored, Undisturbed', [Next]_vars
      PROVE  [Keeps]_vars
  BY <1>1, <1>2
<1>. QED
  BY <1>2, StoreCorrect, PTL DEF Spec, RenameKeepsTheFile

\* No step of the store takes a file away from the Desktop.
THEOREM NothingIsOverwrittenCorrect == Spec => NothingIsOverwritten
<1>1. ASSUME TypeOK, Locked
      PROVE  \A p \in Procs :
                Store(p) => OnDesktop(desktop) \subseteq OnDesktop(desktop')
  BY <1>1, StoreKeeps
<1>. QED
  BY <1>1, StoreCorrect, PTL DEF NothingIsOverwritten

\* At rest the entries are those the records ask for, unless a save or a
\* removal was cut; a removal that was cut leaves none without its record.
THEOREM EntriesFollowRecordsCorrect == Spec => []EntriesFollowRecords
<1>1. ASSUME TypeOK, Locked, Entries
      PROVE  EntriesFollowRecords
  <2>. SUFFICES ASSUME lock = None
                PROVE  /\ torn = "no" => /\ launchers = InMenu(records)
                                         /\ shortcuts = OnScreen(records)
                       /\ torn # "save" => /\ launchers \subseteq InMenu(records)
                                           /\ shortcuts \subseteq OnScreen(records)
    BY DEF EntriesFollowRecords
  <2>1. \A p \in Procs : proc[p].pc \notin Saving \cup Removing
    BY <1>1, NoneIsNothing DEF Locked, Active, ActivePc, Unpending
  <2>2. \A i \in Ids : Follows(i) /\ ~Removed(i)
    BY <1>1, <2>1 DEF Entries, Saved, Removed
  <2>3. launchers \subseteq Ids /\ shortcuts \subseteq Ids
    BY <1>1 DEF TypeOK
  <2>4. InMenu(records) \subseteq Ids /\ OnScreen(records) \subseteq Ids
    BY DEF InMenu, OnScreen
  <2>. QED
    BY <2>2, <2>3, <2>4 DEF Follows
<1>. QED
  BY <1>1, StoreCorrect, PTL

=============================================================================
