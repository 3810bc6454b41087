---------------------------- MODULE MachineIndex ----------------------------
(***************************************************************************)
(* What the index of machines is for: it finds each machine by its name    *)
(* and its UUID.  An entry is written only for the machine that is in its  *)
(* directory, where nothing of it is known; it follows the machine when    *)
(* the old directory is empty; and one entry is forgotten at a time.       *)
(* Directories change as they like, they are not the index's.              *)
(***************************************************************************)
CONSTANTS Directories, Nothing

VARIABLES index,  \* entries of a machine's id, its name and its directory
          disk    \* the machine in each directory

Init == index = {}

\* The entry of the machine that is in a directory.
EntryAt(dir) == [id |-> disk[dir].id, name |-> disk[dir].name, dir |-> dir]

Unused(dir) == \A e \in index : e.dir # dir

Add(dir) ==
    /\ disk[dir] # Nothing
    /\ Unused(dir)
    /\ \A e \in index : e.id # disk[dir].id /\ e.name # disk[dir].name
    /\ index' = index \cup {EntryAt(dir)}

Follow(e, dir) ==
    /\ disk[e.dir] = Nothing /\ disk[dir] # Nothing
    /\ Unused(dir)
    /\ e.id = disk[dir].id /\ e.name = disk[dir].name
    /\ index' = (index \ {e}) \cup {EntryAt(dir)}

Forget(e) == index' = index \ {e}

Next ==
    \/ \E dir \in Directories : Add(dir) \/ \E e \in index : Follow(e, dir)
    \/ \E e \in index : Forget(e)

Spec == Init /\ [][Next]_index
=============================================================================
