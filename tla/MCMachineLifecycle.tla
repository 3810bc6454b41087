------------------------- MODULE MCMachineLifecycle -------------------------
(* Small instances of MachineLifecycle for TLC. *)
EXTENDS MachineLifecycle, TLC

\* Containers are interchangeable, and so are commands and brokers.
Interchangeable ==
    Permutations(Sessions) \cup Permutations(Brokers) \cup Permutations(Clients)
=============================================================================
