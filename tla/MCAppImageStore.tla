---------------------------- MODULE MCAppImageStore ----------------------------
EXTENDS AppImageStore, TLC

Interchangeable ==
    Permutations(Procs) \cup Permutations(Ids) \cup Permutations(Files)
        \cup Permutations(Names)
=============================================================================
