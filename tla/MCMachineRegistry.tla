------------------------- MODULE MCMachineRegistry --------------------------
(* Small instances of MachineRegistry for TLC. *)
EXTENDS MachineRegistry, TLC

CONSTANTS d1, d2, d3, n1, n2

\* Two directories are called like a machine, one is not.
ThreeBaseNames == d1 :> n1 @@ d2 :> n2 @@ d3 :> Nothing
TwoBaseNames == d1 :> n1 @@ d2 :> n2

InterchangeableIdentities == Permutations(Identities)
InterchangeableLaunchers == Permutations(Launchers) \cup Permutations(Identities)
=============================================================================
