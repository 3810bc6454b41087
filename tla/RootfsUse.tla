----------------------------- MODULE RootfsUse -----------------------------
(***************************************************************************)
(* What the machine lock is for: the writable rootfs of a machine is used  *)
(* by one party at a time, a running container or one launcher command     *)
(* that exports, clones or deletes it, and it is free between two of them. *)
(***************************************************************************)
CONSTANT Users

VARIABLE using

Init == using = {}

Enter(u) == using = {} /\ using' = {u}
Leave(u) == using = {u} /\ using' = {}

Next == \E u \in Users : Enter(u) \/ Leave(u)

Spec == Init /\ [][Next]_using
=============================================================================
