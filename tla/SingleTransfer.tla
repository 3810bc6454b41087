--------------------------- MODULE SingleTransfer ---------------------------
(***************************************************************************)
(* What the Clipboard menu promises: transfers one at a time, each ending  *)
(* with one dialog that says success or failure, or given up for good when *)
(* the machine is stopped or restarted.  The host clipboard changes only   *)
(* as part of a success, so what is in it came with one.                   *)
(***************************************************************************)
CONSTANTS Transfers, Nobody

VARIABLES status,   \* of each transfer
          hostClip  \* the transfer that the host clipboard's content came with

vars == <<status, hostClip>>

Init ==
    /\ status = [t \in Transfers |-> "new"]
    /\ hostClip = Nobody

Move(t, from, to) ==
    /\ status[t] = from
    /\ status' = [status EXCEPT ![t] = to]

Begin(t) ==
    /\ \A u \in Transfers : status[u] # "running"
    /\ Move(t, "new", "running")
    /\ UNCHANGED hostClip

Succeed(t) == Move(t, "running", "success") /\ hostClip' \in {hostClip, t}

Fail(t) == Move(t, "running", "failure") /\ UNCHANGED hostClip

GiveUp(t) == Move(t, "running", "given up") /\ UNCHANGED hostClip

Next == \E t \in Transfers : Begin(t) \/ Succeed(t) \/ Fail(t) \/ GiveUp(t)

Spec == Init /\ [][Next]_vars
=============================================================================
