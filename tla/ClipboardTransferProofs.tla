----------------------- MODULE ClipboardTransferProofs -----------------------
(***************************************************************************)
(* Theorems about ClipboardTransfer, for any number of clicks and changes. *)
(* First its invariants and action properties, from one inductive          *)
(* invariant IInv; last the refinement of SingleTransfer, step by step.    *)
(***************************************************************************)
EXTENDS ClipboardTransfer, TLAPS

-----------------------------------------------------------------------------
\* Type correctness

\* Finish leaves well-typed transfers and a well-typed handle.
LEMMA FinishType ==
    ASSUME TypeOK, NEW t \in Transfers, NEW outcome \in {"success", "failure"},
           Finish(t, outcome)
    PROVE  /\ xfer' \in [Transfers -> Transfer]
           /\ held' \in Transfers \cup {Nobody}
           /\ busy' \in BOOLEAN
           /\ running' = running /\ epoch' = epoch
<1>1. xfer[t] \in Transfer /\ \A u \in Transfers : xfer[u] \in Transfer
  BY DEF TypeOK
<1>2. [xfer[t] EXCEPT !.pc = "done", !.open = FALSE,
          !.told = IF Stale(t) THEN "nothing" ELSE outcome] \in Transfer
  BY <1>1 DEF Transfer, Pc
<1>3. \A u \in Transfers : [xfer[u] EXCEPT !.open = FALSE] \in Transfer
  BY <1>1 DEF Transfer
<1>4. xfer' \in [Transfers -> Transfer]
  BY <1>1, <1>2, <1>3 DEF Finish
<1>. QED
  BY <1>4 DEF Finish, TypeOK

LEMMA TypeInit == Init => TypeOK
<1>. SUFFICES ASSUME Init PROVE TypeOK
  OBVIOUS
<1>1. Idle \in Transfer
  BY DEF Idle, Transfer, Pc
<1>2. xfer \in [Transfers -> Transfer]
  BY <1>1 DEF Init
<1>3. budget \in [change : Nat, mishap : Nat]
  BY BoundsAreNatural DEF Init
<1>4. agent \in [id : Nat, pc : {"down", "probing", "serving"}]
  BY DEF Init
<1>. QED
  BY <1>2, <1>3, <1>4 DEF Init, TypeOK

LEMMA TypeStep ==
    ASSUME TypeOK, [Next]_vars
    PROVE  TypeOK'
<1>1. ASSUME NEW t \in Transfers PROVE xfer[t] \in Transfer
  BY DEF TypeOK
<1>2. CASE SetState
  <2>1. xfer' \in [Transfers -> Transfer]
    BY <1>1, <1>2 DEF SetState, Transfer
  <2>2. budget' \in [change : Nat, mishap : Nat]
    BY <1>2 DEF SetState, TypeOK
  <2>3. running' \in BOOLEAN /\ epoch' \in Nat
    BY <1>2 DEF SetState, TypeOK
  <2>. QED
    BY <1>2, <2>1, <2>2, <2>3 DEF SetState, TypeOK, guest
<1>3. ASSUME NEW t \in Transfers, Click(t) PROVE TypeOK'
  <2>1. \A put \in BOOLEAN :
          [Idle EXCEPT !.pc = "connecting", !.put = put, !.epoch = epoch,
                       !.agent = endpoint, !.pending = TRUE, !.open = TRUE]
            \in Transfer
    BY DEF Idle, Transfer, Pc, TypeOK
  <2>2. xfer' \in [Transfers -> Transfer]
    BY <1>1, <1>3, <2>1 DEF Click, TypeOK
  <2>. QED
    BY <1>3, <2>2 DEF Click, TypeOK, guest
<1>4. ASSUME NEW t \in Transfers, Resume(t) PROVE TypeOK'
  <2>1. CASE Retain(t)
    <3>1. xfer' \in [Transfers -> Transfer]
      BY <1>1, <2>1 DEF Retain, Transfer, Pc
    <3>. QED
      BY <2>1, <3>1 DEF Retain, TypeOK, guest
  <2>2. CASE Snapshot(t) \/ Decode(t)
    <3>1. xfer' \in [Transfers -> Transfer]
      BY <1>1, <2>2 DEF Snapshot, Decode, Goto, TypeOK, Transfer, Pc
    <3>. QED
      BY <2>2, <3>1 DEF Snapshot, Decode, TypeOK, guest, window
  <2>3. CASE PutDone(t) \/ Fail(t)
    BY <2>3, FinishType DEF PutDone, Fail, TypeOK, guest
  <2>4. CASE Install(t)
    BY <2>4, FinishType DEF Install, TypeOK, guest
  <2>. QED
    BY <1>4, <2>1, <2>2, <2>3, <2>4 DEF Resume
<1>5. ASSUME NEW t \in Transfers, Worker(t) PROVE TypeOK'
  <2>1. xfer' \in [Transfers -> Transfer]
    BY <1>1, <1>5
       DEF Worker, Send, Receive, ExchangeFails, Goto, TypeOK, Transfer, Pc
  <2>. QED
    BY <1>5, <2>1
       DEF Worker, Send, Receive, ExchangeFails, TypeOK, guest, window
<1>6. CASE AgentStarts \/ Publish \/ Withdraw \/ GuestCopies
  BY <1>6 DEF AgentStarts, Publish, Withdraw, GuestCopies, Mishap, TypeOK,
     window
<1>7. CASE AgentDies
  <2>1. xfer' \in [Transfers -> Transfer]
    BY <1>1, <1>7 DEF AgentDies, Transfer
  <2>2. /\ Mishap
        /\ agent' = [agent EXCEPT !.pc = "down"]
        /\ endpoint' \in {endpoint, 0}
        /\ guestClip' \in {guestClip, Nobody}
        /\ UNCHANGED <<window, hostClip, overtaken>>
    BY <1>7, Zenon DEF AgentDies
  <2>3. budget' \in [change : Nat, mishap : Nat]
    BY <2>2 DEF Mishap, TypeOK
  <2>. QED
    BY <2>1, <2>2, <2>3 DEF TypeOK, window
<1>8. ASSUME NEW t \in Transfers,
             ServePut(t) \/ ServeGet(t) \/ DropConnection(t)
      PROVE  TypeOK'
  <2>1. PICK ok \in BOOLEAN : Answered(t, ok)
    BY <1>8 DEF ServePut, ServeGet, DropConnection
  <2>2. [xfer[t] EXCEPT !.pending = FALSE, !.open = FALSE,
                        !.answer = ok /\ xfer[t].open] \in Transfer
    BY <1>1 DEF Transfer
  <2>3. xfer' \in [Transfers -> Transfer]
    BY <2>1, <2>2 DEF Answered, TypeOK
  <2>. QED
    BY <1>8, <2>3 DEF ServePut, ServeGet, DropConnection, TypeOK, guest, window
<1>9. CASE UNCHANGED vars
  BY <1>9 DEF vars, TypeOK
<1>. QED
  BY <1>2, <1>3, <1>4, <1>5, <1>6, <1>7, <1>8, <1>9 DEF Next, Guest

\* Each variable of the clipboard transfer keeps its type.
THEOREM ClipboardTypeCorrect == Spec => []TypeOK
<1>. QED
  BY TypeInit, TypeStep, PTL DEF Spec

-----------------------------------------------------------------------------
\* The inductive invariant

Current(t) == InFlight(t) /\ ~Stale(t)

\* SingleFlight, without the set of the transfers that are in progress.
OneCurrent ==
    /\ busy <=> \E t \in Transfers : Current(t)
    /\ \A t, u \in Transfers : Current(t) /\ Current(u) => t = u
    /\ \A t \in Transfers :
        Current(t) => held = IF At(t, "connecting") THEN Nobody ELSE t
    /\ held # Nobody => Current(held)

\* The transfers begin in the order of their numbers.
InOrder ==
    \A t, u \in Transfers : u < t /\ ~At(t, "idle") => ~At(u, "idle")

\* A transfer that has not begun waits for nothing and has no answer.
Unbegun ==
    \A t \in Transfers :
        At(t, "idle") => ~xfer[t].pending /\ ~xfer[t].answer

\* A transfer began in this epoch or an earlier one, and it was overtaken if
\* and only if it was an earlier one.
Overtaken ==
    \A t \in Transfers :
        /\ ~At(t, "idle") => xfer[t].epoch <= epoch
        /\ InFlight(t) => (t \in overtaken <=> Stale(t))
        /\ t \in overtaken => ~At(t, "idle")

\* The connection of a transfer that was overtaken is shut, if the window ever
\* had its handle.
Shut ==
    \A t \in Transfers :
        InFlight(t) /\ t \in overtaken /\ ~At(t, "connecting") => ~xfer[t].open

\* Nothing began after a transfer that is in progress and not stale.
Latest ==
    \A t, u \in Transfers : Current(t) /\ t < u => At(u, "idle")

\* The agent answers in the order of the connections.
ServedInOrder ==
    \A t, u \in Transfers : xfer[t].answer /\ xfer[u].pending => t < u

\* The guest's selection is never older than a put that was answered.
Selection ==
    /\ guestClip # Nobody => ~At(guestClip, "idle")
    /\ \A t \in Transfers :
        xfer[t].answer /\ xfer[t].put => guestClip = Nobody \/ guestClip >= t

\* A result that is looked at came with an answer.
Results ==
    \A t \in Transfers :
        xfer[t].pc \in {"answered", "decoding"} => xfer[t].answer

IInv ==
    /\ TypeOK
    /\ OneCurrent
    /\ InOrder
    /\ Unbegun
    /\ Overtaken
    /\ Shut
    /\ Latest
    /\ ServedInOrder
    /\ Selection
    /\ Results

LEMMA InvInit == Init => IInv
<1>. SUFFICES ASSUME Init PROVE IInv
  OBVIOUS
<1>1. \A t \in Transfers : xfer[t] = Idle
  BY DEF Init
<1>2. \A t \in Transfers :
        /\ xfer[t].pc = "idle"
        /\ ~xfer[t].pending
        /\ ~xfer[t].open
        /\ ~xfer[t].answer
  BY <1>1 DEF Idle
<1>3. ~busy /\ held = Nobody /\ guestClip = Nobody /\ overtaken = {}
  BY DEF Init
<1>. QED
  BY <1>2, <1>3, TypeInit
     DEF IInv, OneCurrent, InOrder, Unbegun, Overtaken, Shut, Latest,
         ServedInOrder, Selection, Results, Current, InFlight, At

\* Steps that no transfer takes part in, and guest applications copy.
LEMMA ElsewhereStep ==
    ASSUME IInv, TypeOK', UNCHANGED <<window, xfer, overtaken>>,
           guestClip' \in {guestClip, Nobody}
    PROVE  IInv'
<1>1. OneCurrent' /\ InOrder' /\ Unbegun' /\ Overtaken' /\ Shut' /\ Latest'
  BY DEF IInv, OneCurrent, InOrder, Unbegun, Overtaken, Shut, Latest, Current,
         InFlight, Stale, At, window
<1>2. ServedInOrder' /\ Selection' /\ Results'
  BY DEF IInv, ServedInOrder, Selection, Results, At
<1>. QED
  BY <1>1, <1>2 DEF IInv

\* The agent's connections are closed.
LEMMA AgentDiesStep ==
    ASSUME IInv, TypeOK', AgentDies
    PROVE  IInv'
<1>. USE DEF IInv
<1>1. \A u \in Transfers :
        /\ xfer'[u].pc = xfer[u].pc
        /\ xfer'[u].put = xfer[u].put
        /\ xfer'[u].epoch = xfer[u].epoch
        /\ xfer'[u].answer = xfer[u].answer
        /\ ~xfer'[u].pending
        /\ xfer'[u].open => xfer[u].open
  BY DEF AgentDies, TypeOK, Transfer
<1>2. /\ UNCHANGED <<window, hostClip, overtaken>>
      /\ guestClip' \in {guestClip, Nobody}
  BY Zenon DEF AgentDies
<1>3. \A u \in Transfers : Current(u)' <=> Current(u)
  BY <1>1, <1>2 DEF Current, InFlight, Stale, window
<1>4. OneCurrent' /\ InOrder' /\ Unbegun' /\ Latest'
  BY <1>1, <1>2, <1>3 DEF OneCurrent, InOrder, Unbegun, Latest, At, window, TypeOK
<1>5. Overtaken' /\ Shut'
  BY <1>1, <1>2 DEF Overtaken, Shut, At, InFlight, Stale, window
<1>6. ServedInOrder' /\ Selection' /\ Results'
  BY <1>1, <1>2 DEF ServedInOrder, Selection, Results, At, TypeOK
<1>. QED
  BY <1>4, <1>5, <1>6

\* A transfer goes on by itself between its connection and its end.
LEMMA AdvanceStep ==
    ASSUME IInv, TypeOK', NEW t \in Transfers,
           UNCHANGED <<window, overtaken, guestClip>>,
           \A u \in Transfers \ {t} : xfer'[u] = xfer[u],
           xfer'[t].put = xfer[t].put,
           xfer'[t].epoch = xfer[t].epoch,
           xfer'[t].pending = xfer[t].pending,
           xfer'[t].open = xfer[t].open,
           xfer'[t].answer = xfer[t].answer,
           xfer[t].pc \notin {"idle", "connecting", "done"},
           xfer'[t].pc \notin {"idle", "connecting", "done"},
           xfer'[t].pc \in {"answered", "decoding"} => xfer[t].answer
    PROVE  IInv'
<1>. USE DEF IInv
<1>1. \A u \in Transfers :
        /\ Current(u)' <=> Current(u)
        /\ InFlight(u)' <=> InFlight(u)
        /\ Stale(u)' <=> Stale(u)
        /\ At(u, "idle")' <=> At(u, "idle")
        /\ At(u, "connecting")' <=> At(u, "connecting")
        /\ xfer'[u].put = xfer[u].put
        /\ xfer'[u].epoch = xfer[u].epoch
        /\ xfer'[u].pending = xfer[u].pending
        /\ xfer'[u].open = xfer[u].open
        /\ xfer'[u].answer = xfer[u].answer
  BY DEF Current, InFlight, Stale, At, window
<1>2. OneCurrent' /\ InOrder' /\ Unbegun' /\ Latest'
  BY <1>1 DEF OneCurrent, InOrder, Unbegun, Latest, window, TypeOK
<1>3. Overtaken' /\ Shut'
  BY <1>1 DEF Overtaken, Shut, window
<1>4. ServedInOrder' /\ Selection'
  BY <1>1 DEF ServedInOrder, Selection, TypeOK
<1>5. Results'
  BY <1>1 DEF Results
<1>. QED
  BY <1>2, <1>3, <1>4, <1>5

\* The window gets the handle of a transfer that is live.
LEMMA RetainStep ==
    ASSUME IInv, TypeOK', NEW t \in Transfers, Retain(t)
    PROVE  IInv'
<1>. USE DEF IInv
<1>1. At(t, "connecting") /\ Current(t) /\ held = Nobody
  BY DEF Retain, Live, Current, InFlight, Stale, At, OneCurrent
<1>2. \A u \in Transfers \ {t} : xfer'[u] = xfer[u]
  BY <1>1, NobodyIsNoTransfer DEF Retain
<1>3. /\ xfer'[t].pc \in {"reading", "sending"}
      /\ xfer'[t].put = xfer[t].put
      /\ xfer'[t].epoch = xfer[t].epoch
      /\ xfer'[t].pending = xfer[t].pending
      /\ xfer'[t].answer = xfer[t].answer
  BY DEF Retain, TypeOK, Transfer
<1>4. /\ held' = t
      /\ UNCHANGED <<running, epoch, busy, guestClip, overtaken>>
  BY DEF Retain, guest
<1>5. \A u \in Transfers :
        /\ Current(u)' <=> Current(u)
        /\ InFlight(u)' <=> InFlight(u)
        /\ Stale(u)' <=> Stale(u)
        /\ At(u, "idle")' <=> At(u, "idle")
        /\ At(u, "connecting")' <=> At(u, "connecting") /\ u # t
        /\ xfer'[u].put = xfer[u].put
        /\ xfer'[u].epoch = xfer[u].epoch
        /\ xfer'[u].pending = xfer[u].pending
        /\ xfer'[u].answer = xfer[u].answer
  BY <1>1, <1>2, <1>3, <1>4 DEF Current, InFlight, Stale, At
<1>6. OneCurrent'
  BY <1>1, <1>4, <1>5 DEF OneCurrent
<1>7. InOrder' /\ Unbegun' /\ Latest'
  BY <1>5 DEF InOrder, Unbegun, Latest
<1>8. Overtaken'
  BY <1>4, <1>5 DEF Overtaken
<1>9. Shut'
  BY <1>1, <1>2, <1>4, <1>5 DEF Shut, Overtaken, Current
<1>10. ServedInOrder' /\ Selection'
  BY <1>4, <1>5 DEF ServedInOrder, Selection, TypeOK
<1>11. Results'
  BY <1>2, <1>3 DEF Results
<1>. QED
  BY <1>6, <1>7, <1>8, <1>9, <1>10, <1>11

\* A new transfer comes after all others, and none of them is current.
LEMMA ClickStep ==
    ASSUME IInv, TypeOK', NEW t \in Transfers, Click(t)
    PROVE  IInv'
<1>. USE DEF IInv
<1>1. /\ At(t, "idle")
      /\ \A u \in Transfers : u < t <=> ~At(u, "idle")
  BY DEF Click, InOrder, TypeOK, Transfers
<1>2. held = Nobody /\ \A u \in Transfers : ~Current(u)
  BY DEF Click, OneCurrent, TypeOK
<1>3. \A u \in Transfers \ {t} : xfer'[u] = xfer[u]
  BY DEF Click
<1>4. /\ xfer'[t].pc = "connecting"
      /\ xfer'[t].epoch = epoch
      /\ xfer'[t].pending
      /\ ~xfer'[t].answer
  BY DEF Click, Idle, TypeOK
<1>5. busy' /\ UNCHANGED <<running, epoch, held, guestClip, overtaken>>
  BY DEF Click, guest
<1>6. \A u \in Transfers :
        /\ Current(u)' <=> u = t
        /\ At(u, "idle")' <=> At(u, "idle") /\ u # t
        /\ At(u, "connecting")' <=> At(u, "connecting") \/ u = t
  BY <1>2, <1>3, <1>4, <1>5 DEF Current, InFlight, Stale, At
<1>7. OneCurrent'
  BY <1>2, <1>5, <1>6, NobodyIsNoTransfer DEF OneCurrent
<1>8. InOrder' /\ Latest'
  BY <1>1, <1>6 DEF InOrder, Latest, Transfers
<1>9. Unbegun' /\ Results'
  BY <1>3, <1>4 DEF Unbegun, Results, At
<1>10. t \notin overtaken
  BY <1>1 DEF Overtaken
<1>11. Overtaken' /\ Shut'
  BY <1>1, <1>3, <1>4, <1>5, <1>10
     DEF Overtaken, Shut, At, InFlight, Stale, TypeOK
<1>12. ServedInOrder'
  BY <1>1, <1>3, <1>4 DEF ServedInOrder, Unbegun
<1>13. Selection'
  BY <1>3, <1>4, <1>5, <1>6, <1>1 DEF Selection, At, TypeOK
<1>. QED
  BY <1>7, <1>8, <1>9, <1>11, <1>12, <1>13

\* What is in progress is stale from now on, and its connection is shut.
LEMMA SetStateStep ==
    ASSUME IInv, TypeOK', SetState
    PROVE  IInv'
<1>. USE DEF IInv
<1>1. \A u \in Transfers :
        /\ xfer'[u].pc = xfer[u].pc
        /\ xfer'[u].put = xfer[u].put
        /\ xfer'[u].epoch = xfer[u].epoch
        /\ xfer'[u].pending = xfer[u].pending
        /\ xfer'[u].answer = xfer[u].answer
        /\ xfer'[u].open <=> xfer[u].open /\ u # held
  BY DEF SetState, TypeOK, Transfer
<1>2. /\ epoch' = epoch + 1 /\ held' = Nobody /\ busy' = FALSE
      /\ overtaken' = overtaken \cup {t \in Transfers : InFlight(t)}
      /\ guestClip' = guestClip
  BY DEF SetState, guest
<1>3. epoch \in Nat /\ \A u \in Transfers : xfer[u].epoch \in Nat
  BY DEF TypeOK, Transfer
<1>4. \A u \in Transfers :
        /\ At(u, "idle")' <=> At(u, "idle")
        /\ At(u, "connecting")' <=> At(u, "connecting")
        /\ InFlight(u)' <=> InFlight(u)
  BY <1>1 DEF At, InFlight
<1>5. \A u \in Transfers : InFlight(u) => Stale(u)'
  BY <1>1, <1>2, <1>3 DEF Overtaken, Stale, InFlight, At
<1>6. \A u \in Transfers : ~Current(u)'
  BY <1>4, <1>5 DEF Current
<1>7. OneCurrent' /\ Latest'
  BY <1>2, <1>6 DEF OneCurrent, Latest
<1>8. InOrder' /\ Unbegun' /\ ServedInOrder' /\ Results'
  BY <1>1 DEF InOrder, Unbegun, ServedInOrder, Results, At
<1>9. Overtaken'
  BY <1>1, <1>2, <1>3, <1>4, <1>5 DEF Overtaken, InFlight, At
<1>10. \A u \in Transfers :
         Current(u) /\ ~At(u, "connecting") => ~xfer'[u].open
  BY <1>1 DEF OneCurrent
<1>11. Shut'
  BY <1>1, <1>4, <1>10 DEF Shut, Overtaken, Current
<1>12. Selection'
  BY <1>1, <1>2 DEF Selection, At, TypeOK
<1>. QED
  BY <1>7, <1>8, <1>9, <1>11, <1>12

\* A transfer ends, and only its own lifecycle is over with it.
LEMMA FinishStep ==
    ASSUME IInv, TypeOK', NEW t \in Transfers, InFlight(t),
           NEW outcome \in {"success", "failure"}, Finish(t, outcome),
           UNCHANGED <<guestClip, overtaken>>
    PROVE  IInv'
<1>. USE DEF IInv
<1>1. /\ xfer'[t].pc = "done"
      /\ \A u \in Transfers \ {t} : xfer'[u].pc = xfer[u].pc
      /\ \A u \in Transfers :
            /\ xfer'[u].put = xfer[u].put
            /\ xfer'[u].epoch = xfer[u].epoch
            /\ xfer'[u].pending = xfer[u].pending
            /\ xfer'[u].answer = xfer[u].answer
            /\ xfer'[u].open => xfer[u].open
  <2>1. xfer[t] \in Transfer /\ \A u \in Transfers : xfer[u] \in Transfer
    BY DEF TypeOK
  <2>2. xfer'[t] = [xfer[t] EXCEPT !.pc = "done", !.open = FALSE,
                       !.told = IF Stale(t) THEN "nothing" ELSE outcome]
    BY DEF Finish
  <2>3. \A u \in Transfers \ {t} :
          xfer'[u] \in {xfer[u], [xfer[u] EXCEPT !.open = FALSE]}
    BY DEF Finish
  <2>4. \A u \in Transfers \ {t} :
          /\ xfer'[u].pc = xfer[u].pc
          /\ xfer'[u].put = xfer[u].put
          /\ xfer'[u].epoch = xfer[u].epoch
          /\ xfer'[u].pending = xfer[u].pending
          /\ xfer'[u].answer = xfer[u].answer
          /\ xfer'[u].open => xfer[u].open
    BY <2>1, <2>3 DEF Transfer
  <2>. QED
    BY <2>1, <2>2, <2>4 DEF Transfer
<1>2. UNCHANGED <<running, epoch>> /\ (busy' <=> busy /\ Stale(t))
  BY DEF Finish, TypeOK
<1>3. held' = IF held # Nobody /\ xfer[held].epoch = xfer[t].epoch
              THEN Nobody ELSE held
  BY DEF Finish
<1>4. \A u \in Transfers :
        /\ Current(u)' <=> Current(u) /\ u # t
        /\ InFlight(u)' <=> InFlight(u) /\ u # t
        /\ Stale(u)' <=> Stale(u)
        /\ At(u, "idle")' <=> At(u, "idle")
        /\ u # t => (At(u, "connecting")' <=> At(u, "connecting"))
  BY <1>1, <1>2 DEF Current, InFlight, Stale, At
<1>5. OneCurrent'
  <2>1. CASE Stale(t)
    <3>1. ~Current(t) /\ \A u \in Transfers : Current(u)' <=> Current(u)
      BY <1>4, <2>1 DEF Current
    <3>2. held' = held
      BY <1>3, <2>1 DEF OneCurrent, Current, Stale
    <3>3. busy' <=> busy
      BY <1>2, <2>1
    <3>4. \A u \in Transfers :
            Current(u) => (At(u, "connecting")' <=> At(u, "connecting"))
      BY <1>4, <3>1
    <3>5. held # Nobody => held \in Transfers
      BY DEF TypeOK
    <3>. QED
      BY <3>1, <3>2, <3>3, <3>4, <3>5 DEF OneCurrent
  <2>2. CASE ~Stale(t)
    <3>1. Current(t) /\ \A u \in Transfers : ~Current(u)'
      BY <1>4, <2>2 DEF Current, OneCurrent
    <3>2. held \in {t, Nobody}
      BY <3>1 DEF OneCurrent
    <3>3. ~busy' /\ held' = Nobody
      BY <1>2, <1>3, <2>2, <3>2
    <3>. QED
      BY <3>1, <3>3 DEF OneCurrent
  <2>. QED
    BY <2>1, <2>2
<1>6. InOrder' /\ Unbegun' /\ Latest'
  BY <1>1, <1>4 DEF InOrder, Unbegun, Latest
<1>7. Overtaken' /\ Shut'
  BY <1>1, <1>2, <1>4 DEF Overtaken, Shut, InFlight, At
<1>8. ServedInOrder' /\ Selection'
  BY <1>1, <1>4 DEF ServedInOrder, Selection, TypeOK
<1>9. Results'
  BY <1>1 DEF Results
<1>. QED
  BY <1>5, <1>6, <1>7, <1>8, <1>9

\* The agent has served the oldest connection.
LEMMA ServeStep ==
    ASSUME IInv, TypeOK', NEW t \in Transfers, Head(t),
           NEW ok \in BOOLEAN, Answered(t, ok),
           UNCHANGED <<window, overtaken>>,
           \/ guestClip' = t
           \/ guestClip' \in {guestClip, Nobody} /\ (ok => ~xfer[t].put)
    PROVE  IInv'
<1>. USE DEF IInv
<1>1. \A u \in Transfers :
        /\ xfer'[u].pc = xfer[u].pc
        /\ xfer'[u].put = xfer[u].put
        /\ xfer'[u].epoch = xfer[u].epoch
        /\ xfer'[u].pending <=> xfer[u].pending /\ u # t
        /\ xfer'[u].open => xfer[u].open
        /\ u # t => xfer'[u].answer = xfer[u].answer
  BY DEF Answered, TypeOK, Transfer
<1>2. xfer'[t].answer => ok
  BY DEF Answered, TypeOK, Transfer
<1>3. xfer[t].pending /\ \A u \in Transfers : u < t => ~xfer[u].pending
  BY DEF Head
<1>4. ~At(t, "idle") /\ ~xfer[t].answer
  BY <1>3 DEF Unbegun, ServedInOrder, Transfers
<1>5. \A u \in Transfers :
        /\ Current(u)' <=> Current(u)
        /\ At(u, "idle")' <=> At(u, "idle")
  BY <1>1 DEF Current, InFlight, Stale, At, window
<1>6. OneCurrent' /\ InOrder' /\ Unbegun' /\ Latest'
  BY <1>1, <1>4, <1>5
     DEF OneCurrent, InOrder, Unbegun, Latest, At, window, TypeOK
<1>7. Overtaken' /\ Shut'
  BY <1>1 DEF Overtaken, Shut, InFlight, Stale, At, window
<1>8. ServedInOrder'
  BY <1>1, <1>3 DEF ServedInOrder, Transfers
<1>9. \A u \in Transfers : xfer[u].answer => u < t
  BY <1>3 DEF ServedInOrder
<1>10. Selection'
  <2>1. guestClip' # Nobody => ~At(guestClip, "idle")'
    BY <1>4, <1>5 DEF Selection, TypeOK
  <2>2. ASSUME NEW u \in Transfers, xfer'[u].answer, xfer'[u].put
        PROVE  guestClip' = Nobody \/ guestClip' >= u
    <3>1. CASE u = t
      BY <1>1, <1>2, <2>2, <3>1 DEF Transfers
    <3>2. CASE u # t
      <4>1. xfer[u].answer /\ xfer[u].put /\ u < t
        BY <1>1, <1>9, <2>2, <3>2
      <4>. QED
        BY <4>1 DEF Selection, Transfers
    <3>. QED
      BY <3>1, <3>2
  <2>. QED
    BY <2>1, <2>2 DEF Selection
<1>11. Results'
  BY <1>1, <1>4 DEF Results
<1>. QED
  BY <1>6, <1>7, <1>8, <1>10, <1>11

LEMMA InvStep ==
    ASSUME IInv, [Next]_vars
    PROVE  IInv'
<1>1. TypeOK /\ TypeOK'
  BY TypeStep DEF IInv
<1>2. CASE SetState
  BY <1>1, <1>2, SetStateStep
<1>3. ASSUME NEW t \in Transfers, Click(t) PROVE IInv'
  BY <1>1, <1>3, ClickStep
<1>4. ASSUME NEW t \in Transfers, Resume(t) PROVE IInv'
  <2>1. CASE Retain(t)
    BY <1>1, <2>1, RetainStep
  <2>2. CASE Snapshot(t) \/ Decode(t)
    <3>1. \E pc \in {"sending", "decoding"} : xfer' = [xfer EXCEPT ![t].pc = pc]
      BY <2>2 DEF Snapshot, Decode, Goto
    <3>2. /\ xfer[t].pc \in {"reading", "answered"}
          /\ Decode(t) => At(t, "answered")
          /\ xfer'[t].pc = "decoding" => Decode(t)
      BY <1>1, <2>2 DEF Snapshot, Decode, Goto, At, TypeOK, Transfer
    <3>3. xfer'[t].pc = "decoding" => xfer[t].answer
      BY <3>2 DEF IInv, Results, At
    <3>4. UNCHANGED <<window, overtaken, guestClip>>
      BY <2>2 DEF Snapshot, Decode, guest
    <3>. QED
      BY <1>1, <3>1, <3>2, <3>3, <3>4, AdvanceStep DEF TypeOK, Transfer
  <2>3. CASE PutDone(t) \/ Install(t) \/ Fail(t)
    <3>1. /\ InFlight(t)
          /\ \E outcome \in {"success", "failure"} : Finish(t, outcome)
          /\ UNCHANGED <<guestClip, overtaken>>
      BY <2>3 DEF PutDone, Install, Fail, InFlight, At, guest
    <3>. QED
      BY <1>1, <3>1, FinishStep
  <2>. QED
    BY <1>4, <2>1, <2>2, <2>3 DEF Resume
<1>5. ASSUME NEW t \in Transfers, Worker(t) PROVE IInv'
  <2>1. xfer[t] \in Transfer
    BY <1>1 DEF TypeOK
  <2>2. /\ xfer[t].pc \in {"sending", "awaiting"}
        /\ xfer'[t].pc \in {"awaiting", "answered", "failed"}
        /\ xfer'[t].pc = "answered" => xfer[t].answer
    BY <1>1, <1>5, <2>1
       DEF Worker, Send, Receive, ExchangeFails, Goto, At, TypeOK, Transfer
  <2>3. /\ \A u \in Transfers \ {t} : xfer'[u] = xfer[u]
        /\ xfer'[t].put = xfer[t].put
        /\ xfer'[t].epoch = xfer[t].epoch
        /\ xfer'[t].pending = xfer[t].pending
        /\ xfer'[t].open = xfer[t].open
        /\ xfer'[t].answer = xfer[t].answer
    BY <1>1, <1>5, <2>1
       DEF Worker, Send, Receive, ExchangeFails, Goto, TypeOK, Transfer
  <2>4. UNCHANGED <<window, overtaken, guestClip>>
    BY <1>5 DEF Worker, Send, Receive, ExchangeFails, guest
  <2>. QED
    BY <1>1, <2>2, <2>3, <2>4, AdvanceStep
<1>6. CASE AgentStarts \/ Publish \/ Withdraw \/ GuestCopies
  <2>1. /\ UNCHANGED <<window, xfer, overtaken>>
        /\ guestClip' \in {guestClip, Nobody}
    BY <1>6 DEF AgentStarts, Publish, Withdraw, GuestCopies
  <2>. QED
    BY <1>1, <2>1, ElsewhereStep
<1>7. CASE AgentDies
  BY <1>1, <1>7, AgentDiesStep
<1>8. ASSUME NEW t \in Transfers, ServePut(t) PROVE IInv'
  <2>1. Head(t) /\ UNCHANGED <<window, overtaken>>
    BY <1>8 DEF ServePut
  <2>2. \E ok \in BOOLEAN :
          /\ Answered(t, ok)
          /\ \/ guestClip' = t
             \/ guestClip' \in {guestClip, Nobody} /\ ~ok
    BY <1>8 DEF ServePut
  <2>. QED
    BY <1>1, <2>1, <2>2, ServeStep
<1>9. ASSUME NEW t \in Transfers, ServeGet(t) \/ DropConnection(t) PROVE IInv'
  <2>1. Head(t) /\ UNCHANGED <<window, overtaken, guestClip>>
    BY <1>9 DEF ServeGet, DropConnection, guest
  <2>2. \E ok \in BOOLEAN : Answered(t, ok) /\ (ok => ~xfer[t].put)
    BY <1>9 DEF ServeGet, DropConnection
  <2>. QED
    BY <1>1, <2>1, <2>2, ServeStep
<1>10. CASE UNCHANGED vars
  BY <1>1, <1>10, ElsewhereStep DEF vars, window
<1>. QED
  BY <1>2, <1>3, <1>4, <1>5, <1>6, <1>7, <1>8, <1>9, <1>10 DEF Next, Guest

LEMMA Invariant == Spec => []IInv
<1>. QED
  BY InvInit, InvStep, PTL DEF Spec

-----------------------------------------------------------------------------
\* What the runs check

LEMMA OneCurrentIsSingleFlight == TypeOK /\ OneCurrent => SingleFlight
<1>. SUFFICES ASSUME TypeOK, OneCurrent PROVE SingleFlight
  OBVIOUS
<1>1. held # Nobody => \E t \in Transfers : Current(t)
  BY DEF OneCurrent, TypeOK
<1>. QED
  BY <1>1 DEF OneCurrent, SingleFlight, Current

\* The menu is busy exactly for the one transfer of this lifecycle.
THEOREM SingleFlightCorrect == Spec => []SingleFlight
<1>1. IInv => SingleFlight
  BY OneCurrentIsSingleFlight DEF IInv
<1>. QED
  BY <1>1, Invariant, PTL

\* A step that changes the host clipboard is an Install.
LEMMA OnlyInstall ==
    ASSUME [Next]_vars, hostClip' # hostClip
    PROVE  \E t \in Transfers : Install(t)
<1>. QED
  BY DEF Next, Resume, Worker, Guest, SetState, Click, Retain, Snapshot,
         PutDone, Decode, Fail, Send, Receive, ExchangeFails, AgentStarts,
         Publish, AgentDies, Withdraw, GuestCopies, ServePut, ServeGet,
         DropConnection, vars

\* The host clipboard never takes the answer of a transfer that a change of the
\* window's state overtook, or of an agent that has been replaced.
THEOREM OldAnswersAreDroppedCorrect == Spec => OldAnswersAreDropped
<1>. DEFINE Dropped ==
       hostClip' # hostClip =>
         hostClip' \notin overtaken /\ xfer[hostClip'].agent = endpoint
<1>1. ASSUME IInv, [Next]_vars PROVE [Dropped]_vars
  <2>. SUFFICES ASSUME hostClip' # hostClip PROVE Dropped
    OBVIOUS
  <2>1. PICK t \in Transfers : Install(t)
    BY <1>1, OnlyInstall
  <2>2. hostClip' = t /\ InFlight(t) /\ ~Stale(t) /\ xfer[t].agent = endpoint
    BY <2>1 DEF Install, Live, InFlight, Stale, At
  <2>. QED
    BY <1>1, <2>2 DEF IInv, Overtaken
<1>. QED
  BY <1>1, Invariant, PTL DEF Spec, OldAnswersAreDropped

\* Only a worker sends, and only on a connection that is open.
LEMMA OnlySend ==
    ASSUME TypeOK, [Next]_vars, NEW t \in Transfers, xfer'[t].sent, ~xfer[t].sent
    PROVE  At(t, "sending") /\ xfer[t].open
<1>1. \A u \in Transfers : xfer[u] \in Transfer
  BY DEF TypeOK
<1>2. ASSUME NEW u \in Transfers, Send(u)
      PROVE  At(t, "sending") /\ xfer[t].open
  BY <1>1, <1>2 DEF Send, TypeOK, Transfer
<1>3. ASSUME NEW u \in Transfers, Click(u) PROVE FALSE
  BY <1>1, <1>3 DEF Click, Idle, TypeOK
<1>4. ASSUME NEW u \in Transfers, NEW outcome \in {"success", "failure"},
             Finish(u, outcome)
      PROVE  FALSE
  <2>1. xfer'[t] \in {[xfer[t] EXCEPT !.pc = "done", !.open = FALSE,
                         !.told = IF Stale(t) THEN "nothing" ELSE outcome],
                      [xfer[t] EXCEPT !.open = FALSE], xfer[t]}
    BY <1>4 DEF Finish
  <2>. QED
    BY <1>1, <2>1 DEF Transfer
<1>5. ASSUME NEW u \in Transfers, Retain(u) PROVE FALSE
  BY <1>1, <1>5 DEF Retain, Transfer
<1>6. ASSUME NEW u \in Transfers, NEW pc \in Pc, Goto(u, pc) PROVE FALSE
  BY <1>1, <1>6 DEF Goto, TypeOK, Transfer
<1>7. ASSUME NEW u \in Transfers, Resume(u) \/ Worker(u)
      PROVE  At(t, "sending") /\ xfer[t].open
  BY <1>2, <1>4, <1>5, <1>6, <1>7
     DEF Resume, Worker, Snapshot, PutDone, Decode, Install, Fail, Receive,
         ExchangeFails, Pc
<1>8. CASE SetState
  BY <1>1, <1>8 DEF SetState, Transfer
<1>9. CASE AgentDies
  BY <1>1, <1>9 DEF AgentDies, Transfer
<1>10. ASSUME NEW u \in Transfers, NEW ok \in BOOLEAN, Answered(u, ok)
       PROVE  FALSE
  BY <1>1, <1>10 DEF Answered, TypeOK, Transfer
<1>11. ASSUME xfer' = xfer PROVE FALSE
  BY <1>11
<1>12. CASE Guest
  BY <1>9, <1>10, <1>11, <1>12
     DEF Guest, AgentStarts, Publish, Withdraw, GuestCopies, ServePut, ServeGet,
         DropConnection
<1>. QED
  BY <1>3, <1>7, <1>8, <1>11, <1>12 DEF Next, vars

\* After Stop or Restart nothing is sent for a transfer that began before.
THEOREM NothingSentAfterStopCorrect == Spec => NothingSentAfterStop
<1>. DEFINE Silent ==
       \A t \in Transfers : xfer'[t].sent /\ ~xfer[t].sent => t \notin overtaken
<1>1. ASSUME IInv, [Next]_vars PROVE [Silent]_vars
  <2>1. ASSUME NEW t \in Transfers, xfer'[t].sent, ~xfer[t].sent
        PROVE  t \notin overtaken
    BY <1>1, <2>1, OnlySend DEF IInv, Shut, InFlight, At
  <2>. QED
    BY <2>1
<1>. QED
  BY <1>1, Invariant, PTL DEF Spec, NothingSentAfterStop

\* A put is called a success only by PutDone.
LEMMA OnlyPutDone ==
    ASSUME TypeOK, [Next]_vars, NEW t \in Transfers, xfer[t].put,
           xfer[t].told # "success", xfer'[t].told = "success"
    PROVE  PutDone(t)
<1>1. \A u \in Transfers : xfer[u] \in Transfer
  BY DEF TypeOK
<1>2. ASSUME NEW u \in Transfers, NEW outcome \in {"success", "failure"},
             Finish(u, outcome)
      PROVE  u = t /\ outcome = "success"
  <2>1. CASE u # t
    <3>1. xfer'[t] \in {[xfer[t] EXCEPT !.open = FALSE], xfer[t]}
      BY <1>2, <2>1 DEF Finish
    <3>. QED
      BY <1>1, <3>1 DEF Transfer
  <2>2. CASE u = t
    <3>1. xfer'[t] = [xfer[t] EXCEPT !.pc = "done", !.open = FALSE,
                         !.told = IF Stale(t) THEN "nothing" ELSE outcome]
      BY <1>2, <2>2 DEF Finish
    <3>. QED
      BY <1>1, <2>2, <3>1 DEF Transfer
  <2>. QED
    BY <2>1, <2>2
<1>3. ASSUME NEW u \in Transfers, Click(u) PROVE FALSE
  BY <1>1, <1>3 DEF Click, Idle, TypeOK
<1>4. ASSUME NEW u \in Transfers, Retain(u) PROVE FALSE
  BY <1>1, <1>4 DEF Retain, Transfer
<1>5. ASSUME NEW u \in Transfers, NEW pc \in Pc, Goto(u, pc) PROVE FALSE
  BY <1>1, <1>5 DEF Goto, TypeOK, Transfer
<1>6. ASSUME NEW u \in Transfers, Worker(u) PROVE FALSE
  <2>1. CASE Send(u)
    BY <1>1, <2>1 DEF Send, TypeOK, Transfer
  <2>. QED
    BY <1>5, <1>6, <2>1 DEF Worker, Receive, ExchangeFails, Pc
<1>7. ASSUME NEW u \in Transfers, Install(u) PROVE FALSE
  BY <1>2, <1>7 DEF Install
<1>8. ASSUME NEW u \in Transfers, Fail(u) PROVE FALSE
  BY <1>2, <1>8 DEF Fail
<1>9. ASSUME NEW u \in Transfers, PutDone(u) PROVE PutDone(t)
  BY <1>2, <1>9 DEF PutDone
<1>10. ASSUME NEW u \in Transfers, Resume(u) PROVE PutDone(t)
  BY <1>4, <1>5, <1>7, <1>8, <1>9, <1>10 DEF Resume, Snapshot, Decode, Pc
<1>11. CASE SetState
  BY <1>1, <1>11 DEF SetState, Transfer
<1>12. CASE AgentDies
  BY <1>1, <1>12 DEF AgentDies, Transfer
<1>13. ASSUME NEW u \in Transfers, NEW ok \in BOOLEAN, Answered(u, ok)
       PROVE  FALSE
  BY <1>1, <1>13 DEF Answered, TypeOK, Transfer
<1>14. ASSUME xfer' = xfer PROVE FALSE
  BY <1>14
<1>15. CASE Guest
  BY <1>12, <1>13, <1>14, <1>15
     DEF Guest, AgentStarts, Publish, Withdraw, GuestCopies, ServePut, ServeGet,
         DropConnection
<1>. QED
  BY <1>3, <1>6, <1>10, <1>11, <1>14, <1>15 DEF Next, vars

\* When the user is told that the host's snapshot is in the guest, it is there,
\* or something was copied in the guest since.
THEOREM DoneMeansThereCorrect == Spec => DoneMeansThere
<1>. DEFINE There ==
       \A t \in Transfers :
         xfer[t].put /\ xfer[t].told # "success" /\ xfer'[t].told = "success"
           => guestClip \in {t, Nobody}
<1>1. ASSUME IInv, [Next]_vars PROVE [There]_vars
  <2>1. ASSUME NEW t \in Transfers, xfer[t].put,
               xfer[t].told # "success", xfer'[t].told = "success"
        PROVE  guestClip \in {t, Nobody}
    <3>1. PutDone(t)
      BY <1>1, <2>1, OnlyPutDone DEF IInv
    <3>2. Current(t) /\ xfer[t].answer
      BY <1>1, <3>1
         DEF PutDone, Live, At, Current, InFlight, Stale, IInv, Results
    <3>3. guestClip = Nobody \/ guestClip >= t
      BY <1>1, <2>1, <3>2 DEF IInv, Selection
    <3>4. ASSUME guestClip # Nobody PROVE ~(t < guestClip)
      BY <1>1, <3>2, <3>4 DEF IInv, Selection, Latest, TypeOK
    <3>. QED
      BY <1>1, <3>3, <3>4 DEF IInv, TypeOK, Transfers, Nobody
  <2>. QED
    BY <2>1
<1>. QED
  BY <1>1, Invariant, PTL DEF Spec, DoneMeansThere

-----------------------------------------------------------------------------
\* The refinement of SingleTransfer

\* A transfer that goes on in its lifecycle, or is over, looks the same.
LEMMA StatusKept ==
    ASSUME UNCHANGED epoch, NEW Others \in SUBSET Transfers,
           \A u \in Others :
              /\ At(u, "idle")' <=> At(u, "idle")
              /\ At(u, "done")' <=> At(u, "done")
              /\ xfer'[u].epoch = xfer[u].epoch
              /\ xfer'[u].told = xfer[u].told
    PROVE  \A u \in Others : Status'[u] = Status[u]
<1>. QED
  BY DEF Status, Seen, InFlight, Stale, At

\* The transfers as the user sees them, each by itself.
LEMMA StatusOf ==
    ASSUME TypeOK, NEW t \in Transfers
    PROVE  /\ Status[t] = "new" <=> At(t, "idle")
           /\ Status[t] = "running" <=> Current(t)
           /\ At(t, "done") => Status[t] = IF xfer[t].told = "nothing"
                                           THEN "given up" ELSE xfer[t].told
           /\ InFlight(t) /\ Stale(t) => Status[t] = "given up"
<1>1. xfer[t].told \in {"nothing", "success", "failure"}
  BY DEF TypeOK, Transfer
<1>. QED
  BY <1>1 DEF Status, Seen, Current, InFlight, At

\* Status is a function on the transfers, so a step that changes it for one
\* transfer only is an EXCEPT.
LEMMA StatusExcept ==
    ASSUME NEW t \in Transfers, NEW to, Status'[t] = to,
           \A u \in Transfers \ {t} : Status'[u] = Status[u]
    PROVE  Status' = [Status EXCEPT ![t] = to]
<1>1. Status = [u \in Transfers |-> Status[u]]
  BY DEF Status
<1>2. Status' = [u \in Transfers |-> Status'[u]]
  BY DEF Status
<1>. QED
  BY <1>1, <1>2

LEMMA StatusSame ==
    ASSUME \A u \in Transfers : Status'[u] = Status[u]
    PROVE  Status' = Status
<1>1. Status = [u \in Transfers |-> Status[u]]
  BY DEF Status
<1>2. Status' = [u \in Transfers |-> Status'[u]]
  BY DEF Status
<1>. QED
  BY <1>1, <1>2

\* The transfer that a change of the window's state overtakes is given up.
LEMMA SetStateGivesUp ==
    ASSUME IInv, SetState
    PROVE  [Service!Next]_Service!vars
<1>. USE DEF IInv
<1>1. \A u \in Transfers :
        /\ xfer'[u].pc = xfer[u].pc
        /\ xfer'[u].epoch = xfer[u].epoch
        /\ xfer'[u].told = xfer[u].told
  BY DEF SetState, TypeOK, Transfer
<1>2. epoch' = epoch + 1 /\ hostClip' = hostClip
  BY DEF SetState
<1>3. epoch \in Nat /\ \A u \in Transfers : xfer[u].epoch \in Nat
  BY DEF TypeOK, Transfer
<1>4. \A u \in Transfers : InFlight(u) => Stale(u)'
  BY <1>1, <1>2, <1>3 DEF Overtaken, Stale, InFlight, At
<1>5. \A u \in Transfers :
        Status'[u] = IF Current(u) THEN "given up" ELSE Status[u]
  <2>1. ASSUME NEW u \in Transfers
        PROVE  /\ At(u, "idle")' <=> At(u, "idle")
               /\ At(u, "done")' <=> At(u, "done")
               /\ InFlight(u)' <=> InFlight(u)
    BY <1>1 DEF At, InFlight
  <2>. QED
    <3>1. ASSUME NEW u \in Transfers
          PROVE  Seen(u)' = IF Current(u) THEN "given up" ELSE Seen(u)
      BY <1>1, <1>4, <2>1 DEF Seen, Current, InFlight, At
    <3>. QED
      BY <3>1 DEF Status
<1>6. CASE \E t \in Transfers : Current(t)
  <2>1. PICK t \in Transfers : Current(t)
    BY <1>6
  <2>2. \A u \in Transfers \ {t} : ~Current(u)
    BY <2>1 DEF OneCurrent
  <2>3. Status' = [Status EXCEPT ![t] = "given up"]
    BY <1>5, <2>1, <2>2, StatusExcept
  <2>4. Status[t] = "running"
    BY <2>1, StatusOf
  <2>. QED
    BY <1>2, <2>3, <2>4 DEF Service!Next, Service!GiveUp, Service!Move
<1>7. CASE \A t \in Transfers : ~Current(t)
  <2>1. Status' = Status
    BY <1>5, <1>7, StatusSame
  <2>. QED
    BY <1>2, <2>1 DEF Service!vars
<1>. QED
  BY <1>6, <1>7

\* A click begins a transfer while none is running.
LEMMA ClickBegins ==
    ASSUME IInv, IInv', NEW t \in Transfers, Click(t)
    PROVE  Service!Begin(t)
<1>. USE DEF IInv
<1>1. \A u \in Transfers : ~Current(u)
  BY DEF Click, OneCurrent, TypeOK
<1>2. \A u \in Transfers : Status[u] # "running"
  BY <1>1, StatusOf
<1>3. \A u \in Transfers \ {t} : xfer'[u] = xfer[u]
  BY DEF Click
<1>4. xfer'[t].pc = "connecting" /\ xfer'[t].epoch = epoch
  BY DEF Click, Idle, TypeOK
<1>5. UNCHANGED <<epoch, hostClip>>
  BY DEF Click
<1>6. Status'[t] = "running"
  BY <1>4, <1>5 DEF Status, Seen, InFlight, Stale, At
<1>7. \A u \in Transfers \ {t} : Status'[u] = Status[u]
  BY <1>3, <1>5, StatusKept DEF At
<1>8. Status' = [Status EXCEPT ![t] = "running"]
  BY <1>6, <1>7, StatusExcept
<1>9. Status[t] = "new"
  BY StatusOf DEF Click
<1>. QED
  BY <1>2, <1>5, <1>8, <1>9 DEF Service!Begin, Service!Move

\* The end of a transfer that is current is seen, that of a stale one is not.
LEMMA FinishIsSeen ==
    ASSUME TypeOK, NEW t \in Transfers, NEW outcome \in {"success", "failure"},
           Finish(t, outcome), InFlight(t)
    PROVE  IF Stale(t) THEN Status' = Status
                       ELSE Service!Move(t, "running", outcome)
<1>1. \A u \in Transfers : xfer[u] \in Transfer
  BY DEF TypeOK
<1>2. xfer'[t] = [xfer[t] EXCEPT !.pc = "done", !.open = FALSE,
                    !.told = IF Stale(t) THEN "nothing" ELSE outcome]
  BY DEF Finish
<1>3. /\ xfer'[t].pc = "done"
      /\ xfer'[t].told = IF Stale(t) THEN "nothing" ELSE outcome
  BY <1>1, <1>2 DEF Transfer
<1>4. \A u \in Transfers \ {t} :
        xfer'[u] \in {xfer[u], [xfer[u] EXCEPT !.open = FALSE]}
  BY DEF Finish
<1>5. \A u \in Transfers \ {t} :
        /\ xfer'[u].pc = xfer[u].pc
        /\ xfer'[u].epoch = xfer[u].epoch
        /\ xfer'[u].told = xfer[u].told
  BY <1>1, <1>4 DEF Transfer
<1>6. UNCHANGED epoch
  BY DEF Finish
<1>7. \A u \in Transfers \ {t} : Status'[u] = Status[u]
  BY <1>5, <1>6, StatusKept DEF At
<1>8. Status'[t] = IF Stale(t) THEN "given up" ELSE outcome
  BY <1>3 DEF Status, Seen, InFlight, At
<1>9. CASE Stale(t)
  <2>1. Status[t] = "given up"
    BY <1>9, StatusOf
  <2>. QED
    BY <1>7, <1>8, <1>9, <2>1, StatusSame
<1>10. CASE ~Stale(t)
  <2>1. Status[t] = "running"
    BY <1>10, StatusOf DEF Current
  <2>2. Status' = [Status EXCEPT ![t] = outcome]
    BY <1>7, <1>8, <1>10, StatusExcept
  <2>. QED
    BY <1>10, <2>1, <2>2 DEF Service!Move
<1>. QED
  BY <1>9, <1>10

\* Between its click and its end a transfer stays in progress.
LEMMA ProgressUnseen ==
    ASSUME TypeOK, UNCHANGED <<epoch, hostClip>>,
           \A u \in Transfers :
              /\ At(u, "idle")' <=> At(u, "idle")
              /\ At(u, "done")' <=> At(u, "done")
              /\ xfer'[u].epoch = xfer[u].epoch
              /\ xfer'[u].told = xfer[u].told
    PROVE  UNCHANGED Service!vars
<1>1. \A u \in Transfers : Status'[u] = Status[u]
  BY StatusKept
<1>. QED
  BY <1>1, StatusSame DEF Service!vars

\* A transfer moves to another place between its connection and its end.
LEMMA GotoUnseen ==
    ASSUME TypeOK, NEW t \in Transfers, UNCHANGED <<epoch, hostClip>>,
           xfer[t].pc \notin {"idle", "done"}, xfer'[t].pc \notin {"idle", "done"},
           xfer'[t].epoch = xfer[t].epoch, xfer'[t].told = xfer[t].told,
           \A u \in Transfers \ {t} : xfer'[u] = xfer[u]
    PROVE  UNCHANGED Service!vars
<1>. QED
  BY ProgressUnseen DEF At

\* The window's own steps.
LEMMA ResumeServes ==
    ASSUME IInv, NEW t \in Transfers, Resume(t)
    PROVE  [Service!Next]_Service!vars
<1>. USE DEF IInv
<1>1. \A u \in Transfers : xfer[u] \in Transfer
  BY DEF TypeOK
<1>2. CASE Retain(t)
  <2>1. held = Nobody
    BY <1>2 DEF Retain, Live, At, OneCurrent, Current, InFlight, Stale
  <2>2. /\ \A u \in Transfers \ {t} : xfer'[u] = xfer[u]
        /\ xfer[t].pc = "connecting" /\ xfer'[t].pc \in {"reading", "sending"}
        /\ xfer'[t].epoch = xfer[t].epoch
        /\ xfer'[t].told = xfer[t].told
        /\ UNCHANGED <<epoch, hostClip>>
    BY <1>1, <1>2, <2>1, NobodyIsNoTransfer DEF Retain, At, Transfer
  <2>. QED
    BY <2>2, GotoUnseen
<1>3. CASE Snapshot(t) \/ Decode(t)
  <2>1. /\ \A u \in Transfers \ {t} : xfer'[u] = xfer[u]
        /\ xfer[t].pc \in {"reading", "answered"}
        /\ xfer'[t].pc \in {"sending", "decoding"}
        /\ xfer'[t].epoch = xfer[t].epoch
        /\ xfer'[t].told = xfer[t].told
        /\ UNCHANGED <<epoch, hostClip>>
    BY <1>1, <1>3 DEF Snapshot, Decode, Goto, At, Transfer, TypeOK, window
  <2>. QED
    BY <2>1, GotoUnseen
<1>4. CASE PutDone(t) \/ Install(t)
  <2>1. InFlight(t) /\ ~Stale(t) /\ Finish(t, "success")
    BY <1>4 DEF PutDone, Install, Live, InFlight, Stale, At
  <2>2. hostClip' \in {hostClip, t}
    BY <1>4 DEF PutDone, Install
  <2>3. Service!Move(t, "running", "success")
    BY <2>1, FinishIsSeen
  <2>. QED
    BY <2>2, <2>3 DEF Service!Next, Service!Succeed
<1>5. CASE Fail(t)
  <2>1. InFlight(t) /\ Finish(t, "failure") /\ hostClip' = hostClip
    BY <1>5 DEF Fail, InFlight, At
  <2>2. IF Stale(t) THEN Status' = Status
                    ELSE Service!Move(t, "running", "failure")
    BY <2>1, FinishIsSeen
  <2>. QED
    BY <2>1, <2>2 DEF Service!Next, Service!Fail, Service!vars
<1>. QED
  BY <1>2, <1>3, <1>4, <1>5 DEF Resume

\* Nobody sees what a worker does.
LEMMA WorkerUnseen ==
    ASSUME TypeOK, NEW t \in Transfers, Worker(t)
    PROVE  UNCHANGED Service!vars
<1>1. \A u \in Transfers : xfer[u] \in Transfer
  BY DEF TypeOK
<1>2. /\ \A u \in Transfers \ {t} : xfer'[u] = xfer[u]
      /\ xfer[t].pc \in {"sending", "awaiting"}
      /\ xfer'[t].pc \in {"awaiting", "answered", "failed"}
      /\ xfer'[t].epoch = xfer[t].epoch
      /\ xfer'[t].told = xfer[t].told
  BY <1>1 DEF Worker, Send, Receive, ExchangeFails, Goto, At, TypeOK, Transfer
<1>3. UNCHANGED <<epoch, hostClip>>
  BY DEF Worker, Send, Receive, ExchangeFails, window
<1>. QED
  BY <1>2, <1>3, GotoUnseen

\* Nor what happens in the guest.
LEMMA GuestUnseen ==
    ASSUME TypeOK, Guest
    PROVE  UNCHANGED Service!vars
<1>1. \A u \in Transfers : xfer[u] \in Transfer
  BY DEF TypeOK
<1>2. UNCHANGED <<epoch, hostClip>>
  BY DEF Guest, AgentStarts, Publish, AgentDies, Withdraw, GuestCopies,
         ServePut, ServeGet, DropConnection, window, guest
<1>3. CASE xfer' = xfer
  BY <1>2, <1>3, ProgressUnseen DEF At
<1>4. CASE AgentDies
  <2>1. \A u \in Transfers :
          /\ xfer'[u].pc = xfer[u].pc
          /\ xfer'[u].epoch = xfer[u].epoch
          /\ xfer'[u].told = xfer[u].told
    BY <1>1, <1>4 DEF AgentDies, Transfer
  <2>. QED
    BY <1>2, <2>1, ProgressUnseen DEF At
<1>5. ASSUME NEW t \in Transfers, NEW ok \in BOOLEAN, Answered(t, ok)
      PROVE  UNCHANGED Service!vars
  <2>1. \A u \in Transfers :
          /\ xfer'[u].pc = xfer[u].pc
          /\ xfer'[u].epoch = xfer[u].epoch
          /\ xfer'[u].told = xfer[u].told
    BY <1>1, <1>5 DEF Answered, TypeOK, Transfer
  <2>. QED
    BY <1>2, <2>1, ProgressUnseen DEF At
<1>6. \/ xfer' = xfer
      \/ AgentDies
      \/ \E t \in Transfers, ok \in BOOLEAN : Answered(t, ok)
  BY DEF Guest, AgentStarts, Publish, Withdraw, GuestCopies, ServePut, ServeGet,
         DropConnection
<1>. QED
  BY <1>3, <1>4, <1>5, <1>6

\* The window, its workers and the guest together implement one transfer at a
\* time, with one outcome each and nothing after it.
THEOREM TransfersServedSinglyCorrect == Spec => TransfersServedSingly
<1>1. Init => Service!Init
  <2>. SUFFICES ASSUME Init PROVE Service!Init
    OBVIOUS
  <2>1. \A t \in Transfers : xfer[t].pc = "idle"
    BY DEF Init, Idle
  <2>2. \A t \in Transfers : Seen(t) = "new"
    BY <2>1 DEF Seen, InFlight, At
  <2>3. Status = [t \in Transfers |-> "new"]
    BY <2>2 DEF Status
  <2>. QED
    BY <2>3 DEF Init, Service!Init
<1>2. ASSUME IInv, IInv', [Next]_vars PROVE [Service!Next]_Service!vars
  <2>1. ASSUME NEW t \in Transfers, Click(t) PROVE [Service!Next]_Service!vars
    BY <1>2, <2>1, ClickBegins DEF Service!Next
  <2>2. ASSUME NEW t \in Transfers, Resume(t) PROVE [Service!Next]_Service!vars
    BY <1>2, <2>2, ResumeServes
  <2>3. ASSUME NEW t \in Transfers, Worker(t) PROVE [Service!Next]_Service!vars
    BY <1>2, <2>3, WorkerUnseen DEF IInv
  <2>4. CASE Guest
    BY <1>2, <2>4, GuestUnseen DEF IInv
  <2>5. CASE SetState
    BY <1>2, <2>5, SetStateGivesUp
  <2>6. CASE UNCHANGED vars
    <3>1. UNCHANGED <<epoch, hostClip, xfer>>
      BY <2>6 DEF vars
    <3>. QED
      BY <1>2, <3>1, ProgressUnseen DEF IInv, At
  <2>. QED
    BY <1>2, <2>1, <2>2, <2>3, <2>4, <2>5, <2>6 DEF Next
<1>. QED
  BY <1>1, <1>2, Invariant, PTL DEF Spec, TransfersServedSingly, Service!Spec
=============================================================================
