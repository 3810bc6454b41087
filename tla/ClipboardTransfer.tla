--------------------------- MODULE ClipboardTransfer ---------------------------
(***************************************************************************)
(* The clipboard between the host window and the guest.  A click in the    *)
(* window starts one transfer: it pins the socket of the guest's clipboard *)
(* agent, connects a worker thread, reads or writes one snapshot over that *)
(* connection, and answers the user (buzzardos-display, host_app.rs and    *)
(* clipboard.rs).  The agent serves one connection after the other         *)
(* (guest/clipboard-agent).                                                *)
(*                                                                         *)
(* Everything in the window runs on one GTK thread; a transfer leaves it   *)
(* at each await, and Stop, Restart, a failure or the next session may     *)
(* come in between.  A transfer that was overtaken is not stopped: it goes *)
(* on in its worker, and its late answer must not do anything.             *)
(***************************************************************************)
EXTENDS Naturals

CONSTANTS
    ClickBound,    \* clicks on one of the two Clipboard menu entries
    ChangeBudget,  \* changes of the lifecycle state that the window shows
    MishapBudget   \* deaths of the agent, or its paths removed under it

ASSUME BoundsAreNatural == {ClickBound, ChangeBudget, MishapBudget} \subseteq Nat

\* Transfers are numbered in the order of their clicks.
Transfers == 1 .. ClickBound

Nobody == 0

ASSUME NobodyIsNoTransfer == Nobody \notin Transfers

VARIABLES
    running,    \* the window shows MonitorState::Running
    epoch,      \* clipboard_epoch
    busy,       \* clipboard_busy
    held,       \* clipboard_connection: the transfer whose socket it can shut
    xfer,       \* the transfers
    endpoint,   \* identity of socket and ready marker, 0 when they are absent
    agent,      \* the clipboard agent: its identity, and what it is doing
    hostClip,   \* transfer that the host clipboard's content came with
    guestClip,  \* the same of the guest's, 0 for anything else
    overtaken,  \* history: in progress when the window's state changed
    budget

vars == <<running, epoch, busy, held, xfer, endpoint, agent, hostClip,
          guestClip, overtaken, budget>>

window == <<running, epoch, busy, held>>
guest == <<endpoint, agent, guestClip>>

\* Where a transfer is: on the GTK thread's side "connecting", "reading" (the
\* host clipboard), "decoding" (an image); with its worker "sending" and
\* "awaiting"; the worker's result is "answered" or "failed".
Pc == {"idle", "connecting", "reading", "sending", "awaiting", "answered",
       "failed", "decoding", "done"}

Transfer ==
    [pc : Pc, put : BOOLEAN,
     epoch : Nat, agent : Nat,  \* EndpointSnapshot, taken at the click
     pending : BOOLEAN,         \* connected to the agent and not served yet
     open : BOOLEAN,            \* the host can write into the connection
     sent : BOOLEAN,            \* the request is in it
     answer : BOOLEAN,          \* a successful response came back
     told : {"nothing", "success", "failure"}]

Idle == [pc |-> "idle", put |-> FALSE, epoch |-> 0, agent |-> 0,
         pending |-> FALSE, open |-> FALSE, sent |-> FALSE, answer |-> FALSE,
         told |-> "nothing"]

TypeOK ==
    /\ running \in BOOLEAN
    /\ epoch \in Nat
    /\ busy \in BOOLEAN
    /\ held \in Transfers \cup {Nobody}
    /\ xfer \in [Transfers -> Transfer]
    /\ endpoint \in Nat
    /\ agent \in [id : Nat, pc : {"down", "probing", "serving"}]
    /\ hostClip \in Transfers \cup {Nobody}
    /\ guestClip \in Transfers \cup {Nobody}
    /\ overtaken \subseteq Transfers
    /\ budget \in [change : Nat, mishap : Nat]

\* The window of a machine whose desktop services have not come so far.
Init ==
    /\ running \in BOOLEAN
    /\ epoch = 1
    /\ busy = FALSE
    /\ held = Nobody
    /\ xfer = [t \in Transfers |-> Idle]
    /\ endpoint = 0
    /\ agent = [id |-> 0, pc |-> "down"]
    /\ hostClip = Nobody
    /\ guestClip = Nobody
    /\ overtaken = {}
    /\ budget = [change |-> ChangeBudget, mishap |-> MishapBudget]

-----------------------------------------------------------------------------
\* Helpers

At(t, pc) == xfer[t].pc = pc

InFlight(t) == xfer[t].pc \notin {"idle", "done"}

Goto(t, pc) == xfer' = [xfer EXCEPT ![t].pc = pc]

Mishap ==
    /\ budget.mishap > 0
    /\ budget' = [budget EXCEPT !.mishap = @ - 1]

\* require_live_clipboard_transfer
Live(t) ==
    /\ epoch = xfer[t].epoch
    /\ running
    /\ endpoint = xfer[t].agent

\* finish_clipboard_transfer finds that its lifecycle is over.
Stale(t) == epoch # xfer[t].epoch

\* Mutant of Finish: a completion of an earlier lifecycle frees the menu.
Finish_FreesMenu(t, outcome) ==
    LET released == held # Nobody /\ xfer[held].epoch = xfer[t].epoch
    IN  /\ xfer' = [u \in Transfers |->
                      IF u = t
                      THEN [xfer[t] EXCEPT !.pc = "done", !.open = FALSE,
                              !.told = IF Stale(t) THEN "nothing" ELSE outcome]
                      ELSE IF released /\ u = held
                           THEN [xfer[u] EXCEPT !.open = FALSE]
                           ELSE xfer[u]]
        /\ held' = IF released THEN Nobody ELSE held
        /\ busy' = FALSE
        /\ UNCHANGED <<running, epoch>>

\* Mutant of Finish: a completion of an earlier lifecycle has its dialog too.
Finish_TellsAnyway(t, outcome) ==
    LET released == held # Nobody /\ xfer[held].epoch = xfer[t].epoch
    IN  /\ xfer' = [u \in Transfers |->
                      IF u = t
                      THEN [xfer[t] EXCEPT !.pc = "done", !.open = FALSE,
                                           !.told = outcome]
                      ELSE IF released /\ u = held
                           THEN [xfer[u] EXCEPT !.open = FALSE]
                           ELSE xfer[u]]
        /\ held' = IF released THEN Nobody ELSE held
        /\ busy' = (busy /\ Stale(t))
        /\ UNCHANGED <<running, epoch>>

\* finish_clipboard_transfer.  The transfer's own descriptor is dropped, and
\* the handle is shut and forgotten if it is of the same epoch.
Finish(t, outcome) ==
    LET released == held # Nobody /\ xfer[held].epoch = xfer[t].epoch
    IN  /\ xfer' = [u \in Transfers |->
                      IF u = t
                      THEN [xfer[t] EXCEPT !.pc = "done", !.open = FALSE,
                              !.told = IF Stale(t) THEN "nothing" ELSE outcome]
                      ELSE IF released /\ u = held
                           THEN [xfer[u] EXCEPT !.open = FALSE]
                           ELSE xfer[u]]
        /\ held' = IF released THEN Nobody ELSE held
        /\ busy' = (busy /\ Stale(t))
        /\ UNCHANGED <<running, epoch>>

-----------------------------------------------------------------------------
\* The window

\* Mutant of SetState: the state is replaced, and the transfer left running.
SetState_KeepsConnection ==
    /\ budget.change > 0
    /\ running' = ~running
    /\ epoch' = epoch + 1
    /\ held' = Nobody
    /\ busy' = FALSE
    /\ overtaken' = overtaken \cup {t \in Transfers : InFlight(t)}
    /\ budget' = [budget EXCEPT !.change = @ - 1]
    /\ UNCHANGED <<xfer, guest, hostClip>>

\* set_state with another state: Stop and Restart in the menu, a poll of
\* runtime.json, the guest's display connection.  (A change between two states
\* other than Running is left out.)
SetState ==
    /\ budget.change > 0
    /\ running' = ~running
    /\ epoch' = epoch + 1
    /\ xfer' = [t \in Transfers |->
                  IF t = held THEN [xfer[t] EXCEPT !.open = FALSE] ELSE xfer[t]]
    /\ held' = Nobody
    /\ busy' = FALSE
    /\ overtaken' = overtaken \cup {t \in Transfers : InFlight(t)}
    /\ budget' = [budget EXCEPT !.change = @ - 1]
    /\ UNCHANGED <<guest, hostClip>>

\* begin_clipboard_transfer: the snapshot of the ready endpoint, and connect()
\* to its listener between two looks at its identity.  Refused clicks change
\* nothing.
Click(t) ==
    /\ At(t, "idle") /\ \A u \in Transfers : u < t => ~At(u, "idle")
    /\ running /\ ~busy
    /\ endpoint # 0 /\ agent = [id |-> endpoint, pc |-> "serving"]
    /\ \E put \in BOOLEAN :
        xfer' = [xfer EXCEPT ![t] =
                    [Idle EXCEPT !.pc = "connecting", !.put = put,
                                 !.epoch = epoch, !.agent = endpoint,
                                 !.pending = TRUE, !.open = TRUE]]
    /\ busy' = TRUE
    /\ UNCHANGED <<running, epoch, held, guest, hostClip, overtaken, budget>>

\* Mutant of Retain: the handle is kept by the epoch alone.
Retain_EpochOnly(t) ==
    /\ At(t, "connecting") /\ Live(t)
    /\ xfer' = [u \in Transfers |->
                  IF u = t
                  THEN [xfer[t] EXCEPT
                          !.pc = IF xfer[t].put THEN "reading" ELSE "sending"]
                  ELSE IF u = held THEN [xfer[u] EXCEPT !.open = FALSE]
                                   ELSE xfer[u]]
    /\ held' = epoch
    /\ UNCHANGED <<running, epoch, busy, guest, hostClip, overtaken, budget>>

\* The worker's finish() has returned; retain_clipboard_cancellation_handle.
\* A put now reads the host clipboard, a get goes to its worker.
Retain(t) ==
    /\ At(t, "connecting") /\ Live(t)
    /\ xfer' = [u \in Transfers |->
                  IF u = t
                  THEN [xfer[t] EXCEPT
                          !.pc = IF xfer[t].put THEN "reading" ELSE "sending"]
                  ELSE IF u = held THEN [xfer[u] EXCEPT !.open = FALSE]
                                   ELSE xfer[u]]
    /\ held' = t
    /\ UNCHANGED <<running, epoch, busy, guest, hostClip, overtaken, budget>>

\* read_host_clipboard_snapshot has a value.
Snapshot(t) ==
    /\ At(t, "reading") /\ Live(t)
    /\ Goto(t, "sending")
    /\ UNCHANGED <<window, guest, hostClip, overtaken, budget>>

\* The guest has confirmed a put.
PutDone(t) ==
    /\ At(t, "answered") /\ xfer[t].put /\ Live(t)
    /\ Finish(t, "success")
    /\ UNCHANGED <<guest, hostClip, overtaken, budget>>

\* The answer to a get is an image, which a subprocess decodes.
Decode(t) ==
    /\ At(t, "answered") /\ ~xfer[t].put /\ Live(t)
    /\ Goto(t, "decoding")
    /\ UNCHANGED <<window, guest, hostClip, overtaken, budget>>

\* Mutant of Install: what was live before the image was decoded still is.
Install_Unchecked(t) ==
    /\ ~xfer[t].put
    /\ (At(t, "answered") /\ Live(t)) \/ At(t, "decoding")
    /\ hostClip' = t
    /\ Finish(t, "success")
    /\ UNCHANGED <<guest, overtaken, budget>>

\* install_host_clipboard, at once for a text.
Install(t) ==
    /\ ~xfer[t].put
    /\ At(t, "answered") \/ At(t, "decoding")
    /\ Live(t)
    /\ hostClip' = t
    /\ Finish(t, "success")
    /\ UNCHANGED <<guest, overtaken, budget>>

\* The future ends with an error: no connection, no usable host clipboard and no
\* image within five seconds, the worker's error, or no longer live.
Fail(t) ==
    /\ \/ xfer[t].pc \in {"connecting", "reading", "failed", "decoding"}
       \/ At(t, "answered") /\ ~Live(t)
    /\ Finish(t, "failure")
    /\ UNCHANGED <<guest, hostClip, overtaken, budget>>

-----------------------------------------------------------------------------
\* The worker of a transfer

\* put and get: is_current, and the request is written.  Shutting the handle
\* makes the write fail.
Send(t) ==
    /\ At(t, "sending") /\ endpoint = xfer[t].agent /\ xfer[t].open
    /\ xfer' = [xfer EXCEPT ![t].pc = "awaiting", ![t].sent = TRUE]
    /\ UNCHANGED <<window, guest, hostClip, overtaken, budget>>

\* What has arrived can be read also after the socket was shut.
Receive(t) ==
    /\ At(t, "awaiting") /\ xfer[t].answer
    /\ Goto(t, "answered")
    /\ UNCHANGED <<window, guest, hostClip, overtaken, budget>>

\* Mutant of ExchangeFails: a read without a deadline ends only with the
\* connection.
ExchangeFails_NoDeadline(t) ==
    /\ At(t, "sending") \/ (At(t, "awaiting") /\ ~xfer[t].open)
    /\ Goto(t, "failed")
    /\ UNCHANGED <<window, guest, hostClip, overtaken, budget>>

\* The endpoint has changed, the connection is closed, the agent reports an
\* error, or the deadline of exchange has passed.
ExchangeFails(t) ==
    /\ At(t, "sending") \/ At(t, "awaiting")
    /\ Goto(t, "failed")
    /\ UNCHANGED <<window, guest, hostClip, overtaken, budget>>

-----------------------------------------------------------------------------
\* The guest

\* buzzardos-desktop-services removes the paths of an earlier agent, then runs
\* one, which binds its socket and probes the compositor.  In a new session the
\* compositor has no selection yet.
AgentStarts ==
    /\ agent.pc = "down"
    /\ agent' = [id |-> agent.id + 1, pc |-> "probing"]
    /\ endpoint' = 0
    /\ guestClip' \in {guestClip, Nobody}
    /\ UNCHANGED <<window, xfer, hostClip, overtaken, budget>>

\* publish_ready
Publish ==
    /\ agent.pc = "probing"
    /\ agent' = [agent EXCEPT !.pc = "serving"]
    /\ endpoint' = agent.id
    /\ UNCHANGED <<window, xfer, guestClip, hostClip, overtaken, budget>>

\* The agent or its session ends; its sockets close.  OwnedRuntimePath removes
\* the paths unless the agent is killed.
AgentDies ==
    /\ agent.pc # "down" /\ Mishap
    /\ agent' = [agent EXCEPT !.pc = "down"]
    /\ endpoint' \in {endpoint, 0}
    /\ xfer' = [t \in Transfers |->
                  IF xfer[t].pending
                  THEN [xfer[t] EXCEPT !.pending = FALSE, !.open = FALSE]
                  ELSE xfer[t]]
    /\ guestClip' \in {guestClip, Nobody}
    /\ UNCHANGED <<window, hostClip, overtaken>>

\* clear_clipboard_session_runtime after a session, or the clean-up of the
\* desktop services, which removes the paths before it kills the agent.
Withdraw ==
    /\ endpoint # 0
    /\ endpoint' = 0
    /\ IF agent.pc = "down" THEN UNCHANGED budget ELSE Mishap
    /\ UNCHANGED <<window, xfer, agent, guestClip, hostClip, overtaken>>

\* Mutant of Head: connections are served side by side.
Head_Any(t) == agent.pc = "serving" /\ xfer[t].pending

\* The connection that the agent is serving.  Connections queue in the order of
\* the clicks, for connect() is called in the click's callback.
Head(t) ==
    /\ agent.pc = "serving"
    /\ xfer[t].pending /\ \A u \in Transfers : u < t => ~xfer[u].pending

\* The agent closes a connection that it has served; the answer is read by the
\* host if it arrived before the host shut the connection.
Answered(t, ok) ==
    xfer' = [xfer EXCEPT ![t].pending = FALSE, ![t].open = FALSE,
                         ![t].answer = ok /\ xfer[t].open]

\* A request is served also when the host has gone away meanwhile.  A put may
\* have taken the selection although its response comes too late; a worker that
\* is killed after it took the selection leaves none.
ServePut(t) ==
    /\ Head(t) /\ xfer[t].sent /\ xfer[t].put
    /\ \/ guestClip' = t /\ \E ok \in BOOLEAN : Answered(t, ok)
       \/ guestClip' \in {guestClip, Nobody} /\ Answered(t, FALSE)
    /\ UNCHANGED <<window, endpoint, agent, hostClip, overtaken, budget>>

ServeGet(t) ==
    /\ Head(t) /\ xfer[t].sent /\ ~xfer[t].put
    /\ \E ok \in BOOLEAN : Answered(t, ok)
    /\ UNCHANGED <<window, guest, hostClip, overtaken, budget>>

\* No request came in time, or the host has closed.
DropConnection(t) ==
    /\ Head(t) /\ ~xfer[t].sent
    /\ Answered(t, FALSE)
    /\ UNCHANGED <<window, guest, hostClip, overtaken, budget>>

\* A guest application copies something, or the owner of the selection exits.
GuestCopies ==
    /\ guestClip # Nobody
    /\ guestClip' = Nobody
    /\ UNCHANGED <<window, xfer, endpoint, agent, hostClip, overtaken, budget>>

-----------------------------------------------------------------------------

\* The GTK thread resumes a transfer.
Resume(t) ==
    \/ Retain(t) \/ Snapshot(t) \/ PutDone(t) \/ Decode(t) \/ Install(t)
    \/ Fail(t)

Worker(t) == Send(t) \/ Receive(t) \/ ExchangeFails(t)

Guest ==
    \/ AgentStarts \/ Publish \/ AgentDies \/ Withdraw \/ GuestCopies
    \/ \E t \in Transfers : ServePut(t) \/ ServeGet(t) \/ DropConnection(t)

Next ==
    \/ SetState
    \/ \E t \in Transfers : Click(t) \/ Resume(t) \/ Worker(t)
    \/ Guest

Spec == Init /\ [][Next]_vars

\* Each await in the window and each call of a worker has a deadline of its own.
\* Nothing is assumed of the guest.
Fairness == \A t \in Transfers : WF_vars(Resume(t)) /\ WF_vars(Worker(t))

FairSpec == Spec /\ Fairness

-----------------------------------------------------------------------------
\* Properties

\* The menu entries are disabled exactly while a transfer of this lifecycle is
\* in progress, there is only one, and the window holds a handle to its
\* connection from the time it is connected: a completion of an earlier
\* lifecycle "must not clear its busy flag" (host_app.rs:2598).
SingleFlight ==
    LET current == {t \in Transfers : InFlight(t) /\ ~Stale(t)}
    IN  /\ busy <=> current # {}
        /\ \A t, u \in current : t = u
        /\ \A t \in current : held = IF At(t, "connecting") THEN Nobody ELSE t
        /\ current = {} => held = Nobody

\* "an old response cannot change the host clipboard after Stop/Restart"
\* (host_app.rs:1888): not one that was awaited when the window's state changed,
\* and not one of an agent that has been replaced since.
OldAnswersAreDropped ==
    [][hostClip' # hostClip =>
        hostClip' \notin overtaken /\ xfer[hostClip'].agent = endpoint]_vars

\* After Stop or Restart nothing more is sent for a transfer that began before,
\* neither a snapshot of the host clipboard nor a question for the guest's.
NothingSentAfterStop ==
    [][\A t \in Transfers :
        xfer'[t].sent /\ ~xfer[t].sent => t \notin overtaken]_vars

\* "The selected host clipboard snapshot is now available inside the guest."
\* (host_app.rs:2607): unless something was copied in the guest since, the
\* selection is the one of this transfer, never of an earlier one that the
\* agent was late to serve.
DoneMeansThere ==
    [][\A t \in Transfers :
        xfer[t].put /\ xfer[t].told # "success" /\ xfer'[t].told = "success"
            => guestClip \in {t, Nobody}]_vars

\* A transfer as the user sees it: one that was overtaken is over, although its
\* worker goes on.
Seen(t) ==
    CASE At(t, "idle") -> "new"
      [] InFlight(t) /\ ~Stale(t) -> "running"
      [] At(t, "done") /\ xfer[t].told # "nothing" -> xfer[t].told
      [] OTHER -> "given up"

Status == [t \in Transfers |-> Seen(t)]

Service == INSTANCE SingleTransfer WITH status <- Status

\* Transfers are served one at a time, each until its dialog or until Stop or
\* Restart.  Whatever a worker that was overtaken still brings, nothing comes of
\* it: the stale completion "must not clear its busy flag, show a dialog"
\* (host_app.rs:2598), and the host clipboard does not change.
TransfersServedSingly == Service!Spec

\* Each click is answered with one of the two dialogs, unless the lifecycle it
\* belonged to ended first, and then the menu is free again, whatever the guest
\* does or does not do.
ClicksAreAnswered ==
    /\ \A t \in Transfers :
        InFlight(t) ~> xfer[t].told # "nothing" \/ t \in overtaken
    /\ busy ~> ~busy
=============================================================================
