------------------------- MODULE IntegrationReconcile -------------------------
(***************************************************************************)
(* Live integrations of a running machine: port forwards and media bridges *)
(* that the host owner switches on and off in machine.json.  About once a  *)
(* second the broker (integrations.rs) reconciles what it runs on the host *)
(* with the latest settings, tells the guest's integration agent in a      *)
(* control file with a generation number, waits for the agent's status     *)
(* file to confirm that generation, and only then starts host capture.     *)
(*                                                                         *)
(* Any step may fail: the attempt is given up where it is, and the next    *)
(* one starts from what is left, with whatever the settings are by then.   *)
(* The routes into the guest are kept by slirp4netns, a helper process     *)
(* asked over a socket whose answers may not arrive.                       *)
(***************************************************************************)
EXTENDS Integers

CONSTANTS
    Ids,            \* port mappings
    Ends,           \* address and port a mapping listens on
    Media,          \* MediaKind
    Microphone,     \* the one whose recording stream is checked for health
    Targets,        \* devices a media kind may be bound to
    None,           \* disabled; no file, no bridge
    Settings,       \* the values machine.json takes
    ChangeBudget,   \* edits of machine.json
    MishapBudget    \* failures: of a step, an answer, a process, a deadline

Mapping == [id : Ids, kind : {"tcp", "udp", "reverse"}, end : Ends]

\* What IntegrationSettings::validate lets through.  A disabled mapping is left
\* out, a disabled medium has no target.
ASSUME SettingsAreValid ==
    \A s \in Settings :
        /\ s \in [ports : SUBSET Mapping,
                  media : [Media -> Targets \cup {None}]]
        /\ \A p, q \in s.ports :
            p.id = q.id \/ (p.kind = q.kind /\ p.end = q.end) => p = q

ASSUME NoneIsNothing ==
    /\ None \notin Targets \cup Media
    /\ None \notin [target : Targets, alive : BOOLEAN]
    /\ None \notin [generation : Nat, ports : SUBSET Mapping,
                    media : [Media -> Targets \cup {None}]]
    /\ None \notin [generation : Nat \cup {-1}, reverse : SUBSET Ids,
                    udp : SUBSET Ids,
                    sources : [Media -> {"none", "running", "exited"}],
                    error : BOOLEAN]

ASSUME BudgetsAreNatural == {ChangeBudget, MishapBudget} \subseteq Nat

VARIABLES
    config,      \* the integrations in machine.json
    host,        \* the broker's reconcile in progress
    generation,  \* of the last control file it meant to write
    applied,     \* the settings it has fully applied
    active,      \* port mappings it has up: host_forwards and reverse
    bridges,     \* media it has a capture or playback process for
    slirp,       \* the network helper and its routes into the guest
    control,     \* integration.json, read by the guest
    status,      \* integration-status.json, written by the guest
    agent,       \* the guest's integration agent
    report,      \* what the last attempt came to
    unanswered,  \* history: routes that a request without an answer was about
    budget

vars == <<config, host, generation, applied, active, bridges, slirp, control,
          status, agent, report, unanswered, budget>>

SettingsType == [ports : SUBSET Mapping, media : [Media -> Targets \cup {None}]]

Default == [ports |-> {}, media |-> [m \in Media |-> None]]

Bridge == [target : Targets, alive : BOOLEAN]

Control == [generation : Nat, ports : SUBSET Mapping,
            media : [Media -> Targets \cup {None}]]

\* A process of the guest: not there, running, or exited and not yet noticed.
Sources == [Media -> {"none", "running", "exited"}]

Status == [generation : Nat \cup {-1}, reverse : SUBSET Ids, udp : SUBSET Ids,
           sources : Sources, error : BOOLEAN]

\* The steps of reconcile, and the end of the session.
HostPc == {"idle", "revoking", "checking", "unforwarding", "forwarding",
           "reversing", "announcing", "waiting", "bridging", "spawning",
           "ended"}

AgentPc == {"down", "polling", "reverse", "udp", "media", "listening"}

TypeOK ==
    /\ config \in SettingsType
    /\ host \in [pc : HostPc, want : SettingsType, todo : SUBSET Media,
                 removed : BOOLEAN, starting : Media \cup {None}]
    /\ generation \in Nat
    /\ applied \in SettingsType
    /\ active \subseteq Mapping
    /\ bridges \in [Media -> Bridge \cup {None}]
    /\ slirp \in [alive : BOOLEAN, forwards : SUBSET Ends,
                  routes : [Media -> Nat]]
    /\ control \in Control \cup {None}
    /\ status \in Status \cup {None}
    /\ agent \in [pc : AgentPc, generation : Nat \cup {-1},
                  reading : Control \cup {None}, relays : SUBSET Mapping,
                  sources : Sources, heard : SUBSET Media]
    /\ report \in {"none", "ready", "retry"}
    /\ unanswered \in [forwards : SUBSET Ends, routes : [Media -> Nat]]
    /\ budget \in [change : Nat, mishap : Nat]

NoSources == [m \in Media |-> "none"]

NoRoutes == [m \in Media |-> 0]

\* IntegrationAgent.__init__
Starting == [pc |-> "polling", generation |-> -1, reading |-> None,
             relays |-> {}, sources |-> NoSources, heard |-> {}]

Down == [Starting EXCEPT !.pc = "down"]

\* The desktop is ready, and IntegrationRuntime::new: the directories that hold
\* the two files are fresh.
Init ==
    /\ config \in Settings
    /\ host = [pc |-> "idle", want |-> Default, todo |-> {}, removed |-> FALSE,
               starting |-> None]
    /\ generation = 0
    /\ applied = Default
    /\ active = {}
    /\ bridges = [m \in Media |-> None]
    /\ slirp = [alive |-> TRUE, forwards |-> {}, routes |-> NoRoutes]
    /\ control = None
    /\ status = None
    /\ agent = Starting
    /\ report = "none"
    /\ unanswered = [forwards |-> {}, routes |-> NoRoutes]
    /\ budget = [change |-> ChangeBudget, mishap |-> MishapBudget]

-----------------------------------------------------------------------------
\* Helpers

At(pc) == host.pc = pc

Goto(pc) ==
    /\ host' = [host EXCEPT !.pc = pc]
    /\ UNCHANGED report

\* An error leaves reconcile where it is; the loop tries again in a second.
GiveUp ==
    /\ host' = [host EXCEPT !.pc = "idle", !.starting = None]
    /\ report' = "retry"

Mishap ==
    /\ budget.mishap > 0
    /\ budget' = [budget EXCEPT !.mishap = @ - 1]

\* A request the helper rejects, does not answer, or is not there to answer.
RequestFails ==
    IF slirp.alive THEN Mishap ELSE UNCHANGED budget

OfKind(ports, kind) == {p \in ports : p.kind = kind}

IdsOf(ports, kind) == {p.id : p \in OfKind(ports, kind)}

EndsOf(ports) == {p.end : p \in OfKind(ports, "tcp")}

\* What the guest is told: a TCP forward needs nothing in the guest.
GuestPorts(ports) == OfKind(ports, "reverse") \cup OfKind(ports, "udp")

ControlFor(g, s) ==
    [generation |-> g, ports |-> GuestPorts(s.ports), media |-> s.media]

\* host_resources_match and media_resources_match
HostMatches(s) ==
    /\ active = s.ports
    /\ \A m \in Media :
        IF bridges[m] = None THEN s.media[m] = None
        ELSE bridges[m].alive /\ bridges[m].target = s.media[m]

\* guest_status_matches: the status names mappings by their ids alone.
StatusMatches(s) ==
    /\ status # None
    /\ status.generation = generation
    /\ ~status.error
    /\ status.reverse = IdsOf(s.ports, "reverse")
    /\ status.udp = IdsOf(s.ports, "udp")
    /\ \A m \in Media :
        status.sources[m] = IF s.media[m] = None THEN "none" ELSE "running"

\* guest_state_matches
GuestMatches(s) == control = ControlFor(generation, s) /\ StatusMatches(s)

hostSide == <<generation, applied, active, bridges>>
guestSide == <<control, status, agent>>

-----------------------------------------------------------------------------
\* Revoking media

\* One turn of the broker's loop: the settings are read again.
Begin ==
    /\ At("idle") /\ slirp.alive
    /\ host' = [host EXCEPT !.pc = "revoking", !.want = config,
                            !.removed = FALSE]
    /\ UNCHANGED <<config, hostSide, slirp, guestSide, report, unanswered,
                   budget>>

\* What is left when slirp4netns has died: its listeners are closed.
Dead == [alive |-> FALSE, forwards |-> {}, routes |-> NoRoutes]

\* remove_media_forward_fail_closed, and the bridge record goes with the route.
RemoveBridge(m) ==
    /\ slirp.alive
    /\ slirp' = [slirp EXCEPT !.routes[m] = @ - 1]
    /\ bridges' = [bridges EXCEPT ![m] = None]

\* The removal is not confirmed: the helper is killed, the record stays.
RemovalFails(m) ==
    /\ RequestFails
    /\ slirp' = Dead
    /\ bridges' = [bridges EXCEPT ![m] = [@ EXCEPT !.alive = FALSE]]
    /\ GiveUp

\* Mutant of ToRevoke: only what was disabled.
ToRevoke_Disabled(m) == bridges[m] # None /\ host.want.media[m] = None

ToRevoke(m) == bridges[m] # None /\ bridges[m].target # host.want.media[m]

\* stop_removed_media: the process is terminated, then its route removed.
Revoke(m) ==
    /\ At("revoking") /\ ToRevoke(m)
    /\ \/ RemoveBridge(m) /\ UNCHANGED <<host, report, budget>>
       \/ RemovalFails(m)
    /\ UNCHANGED <<config, generation, applied, active, guestSide, unanswered>>

Revoked ==
    /\ At("revoking")
    /\ \A m \in Media : ~ToRevoke(m)
    /\ host' = [host EXCEPT !.pc = "checking",
                            !.todo = {m \in Media : bridges[m] # None}]
    /\ UNCHANGED <<config, hostSide, slirp, guestSide, report, unanswered,
                   budget>>

Checkable(m) == At("checking") /\ m \in host.todo

Healthy(m) ==
    /\ Checkable(m) /\ bridges[m].alive
    /\ host' = [host EXCEPT !.todo = @ \ {m}]
    /\ UNCHANGED <<config, hostSide, slirp, guestSide, report, unanswered,
                   budget>>

\* Mutant of Unhealthy: the record of the bridge outlives its route.
Unhealthy_Kept(m) ==
    /\ Checkable(m)
    /\ ~bridges[m].alive
    /\ slirp.alive
    /\ slirp' = [slirp EXCEPT !.routes[m] = @ - 1]
    /\ host' = [host EXCEPT !.todo = @ \ {m}, !.removed = TRUE]
    /\ UNCHANGED <<config, hostSide, guestSide, report, unanswered, budget>>

\* remove_unhealthy_media: an exited process, or a microphone whose recording
\* stream the host cannot account for or cannot read.
Unhealthy(m) ==
    /\ Checkable(m)
    /\ \/ /\ ~bridges[m].alive
          /\ RemoveBridge(m)
          /\ host' = [host EXCEPT !.todo = @ \ {m}, !.removed = TRUE]
          /\ UNCHANGED <<report, budget>>
       \/ /\ m = Microphone /\ Mishap
          /\ RemoveBridge(m)
          /\ \/ /\ host' = [host EXCEPT !.todo = @ \ {m}, !.removed = TRUE]
                /\ UNCHANGED report
             \/ GiveUp
       \/ ~bridges[m].alive /\ RemovalFails(m)
       \/ m = Microphone /\ RemovalFails(m)
    /\ UNCHANGED <<config, generation, applied, active, guestSide, unanswered>>

\* Nothing to do, which counts as success.
InSync(s) ==
    applied = s /\ ~host.removed /\ HostMatches(s) /\ GuestMatches(s)

Unchanged ==
    /\ At("checking") /\ host.todo = {}
    /\ InSync(host.want)
    /\ host' = [host EXCEPT !.pc = "idle"]
    /\ report' = "ready"
    /\ UNCHANGED <<config, hostSide, slirp, guestSide, unanswered, budget>>

Changed ==
    /\ At("checking") /\ host.todo = {}
    /\ ~InSync(host.want)
    /\ Goto("unforwarding")
    /\ UNCHANGED <<config, hostSide, slirp, guestSide, unanswered, budget>>

-----------------------------------------------------------------------------
\* Port mappings

InDoubt(p) ==
    unanswered' = [unanswered EXCEPT !.forwards = @ \cup {p.end}]

\* The record of a stale forward is taken out before the helper is asked.
Unforward(p) ==
    /\ At("unforwarding")
    /\ p \in active \ host.want.ports /\ p.kind # "reverse"
    /\ active' = active \ {p}
    /\ \/ /\ p.kind = "udp"
          /\ UNCHANGED <<host, slirp, report, unanswered, budget>>
       \/ /\ p.kind = "tcp" /\ slirp.alive
          /\ slirp' = [slirp EXCEPT !.forwards = @ \ {p.end}]
          /\ UNCHANGED <<host, report, unanswered, budget>>
       \/ /\ p.kind = "tcp" /\ RequestFails
          /\ slirp' \in {slirp, [slirp EXCEPT !.forwards = @ \ {p.end}]}
          /\ InDoubt(p) /\ GiveUp
    /\ UNCHANGED <<config, generation, applied, bridges, guestSide>>

Unforwarded ==
    /\ At("unforwarding")
    /\ \A p \in active \ host.want.ports : p.kind = "reverse"
    /\ Goto("forwarding")
    /\ UNCHANGED <<config, hostSide, slirp, guestSide, unanswered, budget>>

Forward(p) ==
    /\ At("forwarding")
    /\ p \in host.want.ports \ active /\ p.kind # "reverse"
    /\ \/ /\ p.kind = "tcp" /\ slirp.alive /\ p.end \notin slirp.forwards
          /\ slirp' = [slirp EXCEPT !.forwards = @ \cup {p.end}]
          /\ active' = active \cup {p}
          /\ UNCHANGED <<host, report, unanswered, budget>>
       \/ /\ p.kind = "udp"
          /\ active' = active \cup {p}
          /\ UNCHANGED <<host, slirp, report, unanswered, budget>>
    /\ UNCHANGED <<config, generation, applied, bridges, guestSide>>

\* The helper rejects an end that is taken, by a route it still has too; a UDP
\* listener cannot be bound; or no answer comes, whether the route is there now
\* or not.
ForwardFails(p) ==
    /\ At("forwarding")
    /\ p \in host.want.ports \ active /\ p.kind # "reverse"
    /\ GiveUp
    /\ \/ /\ p.kind = "tcp" /\ slirp.alive /\ p.end \in slirp.forwards
          /\ UNCHANGED <<slirp, unanswered, budget>>
       \/ p.kind = "udp" /\ Mishap /\ UNCHANGED <<slirp, unanswered>>
       \/ /\ p.kind = "tcp" /\ RequestFails /\ InDoubt(p)
          /\ \/ UNCHANGED slirp
             \/ /\ slirp.alive
                /\ slirp' = [slirp EXCEPT !.forwards = @ \cup {p.end}]
    /\ UNCHANGED <<config, hostSide, guestSide>>

Forwarded ==
    /\ At("forwarding")
    /\ \A p \in host.want.ports \ active : p.kind = "reverse"
    /\ Goto("reversing")
    /\ UNCHANGED <<config, hostSide, slirp, guestSide, unanswered, budget>>

\* Stale reverse relays go, missing ones start; one that cannot start ends it.
Reverse ==
    /\ At("reversing")
    /\ LET kept == {p \in active : p.kind = "reverse" => p \in host.want.ports}
           missing == OfKind(host.want.ports, "reverse") \ active
       IN  \/ /\ active' = kept \cup missing
              /\ Goto("announcing") /\ UNCHANGED budget
           \/ \E started \in SUBSET missing :
                /\ started # missing
                /\ active' = kept \cup started
                /\ GiveUp /\ Mishap
    /\ UNCHANGED <<config, generation, applied, bridges, slirp, guestSide,
                   unanswered>>

-----------------------------------------------------------------------------
\* Telling the guest

\* Mutant of Announce: a retry announces with the generation it has.
Announce_Again ==
    /\ At("announcing")
    /\ generation' = IF generation = 0 THEN 1 ELSE generation
    /\ control' = ControlFor(generation', host.want)
    /\ Goto("waiting")
    /\ UNCHANGED <<config, applied, active, bridges, slirp, status, agent,
                   unanswered, budget>>

\* write_guest_control.  When it fails the file is the old one, or the new one
\* whose permissions could not be set.
Announce ==
    /\ At("announcing")
    /\ generation' = generation + 1
    /\ \/ /\ control' = ControlFor(generation', host.want)
          /\ Goto("waiting") /\ UNCHANGED budget
       \/ /\ control' \in {control, ControlFor(generation', host.want)}
          /\ GiveUp /\ Mishap
    /\ UNCHANGED <<config, applied, active, bridges, slirp, status, agent,
                   unanswered>>

\* wait_for_guest_state
Confirmed ==
    /\ At("waiting")
    /\ StatusMatches(host.want)
    /\ Goto("bridging")
    /\ UNCHANGED <<config, hostSide, slirp, guestSide, unanswered, budget>>

\* The guest rejected this generation, or five seconds have passed.
NotConfirmed ==
    /\ At("waiting")
    /\ ~StatusMatches(host.want)
    /\ \/ /\ status # None /\ status.generation = generation /\ status.error
          /\ UNCHANGED budget
       \/ Mishap
    /\ GiveUp
    /\ UNCHANGED <<config, hostSide, slirp, guestSide, unanswered>>

-----------------------------------------------------------------------------
\* Starting media

Missing(m) == host.want.media[m] # None /\ bridges[m] = None

\* start_media asks for a route of its own, on a host port nobody uses.
AddRoute(m) ==
    /\ At("bridging") /\ Missing(m) /\ slirp.alive
    /\ slirp' = [slirp EXCEPT !.routes[m] = @ + 1]
    /\ host' = [host EXCEPT !.pc = "spawning", !.starting = m]
    /\ UNCHANGED <<config, hostSide, guestSide, report, unanswered, budget>>

\* No device, no port, or no answer: then the route may be there, and nobody
\* has its id.
AddRouteFails(m) ==
    /\ At("bridging") /\ Missing(m)
    /\ GiveUp
    /\ RequestFails
    /\ \/ UNCHANGED <<slirp, unanswered>>
       \/ /\ slirp.alive
          /\ slirp' = [slirp EXCEPT !.routes[m] = @ + 1]
          /\ unanswered' = [unanswered EXCEPT !.routes[m] = @ + 1]
    /\ UNCHANGED <<config, hostSide, guestSide>>

StartBridge(m) ==
    /\ At("spawning") /\ host.starting = m
    /\ bridges' = [bridges EXCEPT
            ![m] = [target |-> host.want.media[m], alive |-> TRUE]]
    /\ host' = [host EXCEPT !.pc = "bridging", !.starting = None]
    /\ UNCHANGED <<config, generation, applied, active, slirp, guestSide,
                   report, unanswered, budget>>

\* Mutant of BridgeFails: the pending route is forgotten.
BridgeFails_Leaking(m) ==
    /\ At("spawning") /\ host.starting = m
    /\ Mishap /\ GiveUp
    /\ UNCHANGED <<config, hostSide, slirp, guestSide, unanswered>>

\* The process does not start, exits at once, or records nothing; dropping
\* PendingSlirpForward removes its route, or else kills the helper.
BridgeFails(m) ==
    /\ At("spawning") /\ host.starting = m
    /\ Mishap /\ GiveUp
    /\ \/ slirp.alive /\ slirp' = [slirp EXCEPT !.routes[m] = @ - 1]
       \/ slirp' = Dead
    /\ UNCHANGED <<config, hostSide, guestSide, unanswered>>

\* Host and guest are compared once more.
Apply ==
    /\ At("bridging")
    /\ \A m \in Media : ~Missing(m)
    /\ IF HostMatches(host.want) /\ GuestMatches(host.want)
       THEN /\ applied' = host.want
            /\ host' = [host EXCEPT !.pc = "idle"]
            /\ report' = "ready"
       ELSE GiveUp /\ UNCHANGED applied
    /\ UNCHANGED <<config, generation, active, bridges, slirp, guestSide,
                   unanswered, budget>>

\* Without its network helper the machine is terminated, the agent with it, and
\* dropping IntegrationRuntime ends relays and bridges.
EndSession ==
    /\ At("idle") /\ ~slirp.alive
    /\ host' = [host EXCEPT !.pc = "ended"]
    /\ active' = {}
    /\ bridges' = [m \in Media |-> None]
    /\ agent' = Down
    /\ UNCHANGED <<config, generation, applied, slirp, control, status, report,
                   unanswered, budget>>

-----------------------------------------------------------------------------
\* The agent in the guest

AgentAt(pc) == agent.pc = pc

StatusOf(a, failed) ==
    [generation |-> a.generation, reverse |-> IdsOf(a.relays, "reverse"),
     udp |-> IdsOf(a.relays, "udp"), sources |-> a.sources, error |-> failed]

\* write_status, and back to polling
AgentReports(a, failed) ==
    /\ agent' = [a EXCEPT !.pc = "polling", !.heard = {}]
    /\ status' = StatusOf(a, failed)

Wanted(m) == agent.reading.media[m] # None

\* Mutant of NeedsReconcile: by the generation alone.
NeedsReconcile_Generation(c) == c.generation # agent.generation

NeedsReconcile(c) ==
    \/ c.generation # agent.generation
    \/ \E m \in Media : (c.media[m] # None) # (agent.sources[m] = "running")

ReadControl ==
    /\ AgentAt("polling") /\ control # None
    /\ NeedsReconcile(control)
    /\ agent' = [agent EXCEPT !.pc = "reverse", !.reading = control]
    /\ UNCHANGED <<config, host, hostSide, slirp, control, status, report,
                   unanswered, budget>>

\* Stale relays of one kind stop, then missing ones start, in that order; an
\* exception on the way is reported under the generation it still has.
Relay(kind, next) ==
    /\ AgentAt(kind)
    /\ LET kept == {p \in agent.relays :
                        p.kind = kind => p \in agent.reading.ports}
           missing == OfKind(agent.reading.ports, kind) \ agent.relays
       IN  \/ /\ agent' = [agent EXCEPT !.pc = next,
                                        !.relays = kept \cup missing]
              /\ UNCHANGED <<status, budget>>
           \/ \E started \in SUBSET missing :
                /\ started # missing
                /\ AgentReports([agent EXCEPT !.relays = kept \cup started],
                                TRUE)
                /\ Mishap
    /\ UNCHANGED <<config, host, hostSide, slirp, control, report, unanswered>>

\* reconcile_media of each kind.  A program that cannot be started is reported,
\* one that is not there (FileNotFoundError) is passed over in silence.
StartSources ==
    /\ AgentAt("media")
    /\ LET sourced(done) ==
            [m \in Media |-> IF m \notin done THEN agent.sources[m]
                            ELSE IF Wanted(m) THEN "running" ELSE "none"]
       IN  \/ /\ agent' = [agent EXCEPT !.pc = "listening",
                                        !.sources = sourced(Media)]
              /\ UNCHANGED <<status, budget>>
           \/ \E m \in Media, done \in SUBSET Media :
                LET left == [agent EXCEPT
                            !.sources = [sourced(done) EXCEPT ![m] = "none"]]
                IN  /\ Wanted(m) /\ agent.sources[m] # "running"
                    /\ Mishap
                    /\ \/ AgentReports(left, TRUE)
                       \/ /\ agent' = [left EXCEPT !.pc = "polling"]
                          /\ UNCHANGED status
    /\ UNCHANGED <<config, host, hostSide, slirp, control, report, unanswered>>

\* wait_for_listener
Hear(m) ==
    /\ AgentAt("listening") /\ Wanted(m) /\ m \notin agent.heard
    /\ \/ /\ agent.sources[m] = "running"
          /\ agent' = [agent EXCEPT !.heard = @ \cup {m}]
          /\ UNCHANGED <<status, budget>>
       \/ /\ agent.sources[m] = "exited"
          /\ AgentReports(agent, TRUE) /\ UNCHANGED budget
       \/ /\ agent.sources[m] = "running" /\ Mishap
          /\ AgentReports([agent EXCEPT !.sources[m] = "none"], TRUE)
    /\ UNCHANGED <<config, host, hostSide, slirp, control, report, unanswered>>

\* Everything of this control is up: only now its generation is the agent's.
Publish ==
    /\ AgentAt("listening")
    /\ \A m \in Media : Wanted(m) => m \in agent.heard
    /\ AgentReports([agent EXCEPT !.generation = agent.reading.generation],
                    FALSE)
    /\ UNCHANGED <<config, host, hostSide, slirp, control, report, unanswered,
                   budget>>

-----------------------------------------------------------------------------
\* What may happen around them

\* The launcher or the manager window saves other settings.
Reconfigure ==
    /\ ~At("ended") /\ budget.change > 0
    /\ config' \in Settings \ {config}
    /\ budget' = [budget EXCEPT !.change = @ - 1]
    /\ UNCHANGED <<host, hostSide, slirp, guestSide, report, unanswered>>

BridgeExits(m) ==
    /\ bridges[m] # None /\ bridges[m].alive
    /\ Mishap
    /\ bridges' = [bridges EXCEPT ![m] = [@ EXCEPT !.alive = FALSE]]
    /\ UNCHANGED <<config, host, generation, applied, active, slirp, guestSide,
                   report, unanswered>>

HelperDies ==
    /\ slirp.alive
    /\ Mishap
    /\ slirp' = Dead
    /\ UNCHANGED <<config, host, hostSide, guestSide, report, unanswered>>

SourceExits(m) ==
    /\ agent.sources[m] = "running"
    /\ Mishap
    /\ agent' = [agent EXCEPT !.sources[m] = "exited"]
    /\ UNCHANGED <<config, host, hostSide, slirp, control, status, report,
                   unanswered>>

\* The agent is killed, or told to stop and writes a last status; its relays and
\* sources die with it.  The desktop services that start it do not start it
\* again, unless they are started again themselves.
AgentDies ==
    /\ ~AgentAt("down")
    /\ Mishap
    /\ agent' = Down
    /\ status' \in {status,
                    StatusOf([Down EXCEPT !.generation = agent.generation],
                             FALSE)}
    /\ UNCHANGED <<config, host, hostSide, slirp, control, report, unanswered>>

AgentStarts ==
    /\ AgentAt("down") /\ ~At("ended")
    /\ agent' = Starting
    /\ UNCHANGED <<config, host, hostSide, slirp, control, status, report,
                   unanswered, budget>>

\* reconcile, from one end to the other.
Reconcile ==
    \/ Revoked \/ Unchanged \/ Changed \/ Unforwarded \/ Forwarded \/ Reverse
    \/ Announce \/ Confirmed \/ NotConfirmed \/ Apply
    \/ \E m \in Media :
        \/ Revoke(m) \/ Healthy(m) \/ Unhealthy(m)
        \/ AddRoute(m) \/ AddRouteFails(m) \/ StartBridge(m) \/ BridgeFails(m)
    \/ \E p \in Mapping : Unforward(p) \/ Forward(p) \/ ForwardFails(p)

Broker == Begin \/ Reconcile \/ EndSession

Agent ==
    \/ ReadControl \/ Relay("reverse", "udp") \/ Relay("udp", "media")
    \/ StartSources \/ Publish
    \/ \E m \in Media : Hear(m)

Outside ==
    \/ Reconfigure \/ HelperDies \/ AgentDies \/ AgentStarts
    \/ \E m \in Media : BridgeExits(m) \/ SourceExits(m)

Next == Broker \/ Agent \/ Outside

Spec == Init /\ [][Next]_vars

\* The broker's loop and the agent's poll run for as long as the session does;
\* every wait in them has a deadline.
Fairness == WF_vars(Broker) /\ WF_vars(Agent)

FairSpec == Spec /\ Fairness

-----------------------------------------------------------------------------
\* Properties

\* When an attempt has succeeded ("live integrations ready"), the mappings and
\* bridges are those of the settings it was for, the helper has their routes
\* and no other (but those it failed to answer about), and an agent that has not
\* been started anew since serves exactly these mappings, though its status
\* says no more of them than their ids.
ReadyMeansServed ==
    At("idle") /\ report = "ready" =>
        /\ applied = host.want
        /\ active = applied.ports
        /\ \A m \in Media :
            IF bridges[m] = None THEN applied.media[m] = None
            ELSE bridges[m].target = applied.media[m]
        /\ slirp.alive => slirp.forwards \ unanswered.forwards
                            = EndsOf(applied.ports) \ unanswered.forwards
        /\ \/ agent.generation = -1
           \/ /\ agent.generation = generation
              /\ agent.relays = GuestPorts(applied.ports)

\* A capture process runs only while the control file in the guest asks for the
\* medium from the same device: it is stopped before the guest is told
\* otherwise, and started after the guest has been told.
CaptureFollowsControl ==
    \A m \in Media :
        bridges[m] # None /\ bridges[m].alive =>
            control # None /\ control.media[m] = bridges[m].target

\* Between attempts, successful or given up, every media route into the guest
\* belongs to a bridge the last settings asked for, or the machine is about to
\* end with its network helper.  Only the route of an addition that was never
\* answered escapes.
RoutesAreOwned ==
    At("idle") /\ slirp.alive =>
        \A m \in Media :
            /\ slirp.routes[m] =
                unanswered.routes[m] + IF bridges[m] = None THEN 0 ELSE 1
            /\ bridges[m] # None => bridges[m].target = host.want.media[m]

\* What machine.json asks for, on both sides.
Served ==
    /\ HostMatches(config)
    /\ agent.relays = GuestPorts(config.ports)
    /\ \A m \in Media :
        agent.sources[m] = IF config.media[m] = None THEN "none" ELSE "running"

\* A forward that is wanted cannot be added, for the helper still has a route
\* at its end which the broker has no record of.
Blocked ==
    \E p \in config.ports :
        p.kind = "tcp" /\ p \notin active /\ p.end \in slirp.forwards

\* "retries until host and guest converge" (main.rs:826): when the edits and the
\* failures stop, the machine ends up reported ready and serving the latest
\* settings, unless it was ended with its helper, the agent is gone for good,
\* or a route the helper did not answer about is in the way.
Converges ==
    \/ <>[](report = "ready" /\ applied = config /\ Served)
    \/ <>At("ended")
    \/ <>[]AgentAt("down")
    \/ <>[]Blocked
=============================================================================
