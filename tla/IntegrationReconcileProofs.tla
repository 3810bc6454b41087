---------------------- MODULE IntegrationReconcileProofs ----------------------
(***************************************************************************)
(* What TLAPS proves of IntegrationReconcile, for every value of its       *)
(* constants.                                                              *)
(***************************************************************************)
EXTENDS IntegrationReconcile, TLAPS

\* What an attempt is working on.
Hands ==
    /\ host.pc = "spawning" <=> host.starting # None
    /\ host.pc = "spawning" => Missing(host.starting)
    /\ host.pc = "checking" => \A m \in host.todo : bridges[m] # None

Own(m) == IF bridges[m] = None THEN 0 ELSE 1

Pending(m) == IF host.starting = m THEN 1 ELSE 0

\* Each route has a bridge, or is about to have one, or was never answered for.
Routed ==
    slirp.alive =>
        \A m \in Media :
            slirp.routes[m] = unanswered.routes[m] + Own(m) + Pending(m)

\* Once an attempt has revoked what it must, the bridges left are wanted.
Targeted ==
    \/ host.pc = "revoking"
    \/ host.pc = "idle" /\ ~slirp.alive
    \/ \A m \in Media :
        bridges[m] # None => bridges[m].target = host.want.media[m]

\* The forwards the broker has a record of are in the helper, each at an end of
\* its own; others there are in doubt.
Routable ==
    /\ \A p, q \in active :
        p.kind = "tcp" /\ q.kind = "tcp" /\ p.end = q.end => p = q
    /\ slirp.alive =>
        /\ EndsOf(active) \subseteq slirp.forwards
        /\ slirp.forwards \subseteq EndsOf(active) \cup unanswered.forwards

\* What the control file says of the attempt that wrote it.
Told ==
    /\ control # None => /\ control.generation <= generation
                         /\ control.ports = GuestPorts(control.ports)
    /\ host.pc \in {"waiting", "bridging", "spawning"}
        => control = ControlFor(generation, host.want)

Working == agent.pc \in {"reverse", "udp", "media", "listening"}

\* A control file that the agent has read is the present one or an older one,
\* and it has the relays of the last one it has been through.
Agreed ==
    /\ \A p \in agent.relays : p.kind # "tcp"
    /\ Working =>
        /\ agent.reading # None /\ control # None
        /\ agent.reading.generation <= control.generation
        /\ agent.reading.generation = control.generation
            => agent.reading = control
        /\ agent.reading.ports = GuestPorts(agent.reading.ports)
        /\ agent.generation <= agent.reading.generation
        /\ status # None => status.generation <= agent.reading.generation
    /\ agent.pc = "udp" =>
        OfKind(agent.relays, "reverse") = OfKind(agent.reading.ports, "reverse")
    /\ agent.pc \in {"media", "listening"} => agent.relays = agent.reading.ports
    /\ agent.generation # -1 =>
        /\ control # None /\ agent.generation <= control.generation
        /\ agent.generation = control.generation
            => agent.relays = control.ports
    /\ status # None /\ status.generation # -1 =>
        /\ control # None /\ status.generation <= control.generation
        /\ agent.generation # -1 => status.generation <= agent.generation

\* What an attempt that succeeded leaves, until the next one begins.
Settled ==
    At("idle") /\ report = "ready" =>
        /\ applied = host.want
        /\ active = applied.ports
        /\ \A m \in Media :
            IF bridges[m] = None THEN applied.media[m] = None
            ELSE bridges[m].target = applied.media[m]
        /\ control = ControlFor(generation, applied)
        /\ agent.generation \in {-1, generation}
        /\ Working => agent.reading.generation = generation

IInv == /\ TypeOK /\ Hands /\ Routed /\ Targeted /\ Routable
        /\ Told /\ CaptureFollowsControl /\ Agreed /\ Settled

-----------------------------------------------------------------------------
\* Lemmas about the operators

AgentType ==
    [pc : AgentPc, generation : Nat \cup {-1}, reading : Control \cup {None},
     relays : SUBSET Mapping, sources : Sources, heard : SUBSET Media]

\* A control file is made of a generation and valid settings.
LEMMA ControlType ==
    ASSUME NEW g \in Nat, NEW s \in SettingsType
    PROVE  ControlFor(g, s) \in Control
  BY DEF ControlFor, Control, SettingsType, GuestPorts, OfKind

\* A status is made of what the agent is.
LEMMA StatusType ==
    ASSUME NEW a \in AgentType, NEW failed \in BOOLEAN
    PROVE  StatusOf(a, failed) \in Status
<1>1. \A kind : IdsOf(a.relays, kind) \in SUBSET Ids
  BY DEF IdsOf, OfKind, AgentType, Mapping
<1>. QED
  BY <1>1 DEF StatusOf, Status, AgentType

\* An agent that reports is an agent, and its report a status.
LEMMA ReportsType ==
    ASSUME NEW a \in AgentType, NEW failed \in BOOLEAN, AgentReports(a, failed)
    PROVE  agent' \in AgentType /\ status' \in Status
<1>1. [a EXCEPT !.pc = "polling", !.heard = {}] \in AgentType
  BY DEF AgentType, AgentPc
<1>. QED
  BY <1>1, StatusType DEF AgentReports

\* So is one that starts, or is not there.
LEMMA StartingType == Starting \in AgentType /\ Down \in AgentType
  BY DEF Starting, Down, AgentType, AgentPc, Sources, NoSources

\* No integrations at all are settings.
LEMMA DefaultType == Default \in SettingsType
  BY DEF Default, SettingsType

\* Valid settings are settings.
LEMMA SettingsTyped == Settings \subseteq SettingsType
  BY SettingsAreValid DEF SettingsType

\* A mishap takes one from the budget.
LEMMA MishapType ==
    ASSUME budget \in [change : Nat, mishap : Nat], Mishap
    PROVE  budget' \in [change : Nat, mishap : Nat]
  BY DEF Mishap

\* What the guest is told is all there is to tell it.
LEMMA GuestPortsTwice ==
    ASSUME NEW P
    PROVE  GuestPorts(GuestPorts(P)) = GuestPorts(P)
  BY DEF GuestPorts, OfKind

\* A medium is something; so are a bridge, a control file and a status.
LEMMA NotNone ==
    /\ \A m \in Media : m # None
    /\ \A b \in Bridge : b # None
    /\ \A c \in Control : c # None
    /\ \A s \in Status : s # None
  BY NoneIsNothing DEF Bridge, Control, Status, Sources

\* A bridge that is marked dead stays a bridge.
LEMMA DeadBridge ==
    ASSUME TypeOK, NEW m \in Media, bridges[m] # None,
           bridges' = [bridges EXCEPT ![m] = [@ EXCEPT !.alive = FALSE]]
    PROVE  /\ bridges' \in [Media -> Bridge \cup {None}]
           /\ bridges'[m] # None /\ bridges'[m].target = bridges[m].target
           /\ ~bridges'[m].alive
           /\ \A n \in Media \ {m} : bridges'[n] = bridges[n]
<1>1. bridges[m] \in Bridge
  BY DEF TypeOK
<1>2. [bridges[m] EXCEPT !.alive = FALSE] \in Bridge
  BY <1>1 DEF Bridge
<1>3. /\ bridges' \in [Media -> Bridge \cup {None}]
      /\ bridges'[m] = [bridges[m] EXCEPT !.alive = FALSE]
      /\ \A n \in Media \ {m} : bridges'[n] = bridges[n]
  BY <1>1, <1>2 DEF TypeOK
<1>. QED
  BY <1>1, <1>2, <1>3, NotNone DEF Bridge

-----------------------------------------------------------------------------
\* What an attempt is working on is as it should be.
LEMMA HandsStep ==
    ASSUME TypeOK, Hands, [Next]_vars
    PROVE  Hands'
<1>. USE DEF hostSide, guestSide
<1>1. CASE UNCHANGED vars
  BY <1>1 DEF vars, Hands, Missing, TypeOK, Bridge
<1>2. CASE Begin
  BY <1>2 DEF Begin, At, Hands, Missing, TypeOK, Bridge
<1>3. CASE Revoked
  BY <1>3 DEF Revoked, At, ToRevoke, Hands, Missing, TypeOK, Bridge
<1>4. CASE Unchanged
  BY <1>4 DEF Unchanged, At, InSync, Hands, Missing, TypeOK, Bridge
<1>5. CASE Changed
  BY <1>5 DEF Changed, At, Goto, Hands, Missing, TypeOK, Bridge
<1>6. CASE Unforwarded
  BY <1>6 DEF Unforwarded, At, Goto, Hands, Missing, TypeOK, Bridge
<1>7. CASE Forwarded
  BY <1>7 DEF Forwarded, At, Goto, Hands, Missing, TypeOK, Bridge
<1>8. CASE Reverse
  BY <1>8 DEF Reverse, At, Goto, GiveUp, Mishap, Hands, Missing, TypeOK, Bridge
<1>9. CASE Announce
  BY <1>9 DEF Announce, At, Goto, GiveUp, Mishap, Hands, Missing, TypeOK,
      Bridge
<1>10. CASE Confirmed
  BY <1>10 DEF Confirmed, At, Goto, Hands, Missing, TypeOK, Bridge
<1>11. CASE NotConfirmed
  BY <1>11 DEF NotConfirmed, At, GiveUp, Mishap, Hands, Missing, TypeOK, Bridge
<1>12. CASE Apply
  BY <1>12 DEF Apply, At, GiveUp, Hands, Missing, TypeOK, Bridge
<1>13. CASE EndSession
  BY <1>13 DEF EndSession, At, Down, Starting, Hands, Missing, TypeOK, Bridge
<1>14. ASSUME NEW m \in Media, Revoke(m) PROVE Hands'
  BY <1>14 DEF Revoke, At, ToRevoke, RemoveBridge, RemovalFails, RequestFails,
      Mishap, GiveUp, Dead, Hands, Missing, TypeOK, Bridge
<1>15. ASSUME NEW m \in Media, Healthy(m) PROVE Hands'
  BY <1>15 DEF Healthy, At, Checkable, Hands, Missing, TypeOK, Bridge
<1>16. ASSUME NEW m \in Media, Unhealthy(m) PROVE Hands'
  <2>0. bridges[m] # None /\ At("checking") /\ UNCHANGED unanswered
    BY <1>16 DEF Unhealthy, Checkable, At, Hands
  <2>1. CASE RemoveBridge(m)
    <3>1. \/ host' = [host EXCEPT !.todo = @ \ {m}, !.removed = TRUE]
          \/ host' = [host EXCEPT !.pc = "idle", !.starting = None]
      BY <1>16 DEF Unhealthy, RemovalFails, GiveUp
    <3>2. bridges'[m] = None /\ \A n \in Media \ {m} : bridges'[n] = bridges[n]
      BY <2>1 DEF RemoveBridge, TypeOK
    <3>3. /\ host.starting = None /\ host'.starting = None
          /\ host'.want = host.want /\ host'.pc \in {"checking", "idle"}
          /\ host'.todo \subseteq Media
          /\ host'.pc = "checking" => host'.todo = host.todo \ {m}
      <4>1. host.pc = "checking" /\ host.starting = None
        BY <2>0 DEF At, Hands
      <4>2. CASE host' = [host EXCEPT !.todo = @ \ {m}, !.removed = TRUE]
        BY <4>1, <4>2 DEF TypeOK
      <4>3. CASE host' = [host EXCEPT !.pc = "idle", !.starting = None]
        BY <4>1, <4>3 DEF TypeOK
      <4>. QED
        BY <3>1, <4>2, <4>3
    <3>4. slirp.alive /\ slirp'.alive = slirp.alive
      BY <2>1 DEF RemoveBridge, TypeOK
    <3>5. /\ slirp'.routes[m] = slirp.routes[m] - 1
          /\ \A n \in Media \ {m} : slirp'.routes[n] = slirp.routes[n]
      BY <2>1 DEF RemoveBridge, TypeOK
    <3>. QED
      BY <2>0, <3>2, <3>3, <3>4, <3>5, NotNone DEF At, Hands, Missing, TypeOK
  <2>2. CASE RemovalFails(m)
    BY <1>16, <2>0, <2>2, NotNone, DeadBridge DEF RemovalFails, GiveUp, Dead,
        Hands, Missing, TypeOK
  <2>. QED
    BY <1>16, <2>1, <2>2 DEF Unhealthy
<1>17. ASSUME NEW m \in Media, AddRoute(m) PROVE Hands'
  BY <1>17, NotNone DEF AddRoute, At, Missing, Hands, TypeOK
<1>18. ASSUME NEW m \in Media, AddRouteFails(m) PROVE Hands'
  BY <1>18 DEF AddRouteFails, At, Missing, GiveUp, RequestFails, Mishap, Hands,
      TypeOK, Bridge
<1>19. ASSUME NEW m \in Media, StartBridge(m) PROVE Hands'
  BY <1>19 DEF StartBridge, At, Hands, Missing, TypeOK, Bridge
<1>20. ASSUME NEW m \in Media, BridgeFails(m) PROVE Hands'
  BY <1>20 DEF BridgeFails, At, Mishap, GiveUp, Dead, Hands, Missing, TypeOK,
      Bridge
<1>21. ASSUME NEW p \in Mapping, Unforward(p) PROVE Hands'
  BY <1>21 DEF Unforward, At, RequestFails, Mishap, GiveUp, InDoubt, Hands,
      Missing, TypeOK, Bridge
<1>22. ASSUME NEW p \in Mapping, Forward(p) PROVE Hands'
  BY <1>22 DEF Forward, At, Hands, Missing, TypeOK, Bridge
<1>23. ASSUME NEW p \in Mapping, ForwardFails(p) PROVE Hands'
  BY <1>23 DEF ForwardFails, At, GiveUp, RequestFails, Mishap, InDoubt, Hands,
      Missing, TypeOK, Bridge
<1>24. CASE ReadControl
  BY <1>24 DEF ReadControl, AgentAt, Hands, Missing, TypeOK, Bridge
<1>25. CASE Relay("reverse", "udp")
  BY <1>25 DEF Relay, AgentAt, AgentReports, Mishap, Hands, Missing, TypeOK,
      Bridge
<1>26. CASE Relay("udp", "media")
  BY <1>26 DEF Relay, AgentAt, AgentReports, Mishap, Hands, Missing, TypeOK,
      Bridge
<1>27. CASE StartSources
  BY <1>27 DEF StartSources, AgentAt, AgentReports, Mishap, Hands, Missing,
      TypeOK, Bridge
<1>28. CASE Publish
  BY <1>28 DEF Publish, AgentAt, AgentReports, Hands, Missing, TypeOK, Bridge
<1>29. ASSUME NEW m \in Media, Hear(m) PROVE Hands'
  BY <1>29 DEF Hear, AgentAt, AgentReports, Mishap, Hands, Missing, TypeOK,
      Bridge
<1>30. CASE Reconfigure
  BY <1>30 DEF Reconfigure, At, Mishap, Hands, Missing, TypeOK, Bridge
<1>31. CASE HelperDies
  BY <1>31 DEF HelperDies, Mishap, Dead, Hands, Missing, TypeOK, Bridge
<1>32. CASE AgentDies
  BY <1>32 DEF AgentDies, AgentAt, Mishap, Down, Starting, Hands, Missing,
      TypeOK, Bridge
<1>33. CASE AgentStarts
  BY <1>33 DEF AgentStarts, AgentAt, At, Starting, Hands, Missing, TypeOK,
      Bridge
<1>34. ASSUME NEW m \in Media, BridgeExits(m) PROVE Hands'
  BY <1>34, DeadBridge DEF BridgeExits, Hands, Missing, TypeOK
<1>35. ASSUME NEW m \in Media, SourceExits(m) PROVE Hands'
  BY <1>35 DEF SourceExits, Mishap, Hands, Missing, TypeOK, Bridge
<1>. QED
  BY <1>1, <1>2, <1>3, <1>4, <1>5, <1>6, <1>7, <1>8, <1>9, <1>10, <1>11, <1>12,
     <1>13, <1>14, <1>15, <1>16, <1>17, <1>18, <1>19, <1>20, <1>21, <1>22,
     <1>23, <1>24, <1>25, <1>26, <1>27, <1>28, <1>29, <1>30, <1>31, <1>32,
     <1>33, <1>34, <1>35
  DEF Next, Broker, Reconcile, Agent, Outside

\* Every route stays accounted for.
LEMMA RoutedStep ==
    ASSUME TypeOK, Hands, Routed, [Next]_vars
    PROVE  Routed'
<1>. USE DEF hostSide, guestSide
<1>1. CASE UNCHANGED vars
  BY <1>1 DEF vars, Hands, Routed, Own, Pending, Missing, TypeOK, Bridge
<1>2. CASE Begin
  <2>1. UNCHANGED <<slirp, bridges, unanswered>>
    BY <1>2 DEF Begin
  <2>2. host'.starting = host.starting
    BY <1>2 DEF Begin, At, Goto, GiveUp, Checkable, Hands, TypeOK
  <2>. QED
    BY <2>1, <2>2 DEF Routed, Own, Pending
<1>3. CASE Revoked
  <2>1. UNCHANGED <<slirp, bridges, unanswered>>
    BY <1>3 DEF Revoked
  <2>2. host'.starting = host.starting
    BY <1>3 DEF Revoked, At, Goto, GiveUp, Checkable, Hands, TypeOK
  <2>. QED
    BY <2>1, <2>2 DEF Routed, Own, Pending
<1>4. CASE Unchanged
  <2>1. UNCHANGED <<slirp, bridges, unanswered>>
    BY <1>4 DEF Unchanged
  <2>2. host'.starting = host.starting
    BY <1>4 DEF Unchanged, At, Goto, GiveUp, Checkable, Hands, TypeOK
  <2>. QED
    BY <2>1, <2>2 DEF Routed, Own, Pending
<1>5. CASE Changed
  <2>1. UNCHANGED <<slirp, bridges, unanswered>>
    BY <1>5 DEF Changed
  <2>2. host'.starting = host.starting
    BY <1>5 DEF Changed, At, Goto, GiveUp, Checkable, Hands, TypeOK
  <2>. QED
    BY <2>1, <2>2 DEF Routed, Own, Pending
<1>6. CASE Unforwarded
  <2>1. UNCHANGED <<slirp, bridges, unanswered>>
    BY <1>6 DEF Unforwarded
  <2>2. host'.starting = host.starting
    BY <1>6 DEF Unforwarded, At, Goto, GiveUp, Checkable, Hands, TypeOK
  <2>. QED
    BY <2>1, <2>2 DEF Routed, Own, Pending
<1>7. CASE Forwarded
  <2>1. UNCHANGED <<slirp, bridges, unanswered>>
    BY <1>7 DEF Forwarded
  <2>2. host'.starting = host.starting
    BY <1>7 DEF Forwarded, At, Goto, GiveUp, Checkable, Hands, TypeOK
  <2>. QED
    BY <2>1, <2>2 DEF Routed, Own, Pending
<1>8. CASE Reverse
  <2>1. UNCHANGED <<slirp, bridges, unanswered>>
    BY <1>8 DEF Reverse
  <2>2. host'.starting = host.starting
    BY <1>8 DEF Reverse, At, Goto, GiveUp, Checkable, Hands, TypeOK
  <2>. QED
    BY <2>1, <2>2 DEF Routed, Own, Pending
<1>9. CASE Announce
  <2>1. UNCHANGED <<slirp, bridges, unanswered>>
    BY <1>9 DEF Announce
  <2>2. host'.starting = host.starting
    BY <1>9 DEF Announce, At, Goto, GiveUp, Checkable, Hands, TypeOK
  <2>. QED
    BY <2>1, <2>2 DEF Routed, Own, Pending
<1>10. CASE Confirmed
  <2>1. UNCHANGED <<slirp, bridges, unanswered>>
    BY <1>10 DEF Confirmed
  <2>2. host'.starting = host.starting
    BY <1>10 DEF Confirmed, At, Goto, GiveUp, Checkable, Hands, TypeOK
  <2>. QED
    BY <2>1, <2>2 DEF Routed, Own, Pending
<1>11. CASE NotConfirmed
  <2>1. UNCHANGED <<slirp, bridges, unanswered>>
    BY <1>11 DEF NotConfirmed
  <2>2. host'.starting = host.starting
    BY <1>11 DEF NotConfirmed, At, Goto, GiveUp, Checkable, Hands, TypeOK
  <2>. QED
    BY <2>1, <2>2 DEF Routed, Own, Pending
<1>12. CASE Apply
  <2>1. UNCHANGED <<slirp, bridges, unanswered>>
    BY <1>12 DEF Apply
  <2>2. host'.starting = host.starting
    BY <1>12 DEF Apply, At, Goto, GiveUp, Checkable, Hands, TypeOK
  <2>. QED
    BY <2>1, <2>2 DEF Routed, Own, Pending
<1>13. CASE EndSession
  BY <1>13 DEF EndSession, At, Down, Starting, Hands, Routed, Own, Pending,
      Missing, TypeOK, Bridge
<1>14. ASSUME NEW m \in Media, Revoke(m) PROVE Routed'
  <2>0. bridges[m] # None
    BY <1>14 DEF Revoke, ToRevoke, Checkable, At, Hands
  <2>1. CASE RemoveBridge(m)
    BY <1>14, <2>0, <2>1, NotNone DEF Revoke, At, ToRevoke, Checkable, Mishap,
        RemoveBridge, GiveUp, RemovalFails, Dead, Hands, Routed, Own,
        Pending, Missing, TypeOK
  <2>2. CASE RemovalFails(m)
    BY <1>14, <2>0, <2>2, NotNone, DeadBridge DEF RemovalFails, GiveUp, Dead,
        Revoke, Hands, Routed, Own, Pending, Missing, TypeOK
  <2>. QED
    BY <1>14, <2>1, <2>2 DEF Revoke
<1>15. ASSUME NEW m \in Media, Healthy(m) PROVE Routed'
  <2>1. UNCHANGED <<slirp, bridges, unanswered>>
    BY <1>15 DEF Healthy
  <2>2. host'.starting = host.starting
    BY <1>15 DEF Healthy, At, Goto, GiveUp, Checkable, Hands, TypeOK
  <2>. QED
    BY <2>1, <2>2 DEF Routed, Own, Pending
<1>16. ASSUME NEW m \in Media, Unhealthy(m) PROVE Routed'
  <2>0. bridges[m] # None /\ At("checking") /\ UNCHANGED unanswered
    BY <1>16 DEF Unhealthy, Checkable, At, Hands
  <2>1. CASE RemoveBridge(m)
    <3>1. \/ host' = [host EXCEPT !.todo = @ \ {m}, !.removed = TRUE]
          \/ host' = [host EXCEPT !.pc = "idle", !.starting = None]
      BY <1>16 DEF Unhealthy, RemovalFails, GiveUp
    <3>2. bridges'[m] = None /\ \A n \in Media \ {m} : bridges'[n] = bridges[n]
      BY <2>1 DEF RemoveBridge, TypeOK
    <3>3. /\ host.starting = None /\ host'.starting = None
          /\ host'.want = host.want /\ host'.pc \in {"checking", "idle"}
          /\ host'.todo \subseteq Media
          /\ host'.pc = "checking" => host'.todo = host.todo \ {m}
      <4>1. host.pc = "checking" /\ host.starting = None
        BY <2>0 DEF At, Hands
      <4>2. CASE host' = [host EXCEPT !.todo = @ \ {m}, !.removed = TRUE]
        BY <4>1, <4>2 DEF TypeOK
      <4>3. CASE host' = [host EXCEPT !.pc = "idle", !.starting = None]
        BY <4>1, <4>3 DEF TypeOK
      <4>. QED
        BY <3>1, <4>2, <4>3
    <3>4. slirp.alive /\ slirp'.alive = slirp.alive
      BY <2>1 DEF RemoveBridge, TypeOK
    <3>5. /\ slirp'.routes[m] = slirp.routes[m] - 1
          /\ \A n \in Media \ {m} : slirp'.routes[n] = slirp.routes[n]
      BY <2>1 DEF RemoveBridge, TypeOK
    <3>. QED
      BY <2>0, <3>2, <3>3, <3>4, <3>5, NotNone DEF At, Hands, Routed, Own,
          Pending, Missing, TypeOK
  <2>2. CASE RemovalFails(m)
    BY <1>16, <2>0, <2>2, NotNone, DeadBridge DEF RemovalFails, GiveUp, Dead,
        Hands, Routed, Own, Pending, Missing, TypeOK
  <2>. QED
    BY <1>16, <2>1, <2>2 DEF Unhealthy
<1>17. ASSUME NEW m \in Media, AddRoute(m) PROVE Routed'
  BY <1>17, NotNone DEF AddRoute, At, Missing, Hands, Routed, Own, Pending,
      TypeOK
<1>18. ASSUME NEW m \in Media, AddRouteFails(m) PROVE Routed'
  BY <1>18 DEF AddRouteFails, At, Missing, GiveUp, RequestFails, Mishap, Hands,
      Routed, Own, Pending, TypeOK, Bridge
<1>19. ASSUME NEW m \in Media, StartBridge(m) PROVE Routed'
  <2>1. bridges'[m] # None /\ \A n \in Media \ {m} : bridges'[n] = bridges[n]
    BY <1>19, NotNone DEF StartBridge, At, Bridge, SettingsType, Hands,
        Missing, TypeOK
  <2>. QED
    BY <1>19, <2>1, NotNone DEF StartBridge, At, Hands, Routed, Own, Pending,
        Missing, TypeOK
<1>20. ASSUME NEW m \in Media, BridgeFails(m) PROVE Routed'
  BY <1>20, NotNone DEF BridgeFails, At, Mishap, GiveUp, Dead, Hands, Routed,
      Own,
      Pending, Missing, TypeOK
<1>21. ASSUME NEW p \in Mapping, Unforward(p) PROVE Routed'
  <2>1. slirp'.alive = slirp.alive /\ slirp'.routes = slirp.routes
    BY <1>21 DEF Unforward, TypeOK
  <2>2. unanswered'.routes = unanswered.routes
    BY <1>21 DEF Unforward, InDoubt, TypeOK
  <2>3. host'.starting = host.starting
    BY <1>21 DEF Unforward, At, GiveUp, Hands, TypeOK
  <2>. QED
    BY <1>21, <2>1, <2>2, <2>3 DEF Unforward, Routed, Own, Pending
<1>22. ASSUME NEW p \in Mapping, Forward(p) PROVE Routed'
  BY <1>22 DEF Forward, At, Hands, Routed, Own, Pending, Missing, TypeOK,
      Bridge
<1>23. ASSUME NEW p \in Mapping, ForwardFails(p) PROVE Routed'
  BY <1>23 DEF ForwardFails, At, GiveUp, RequestFails, Mishap, InDoubt, Hands,
      Routed, Own, Pending, Missing, TypeOK, Bridge
<1>24. CASE ReadControl
  BY <1>24 DEF ReadControl, AgentAt, Hands, Routed, Own, Pending, Missing,
      TypeOK, Bridge
<1>25. CASE Relay("reverse", "udp")
  BY <1>25 DEF Relay, AgentAt, AgentReports, Mishap, Hands, Routed, Own,
      Pending, Missing, TypeOK, Bridge
<1>26. CASE Relay("udp", "media")
  BY <1>26 DEF Relay, AgentAt, AgentReports, Mishap, Hands, Routed, Own,
      Pending, Missing, TypeOK, Bridge
<1>27. CASE StartSources
  BY <1>27 DEF StartSources, AgentAt, AgentReports, Mishap, Hands, Routed, Own,
      Pending, Missing, TypeOK, Bridge
<1>28. CASE Publish
  BY <1>28 DEF Publish, AgentAt, AgentReports, Hands, Routed, Own, Pending,
      Missing, TypeOK, Bridge
<1>29. ASSUME NEW m \in Media, Hear(m) PROVE Routed'
  BY <1>29 DEF Hear, AgentAt, AgentReports, Mishap, Hands, Routed, Own,
      Pending, Missing, TypeOK, Bridge
<1>30. CASE Reconfigure
  BY <1>30 DEF Reconfigure, At, Mishap, Hands, Routed, Own, Pending, Missing,
      TypeOK, Bridge
<1>31. CASE HelperDies
  BY <1>31 DEF HelperDies, Mishap, Dead, Hands, Routed, Own, Pending, Missing,
      TypeOK, Bridge
<1>32. CASE AgentDies
  BY <1>32 DEF AgentDies, AgentAt, Mishap, Down, Starting, Hands, Routed, Own,
      Pending, Missing, TypeOK, Bridge
<1>33. CASE AgentStarts
  BY <1>33 DEF AgentStarts, AgentAt, At, Starting, Hands, Routed, Own, Pending,
      Missing, TypeOK, Bridge
<1>34. ASSUME NEW m \in Media, BridgeExits(m) PROVE Routed'
  <2>1. \A n \in Media : Own(n)' = Own(n)
    BY <1>34, DeadBridge DEF BridgeExits, Own
  <2>. QED
    BY <1>34, <2>1 DEF BridgeExits, Routed, Pending
<1>35. ASSUME NEW m \in Media, SourceExits(m) PROVE Routed'
  BY <1>35 DEF SourceExits, Mishap, Hands, Routed, Own, Pending, Missing,
      TypeOK, Bridge
<1>. QED
  BY <1>1, <1>2, <1>3, <1>4, <1>5, <1>6, <1>7, <1>8, <1>9, <1>10, <1>11, <1>12,
     <1>13, <1>14, <1>15, <1>16, <1>17, <1>18, <1>19, <1>20, <1>21, <1>22,
     <1>23, <1>24, <1>25, <1>26, <1>27, <1>28, <1>29, <1>30, <1>31, <1>32,
     <1>33, <1>34, <1>35
  DEF Next, Broker, Reconcile, Agent, Outside

\* Bridges left after the revocation are wanted.
LEMMA TargetedStep ==
    ASSUME TypeOK, Hands, Targeted, [Next]_vars
    PROVE  Targeted'
<1>. USE DEF hostSide, guestSide
<1>1. CASE UNCHANGED vars
  BY <1>1 DEF vars, Hands, Targeted, TypeOK, Bridge
<1>2. CASE Begin
  BY <1>2 DEF Begin, At, Hands, Targeted, TypeOK, Bridge
<1>3. CASE Revoked
  BY <1>3 DEF Revoked, At, ToRevoke, Hands, Targeted, TypeOK, Bridge
<1>4. CASE Unchanged
  BY <1>4 DEF Unchanged, At, InSync, Hands, Targeted, TypeOK, Bridge
<1>5. CASE Changed
  BY <1>5 DEF Changed, At, Goto, Hands, Targeted, TypeOK, Bridge
<1>6. CASE Unforwarded
  BY <1>6 DEF Unforwarded, At, Goto, Hands, Targeted, TypeOK, Bridge
<1>7. CASE Forwarded
  BY <1>7 DEF Forwarded, At, Goto, Hands, Targeted, TypeOK, Bridge
<1>8. CASE Reverse
  BY <1>8 DEF Reverse, At, Goto, GiveUp, Mishap, Hands, Targeted, TypeOK,
      Bridge
<1>9. CASE Announce
  BY <1>9 DEF Announce, At, Goto, GiveUp, Mishap, Hands, Targeted, TypeOK,
      Bridge
<1>10. CASE Confirmed
  BY <1>10 DEF Confirmed, At, Goto, Hands, Targeted, TypeOK, Bridge
<1>11. CASE NotConfirmed
  BY <1>11 DEF NotConfirmed, At, GiveUp, Mishap, Hands, Targeted, TypeOK,
      Bridge
<1>12. CASE Apply
  BY <1>12 DEF Apply, At, GiveUp, Hands, Targeted, TypeOK, Bridge
<1>13. CASE EndSession
  BY <1>13 DEF EndSession, At, Down, Starting, Hands, Targeted, TypeOK, Bridge
<1>14. ASSUME NEW m \in Media, Revoke(m) PROVE Targeted'
  <2>0. bridges[m] # None
    BY <1>14 DEF Revoke, ToRevoke, Checkable, At, Hands
  <2>1. CASE RemoveBridge(m)
    BY <1>14, <2>0, <2>1, NotNone DEF Revoke, At, ToRevoke, Checkable, Mishap,
        RemoveBridge, GiveUp, RemovalFails, Dead, Hands, Targeted, TypeOK
  <2>2. CASE RemovalFails(m)
    BY <1>14, <2>0, <2>2, NotNone, DeadBridge DEF RemovalFails, GiveUp, Dead,
        Revoke, Hands, Targeted, TypeOK
  <2>. QED
    BY <1>14, <2>1, <2>2 DEF Revoke
<1>15. ASSUME NEW m \in Media, Healthy(m) PROVE Targeted'
  BY <1>15 DEF Healthy, At, Checkable, Hands, Targeted, TypeOK, Bridge
<1>16. ASSUME NEW m \in Media, Unhealthy(m) PROVE Targeted'
  <2>0. bridges[m] # None /\ At("checking") /\ UNCHANGED unanswered
    BY <1>16 DEF Unhealthy, Checkable, At, Hands
  <2>1. CASE RemoveBridge(m)
    <3>1. \/ host' = [host EXCEPT !.todo = @ \ {m}, !.removed = TRUE]
          \/ host' = [host EXCEPT !.pc = "idle", !.starting = None]
      BY <1>16 DEF Unhealthy, RemovalFails, GiveUp
    <3>2. bridges'[m] = None /\ \A n \in Media \ {m} : bridges'[n] = bridges[n]
      BY <2>1 DEF RemoveBridge, TypeOK
    <3>3. /\ host.starting = None /\ host'.starting = None
          /\ host'.want = host.want /\ host'.pc \in {"checking", "idle"}
          /\ host'.todo \subseteq Media
          /\ host'.pc = "checking" => host'.todo = host.todo \ {m}
      <4>1. host.pc = "checking" /\ host.starting = None
        BY <2>0 DEF At, Hands
      <4>2. CASE host' = [host EXCEPT !.todo = @ \ {m}, !.removed = TRUE]
        BY <4>1, <4>2 DEF TypeOK
      <4>3. CASE host' = [host EXCEPT !.pc = "idle", !.starting = None]
        BY <4>1, <4>3 DEF TypeOK
      <4>. QED
        BY <3>1, <4>2, <4>3
    <3>4. slirp.alive /\ slirp'.alive = slirp.alive
      BY <2>1 DEF RemoveBridge, TypeOK
    <3>5. /\ slirp'.routes[m] = slirp.routes[m] - 1
          /\ \A n \in Media \ {m} : slirp'.routes[n] = slirp.routes[n]
      BY <2>1 DEF RemoveBridge, TypeOK
    <3>. QED
      BY <2>0, <3>2, <3>3, <3>4, <3>5, NotNone DEF At, Hands, Targeted, TypeOK
  <2>2. CASE RemovalFails(m)
    BY <1>16, <2>0, <2>2, NotNone, DeadBridge DEF RemovalFails, GiveUp, Dead,
        Hands, Targeted, TypeOK
  <2>. QED
    BY <1>16, <2>1, <2>2 DEF Unhealthy
<1>17. ASSUME NEW m \in Media, AddRoute(m) PROVE Targeted'
  BY <1>17 DEF AddRoute, At, Missing, Hands, Targeted, TypeOK, Bridge
<1>18. ASSUME NEW m \in Media, AddRouteFails(m) PROVE Targeted'
  BY <1>18 DEF AddRouteFails, At, Missing, GiveUp, RequestFails, Mishap, Hands,
      Targeted, TypeOK, Bridge
<1>19. ASSUME NEW m \in Media, StartBridge(m) PROVE Targeted'
  BY <1>19 DEF StartBridge, At, Hands, Targeted, TypeOK, Bridge
<1>20. ASSUME NEW m \in Media, BridgeFails(m) PROVE Targeted'
  BY <1>20 DEF BridgeFails, At, Mishap, GiveUp, Dead, Hands, Targeted, TypeOK,
      Bridge
<1>21. ASSUME NEW p \in Mapping, Unforward(p) PROVE Targeted'
  BY <1>21 DEF Unforward, At, RequestFails, Mishap, GiveUp, InDoubt, Hands,
      Targeted, TypeOK, Bridge
<1>22. ASSUME NEW p \in Mapping, Forward(p) PROVE Targeted'
  BY <1>22 DEF Forward, At, Hands, Targeted, TypeOK, Bridge
<1>23. ASSUME NEW p \in Mapping, ForwardFails(p) PROVE Targeted'
  BY <1>23 DEF ForwardFails, At, GiveUp, RequestFails, Mishap, InDoubt, Hands,
      Targeted, TypeOK, Bridge
<1>24. CASE ReadControl
  BY <1>24 DEF ReadControl, AgentAt, Hands, Targeted, TypeOK, Bridge
<1>25. CASE Relay("reverse", "udp")
  BY <1>25 DEF Relay, AgentAt, AgentReports, Mishap, Hands, Targeted, TypeOK,
      Bridge
<1>26. CASE Relay("udp", "media")
  BY <1>26 DEF Relay, AgentAt, AgentReports, Mishap, Hands, Targeted, TypeOK,
      Bridge
<1>27. CASE StartSources
  BY <1>27 DEF StartSources, AgentAt, AgentReports, Mishap, Hands, Targeted,
      TypeOK, Bridge
<1>28. CASE Publish
  BY <1>28 DEF Publish, AgentAt, AgentReports, Hands, Targeted, TypeOK, Bridge
<1>29. ASSUME NEW m \in Media, Hear(m) PROVE Targeted'
  BY <1>29 DEF Hear, AgentAt, AgentReports, Mishap, Hands, Targeted, TypeOK,
      Bridge
<1>30. CASE Reconfigure
  BY <1>30 DEF Reconfigure, At, Mishap, Hands, Targeted, TypeOK, Bridge
<1>31. CASE HelperDies
  BY <1>31 DEF HelperDies, Mishap, Dead, Hands, Targeted, TypeOK, Bridge
<1>32. CASE AgentDies
  BY <1>32 DEF AgentDies, AgentAt, Mishap, Down, Starting, Hands, Targeted,
      TypeOK, Bridge
<1>33. CASE AgentStarts
  BY <1>33 DEF AgentStarts, AgentAt, At, Starting, Hands, Targeted, TypeOK,
      Bridge
<1>34. ASSUME NEW m \in Media, BridgeExits(m) PROVE Targeted'
  BY <1>34 DEF BridgeExits, Mishap, Hands, Targeted, TypeOK, Bridge
<1>35. ASSUME NEW m \in Media, SourceExits(m) PROVE Targeted'
  BY <1>35 DEF SourceExits, Mishap, Hands, Targeted, TypeOK, Bridge
<1>. QED
  BY <1>1, <1>2, <1>3, <1>4, <1>5, <1>6, <1>7, <1>8, <1>9, <1>10, <1>11, <1>12,
     <1>13, <1>14, <1>15, <1>16, <1>17, <1>18, <1>19, <1>20, <1>21, <1>22,
     <1>23, <1>24, <1>25, <1>26, <1>27, <1>28, <1>29, <1>30, <1>31, <1>32,
     <1>33, <1>34, <1>35
  DEF Next, Broker, Reconcile, Agent, Outside

\* A forward on record is a forward in the helper.
LEMMA RoutableStep ==
    ASSUME TypeOK, Routable, [Next]_vars
    PROVE  Routable'
<1>. USE DEF hostSide, guestSide
<1>1. CASE UNCHANGED vars
  BY <1>1 DEF vars, Routable, EndsOf, OfKind, TypeOK
<1>2. CASE Begin
  BY <1>2 DEF Begin, At, Routable, EndsOf, OfKind, TypeOK
<1>3. CASE Revoked
  BY <1>3 DEF Revoked, At, ToRevoke, Routable, EndsOf, OfKind, TypeOK
<1>4. CASE Unchanged
  BY <1>4 DEF Unchanged, At, InSync, Routable, EndsOf, OfKind, TypeOK
<1>5. CASE Changed
  BY <1>5 DEF Changed, At, Goto, Routable, EndsOf, OfKind, TypeOK
<1>6. CASE Unforwarded
  BY <1>6 DEF Unforwarded, At, Goto, Routable, EndsOf, OfKind, TypeOK
<1>7. CASE Forwarded
  BY <1>7 DEF Forwarded, At, Goto, Routable, EndsOf, OfKind, TypeOK
<1>8. CASE Reverse
  BY <1>8 DEF Reverse, At, Goto, GiveUp, Mishap, Routable, EndsOf, OfKind,
      TypeOK
<1>9. CASE Announce
  BY <1>9 DEF Announce, At, Goto, GiveUp, Mishap, Routable, EndsOf, OfKind,
      TypeOK
<1>10. CASE Confirmed
  BY <1>10 DEF Confirmed, At, Goto, Routable, EndsOf, OfKind, TypeOK
<1>11. CASE NotConfirmed
  BY <1>11 DEF NotConfirmed, At, GiveUp, Mishap, Routable, EndsOf, OfKind,
      TypeOK
<1>12. CASE Apply
  BY <1>12 DEF Apply, At, GiveUp, Routable, EndsOf, OfKind, TypeOK
<1>13. CASE EndSession
  BY <1>13 DEF EndSession, At, Down, Starting, Routable, EndsOf, OfKind, TypeOK
<1>14. ASSUME NEW m \in Media, Revoke(m) PROVE Routable'
  BY <1>14 DEF Revoke, At, ToRevoke, RemoveBridge, RemovalFails, RequestFails,
      Mishap, GiveUp, Dead, Routable, EndsOf, OfKind, TypeOK
<1>15. ASSUME NEW m \in Media, Healthy(m) PROVE Routable'
  BY <1>15 DEF Healthy, At, Checkable, Routable, EndsOf, OfKind, TypeOK
<1>16. ASSUME NEW m \in Media, Unhealthy(m) PROVE Routable'
  BY <1>16 DEF Unhealthy, At, Checkable, RemoveBridge, RemovalFails,
      RequestFails, Mishap, GiveUp, Dead, Routable, EndsOf, OfKind, TypeOK
<1>17. ASSUME NEW m \in Media, AddRoute(m) PROVE Routable'
  BY <1>17 DEF AddRoute, At, Missing, Routable, EndsOf, OfKind, TypeOK
<1>18. ASSUME NEW m \in Media, AddRouteFails(m) PROVE Routable'
  BY <1>18 DEF AddRouteFails, At, Missing, GiveUp, RequestFails, Mishap,
      Routable, EndsOf, OfKind, TypeOK
<1>19. ASSUME NEW m \in Media, StartBridge(m) PROVE Routable'
  BY <1>19 DEF StartBridge, At, Routable, EndsOf, OfKind, TypeOK
<1>20. ASSUME NEW m \in Media, BridgeFails(m) PROVE Routable'
  BY <1>20 DEF BridgeFails, At, Mishap, GiveUp, Dead, Routable, EndsOf, OfKind,
      TypeOK
<1>21. ASSUME NEW p \in Mapping, Unforward(p) PROVE Routable'
  BY <1>21 DEF Unforward, At, RequestFails, Mishap, GiveUp, InDoubt, Routable,
      EndsOf, OfKind, TypeOK
<1>22. ASSUME NEW p \in Mapping, Forward(p) PROVE Routable'
  BY <1>22 DEF Forward, At, Routable, EndsOf, OfKind, TypeOK
<1>23. ASSUME NEW p \in Mapping, ForwardFails(p) PROVE Routable'
  BY <1>23 DEF ForwardFails, At, GiveUp, RequestFails, Mishap, InDoubt,
      Routable, EndsOf, OfKind, TypeOK
<1>24. CASE ReadControl
  BY <1>24 DEF ReadControl, AgentAt, Routable, EndsOf, OfKind, TypeOK
<1>25. CASE Relay("reverse", "udp")
  BY <1>25 DEF Relay, AgentAt, AgentReports, Mishap, Routable, EndsOf, OfKind,
      TypeOK
<1>26. CASE Relay("udp", "media")
  BY <1>26 DEF Relay, AgentAt, AgentReports, Mishap, Routable, EndsOf, OfKind,
      TypeOK
<1>27. CASE StartSources
  BY <1>27 DEF StartSources, AgentAt, AgentReports, Mishap, Routable, EndsOf,
      OfKind, TypeOK
<1>28. CASE Publish
  BY <1>28 DEF Publish, AgentAt, AgentReports, Routable, EndsOf, OfKind, TypeOK
<1>29. ASSUME NEW m \in Media, Hear(m) PROVE Routable'
  BY <1>29 DEF Hear, AgentAt, AgentReports, Mishap, Routable, EndsOf, OfKind,
      TypeOK
<1>30. CASE Reconfigure
  BY <1>30 DEF Reconfigure, At, Mishap, Routable, EndsOf, OfKind, TypeOK
<1>31. CASE HelperDies
  BY <1>31 DEF HelperDies, Mishap, Dead, Routable, EndsOf, OfKind, TypeOK
<1>32. CASE AgentDies
  BY <1>32 DEF AgentDies, AgentAt, Mishap, Down, Starting, Routable, EndsOf,
      OfKind, TypeOK
<1>33. CASE AgentStarts
  BY <1>33 DEF AgentStarts, AgentAt, At, Starting, Routable, EndsOf, OfKind,
      TypeOK
<1>34. ASSUME NEW m \in Media, BridgeExits(m) PROVE Routable'
  BY <1>34 DEF BridgeExits, Mishap, Routable, EndsOf, OfKind, TypeOK
<1>35. ASSUME NEW m \in Media, SourceExits(m) PROVE Routable'
  BY <1>35 DEF SourceExits, Mishap, Routable, EndsOf, OfKind, TypeOK
<1>. QED
  BY <1>1, <1>2, <1>3, <1>4, <1>5, <1>6, <1>7, <1>8, <1>9, <1>10, <1>11, <1>12,
     <1>13, <1>14, <1>15, <1>16, <1>17, <1>18, <1>19, <1>20, <1>21, <1>22,
     <1>23, <1>24, <1>25, <1>26, <1>27, <1>28, <1>29, <1>30, <1>31, <1>32,
     <1>33, <1>34, <1>35
  DEF Next, Broker, Reconcile, Agent, Outside

\* The guest has been told what the attempt is for.
LEMMA ToldStep ==
    ASSUME TypeOK, Told, [Next]_vars
    PROVE  Told'
<1>. USE DEF hostSide, guestSide
<1>1. CASE UNCHANGED vars
  BY <1>1 DEF vars, Told, TypeOK
<1>2. CASE Begin
  BY <1>2 DEF Begin, At, Told, TypeOK
<1>3. CASE Revoked
  BY <1>3 DEF Revoked, At, ToRevoke, Told, TypeOK
<1>4. CASE Unchanged
  BY <1>4 DEF Unchanged, At, InSync, Told, TypeOK
<1>5. CASE Changed
  BY <1>5 DEF Changed, At, Goto, Told, TypeOK
<1>6. CASE Unforwarded
  BY <1>6 DEF Unforwarded, At, Goto, Told, TypeOK
<1>7. CASE Forwarded
  BY <1>7 DEF Forwarded, At, Goto, Told, TypeOK
<1>8. CASE Reverse
  BY <1>8 DEF Reverse, At, Goto, GiveUp, Mishap, Told, TypeOK
<1>9. CASE Announce
  <2>1. generation' = generation + 1 /\ generation \in Nat
    BY <1>9 DEF Announce, TypeOK
  <2>2. host.want \in SettingsType /\ host.pc = "announcing"
    BY <1>9 DEF Announce, At, TypeOK
  <2>3. control' = control \/ control' = ControlFor(generation', host.want)
    BY <1>9 DEF Announce
  <2>4. /\ ControlFor(generation', host.want) # None
        /\ ControlFor(generation', host.want).generation = generation'
        /\ ControlFor(generation', host.want).ports
            = GuestPorts(host.want.ports)
        /\ ControlFor(generation', host.want).media = host.want.media
    BY <2>1, <2>2, ControlType, NotNone DEF ControlFor
  <2>5. \/ /\ control' = ControlFor(generation', host.want)
           /\ host' = [host EXCEPT !.pc = "waiting"]
        \/ host' = [host EXCEPT !.pc = "idle", !.starting = None]
    BY <1>9 DEF Announce, Goto, GiveUp
  <2>6. /\ host'.pc \in {"waiting", "bridging", "spawning"}
            => control' = ControlFor(generation', host'.want)
    BY <2>5 DEF TypeOK
  <2>7. control # None => control.generation \in Nat
    BY DEF TypeOK, Control
  <2>. QED
    BY <2>1, <2>3, <2>4, <2>6, <2>7, GuestPortsTwice DEF Told
<1>10. CASE Confirmed
  BY <1>10 DEF Confirmed, At, Goto, Told, TypeOK
<1>11. CASE NotConfirmed
  BY <1>11 DEF NotConfirmed, At, GiveUp, Mishap, Told, TypeOK
<1>12. CASE Apply
  BY <1>12 DEF Apply, At, GiveUp, Told, TypeOK
<1>13. CASE EndSession
  BY <1>13 DEF EndSession, At, Down, Starting, Told, TypeOK
<1>14. ASSUME NEW m \in Media, Revoke(m) PROVE Told'
  BY <1>14 DEF Revoke, At, ToRevoke, RemoveBridge, RemovalFails, RequestFails,
      Mishap, GiveUp, Dead, Told, TypeOK
<1>15. ASSUME NEW m \in Media, Healthy(m) PROVE Told'
  BY <1>15 DEF Healthy, At, Checkable, Told, TypeOK
<1>16. ASSUME NEW m \in Media, Unhealthy(m) PROVE Told'
  BY <1>16 DEF Unhealthy, At, Checkable, RemoveBridge, RemovalFails,
      RequestFails, Mishap, GiveUp, Dead, Told, TypeOK
<1>17. ASSUME NEW m \in Media, AddRoute(m) PROVE Told'
  BY <1>17 DEF AddRoute, At, Missing, Told, TypeOK
<1>18. ASSUME NEW m \in Media, AddRouteFails(m) PROVE Told'
  BY <1>18 DEF AddRouteFails, At, Missing, GiveUp, RequestFails, Mishap, Told,
      TypeOK
<1>19. ASSUME NEW m \in Media, StartBridge(m) PROVE Told'
  BY <1>19 DEF StartBridge, At, Told, TypeOK
<1>20. ASSUME NEW m \in Media, BridgeFails(m) PROVE Told'
  BY <1>20 DEF BridgeFails, At, Mishap, GiveUp, Dead, Told, TypeOK
<1>21. ASSUME NEW p \in Mapping, Unforward(p) PROVE Told'
  BY <1>21 DEF Unforward, At, RequestFails, Mishap, GiveUp, InDoubt, Told,
      TypeOK
<1>22. ASSUME NEW p \in Mapping, Forward(p) PROVE Told'
  BY <1>22 DEF Forward, At, Told, TypeOK
<1>23. ASSUME NEW p \in Mapping, ForwardFails(p) PROVE Told'
  BY <1>23 DEF ForwardFails, At, GiveUp, RequestFails, Mishap, InDoubt, Told,
      TypeOK
<1>24. CASE ReadControl
  BY <1>24 DEF ReadControl, AgentAt, Told, TypeOK
<1>25. CASE Relay("reverse", "udp")
  BY <1>25 DEF Relay, AgentAt, AgentReports, Mishap, Told, TypeOK
<1>26. CASE Relay("udp", "media")
  BY <1>26 DEF Relay, AgentAt, AgentReports, Mishap, Told, TypeOK
<1>27. CASE StartSources
  BY <1>27 DEF StartSources, AgentAt, AgentReports, Mishap, Told, TypeOK
<1>28. CASE Publish
  BY <1>28 DEF Publish, AgentAt, AgentReports, Told, TypeOK
<1>29. ASSUME NEW m \in Media, Hear(m) PROVE Told'
  BY <1>29 DEF Hear, AgentAt, AgentReports, Mishap, Told, TypeOK
<1>30. CASE Reconfigure
  BY <1>30 DEF Reconfigure, At, Mishap, Told, TypeOK
<1>31. CASE HelperDies
  BY <1>31 DEF HelperDies, Mishap, Dead, Told, TypeOK
<1>32. CASE AgentDies
  BY <1>32 DEF AgentDies, AgentAt, Mishap, Down, Starting, Told, TypeOK
<1>33. CASE AgentStarts
  BY <1>33 DEF AgentStarts, AgentAt, At, Starting, Told, TypeOK
<1>34. ASSUME NEW m \in Media, BridgeExits(m) PROVE Told'
  BY <1>34 DEF BridgeExits, Mishap, Told, TypeOK
<1>35. ASSUME NEW m \in Media, SourceExits(m) PROVE Told'
  BY <1>35 DEF SourceExits, Mishap, Told, TypeOK
<1>. QED
  BY <1>1, <1>2, <1>3, <1>4, <1>5, <1>6, <1>7, <1>8, <1>9, <1>10, <1>11, <1>12,
     <1>13, <1>14, <1>15, <1>16, <1>17, <1>18, <1>19, <1>20, <1>21, <1>22,
     <1>23, <1>24, <1>25, <1>26, <1>27, <1>28, <1>29, <1>30, <1>31, <1>32,
     <1>33, <1>34, <1>35
  DEF Next, Broker, Reconcile, Agent, Outside

\* Capture goes on only as the control file says.
LEMMA CaptureStep ==
    ASSUME TypeOK, Hands, Targeted, Told, CaptureFollowsControl, [Next]_vars
    PROVE  CaptureFollowsControl'
<1>. USE DEF hostSide, guestSide
<1>1. CASE UNCHANGED vars
  BY <1>1 DEF vars, CaptureFollowsControl, TypeOK, Bridge
<1>2. CASE Begin
  BY <1>2 DEF Begin, At, CaptureFollowsControl, TypeOK, Bridge
<1>3. CASE Revoked
  BY <1>3 DEF Revoked, At, ToRevoke, CaptureFollowsControl, TypeOK, Bridge
<1>4. CASE Unchanged
  BY <1>4 DEF Unchanged, At, InSync, CaptureFollowsControl, TypeOK, Bridge
<1>5. CASE Changed
  BY <1>5 DEF Changed, At, Goto, CaptureFollowsControl, TypeOK, Bridge
<1>6. CASE Unforwarded
  BY <1>6 DEF Unforwarded, At, Goto, CaptureFollowsControl, TypeOK, Bridge
<1>7. CASE Forwarded
  BY <1>7 DEF Forwarded, At, Goto, CaptureFollowsControl, TypeOK, Bridge
<1>8. CASE Reverse
  BY <1>8 DEF Reverse, At, Goto, GiveUp, Mishap, CaptureFollowsControl, TypeOK,
      Bridge
<1>9. CASE Announce
  <2>1. generation' = generation + 1 /\ generation \in Nat
    BY <1>9 DEF Announce, TypeOK
  <2>2. host.want \in SettingsType /\ host.pc = "announcing"
    BY <1>9 DEF Announce, At, TypeOK
  <2>3. control' = control \/ control' = ControlFor(generation', host.want)
    BY <1>9 DEF Announce
  <2>4. /\ ControlFor(generation', host.want) # None
        /\ ControlFor(generation', host.want).generation = generation'
        /\ ControlFor(generation', host.want).ports
            = GuestPorts(host.want.ports)
        /\ ControlFor(generation', host.want).media = host.want.media
    BY <2>1, <2>2, ControlType, NotNone DEF ControlFor
  <2>5. UNCHANGED bridges
    BY <1>9 DEF Announce
  <2>. QED
    BY <2>2, <2>3, <2>4, <2>5 DEF CaptureFollowsControl, Targeted
<1>10. CASE Confirmed
  BY <1>10 DEF Confirmed, At, Goto, CaptureFollowsControl, TypeOK, Bridge
<1>11. CASE NotConfirmed
  BY <1>11 DEF NotConfirmed, At, GiveUp, Mishap, CaptureFollowsControl, TypeOK,
      Bridge
<1>12. CASE Apply
  BY <1>12 DEF Apply, At, GiveUp, CaptureFollowsControl, TypeOK, Bridge
<1>13. CASE EndSession
  BY <1>13 DEF EndSession, At, Down, Starting, CaptureFollowsControl, TypeOK,
      Bridge
<1>14. ASSUME NEW m \in Media, Revoke(m) PROVE CaptureFollowsControl'
  BY <1>14 DEF Revoke, At, ToRevoke, RemoveBridge, RemovalFails, RequestFails,
      Mishap, GiveUp, Dead, CaptureFollowsControl, TypeOK, Bridge
<1>15. ASSUME NEW m \in Media, Healthy(m) PROVE CaptureFollowsControl'
  BY <1>15 DEF Healthy, At, Checkable, CaptureFollowsControl, TypeOK, Bridge
<1>16. ASSUME NEW m \in Media, Unhealthy(m) PROVE CaptureFollowsControl'
  <2>0. bridges[m] # None /\ UNCHANGED control
    BY <1>16 DEF Unhealthy, Checkable, At, Hands
  <2>1. CASE RemoveBridge(m)
    BY <2>0, <2>1 DEF RemoveBridge, CaptureFollowsControl, TypeOK
  <2>2. CASE RemovalFails(m)
    BY <2>0, <2>2, DeadBridge DEF RemovalFails, CaptureFollowsControl
  <2>. QED
    BY <1>16, <2>1, <2>2 DEF Unhealthy
<1>17. ASSUME NEW m \in Media, AddRoute(m) PROVE CaptureFollowsControl'
  BY <1>17 DEF AddRoute, At, Missing, CaptureFollowsControl, TypeOK, Bridge
<1>18. ASSUME NEW m \in Media, AddRouteFails(m) PROVE CaptureFollowsControl'
  BY <1>18 DEF AddRouteFails, At, Missing, GiveUp, RequestFails, Mishap,
      CaptureFollowsControl, TypeOK, Bridge
<1>19. ASSUME NEW m \in Media, StartBridge(m) PROVE CaptureFollowsControl'
  <2>1. /\ host.want \in SettingsType /\ generation \in Nat
        /\ control = ControlFor(generation, host.want) /\ UNCHANGED control
        /\ Missing(m)
    BY <1>19 DEF StartBridge, At, Told, Hands, TypeOK
  <2>2. control # None /\ control.media = host.want.media
    BY <2>1, ControlType, NotNone DEF ControlFor
  <2>3. /\ bridges'[m].target = host.want.media[m]
        /\ \A n \in Media \ {m} : bridges'[n] = bridges[n]
    BY <1>19 DEF StartBridge, TypeOK
  <2>. QED
    BY <2>1, <2>2, <2>3 DEF CaptureFollowsControl
<1>20. ASSUME NEW m \in Media, BridgeFails(m) PROVE CaptureFollowsControl'
  BY <1>20 DEF BridgeFails, At, Mishap, GiveUp, Dead, CaptureFollowsControl,
      TypeOK, Bridge
<1>21. ASSUME NEW p \in Mapping, Unforward(p) PROVE CaptureFollowsControl'
  BY <1>21 DEF Unforward, At, RequestFails, Mishap, GiveUp, InDoubt,
      CaptureFollowsControl, TypeOK, Bridge
<1>22. ASSUME NEW p \in Mapping, Forward(p) PROVE CaptureFollowsControl'
  BY <1>22 DEF Forward, At, CaptureFollowsControl, TypeOK, Bridge
<1>23. ASSUME NEW p \in Mapping, ForwardFails(p) PROVE CaptureFollowsControl'
  BY <1>23 DEF ForwardFails, At, GiveUp, RequestFails, Mishap, InDoubt,
      CaptureFollowsControl, TypeOK, Bridge
<1>24. CASE ReadControl
  BY <1>24 DEF ReadControl, AgentAt, CaptureFollowsControl, TypeOK, Bridge
<1>25. CASE Relay("reverse", "udp")
  BY <1>25 DEF Relay, AgentAt, AgentReports, Mishap, CaptureFollowsControl,
      TypeOK, Bridge
<1>26. CASE Relay("udp", "media")
  BY <1>26 DEF Relay, AgentAt, AgentReports, Mishap, CaptureFollowsControl,
      TypeOK, Bridge
<1>27. CASE StartSources
  BY <1>27 DEF StartSources, AgentAt, AgentReports, Mishap,
      CaptureFollowsControl, TypeOK, Bridge
<1>28. CASE Publish
  BY <1>28 DEF Publish, AgentAt, AgentReports, CaptureFollowsControl, TypeOK,
      Bridge
<1>29. ASSUME NEW m \in Media, Hear(m) PROVE CaptureFollowsControl'
  BY <1>29 DEF Hear, AgentAt, AgentReports, Mishap, CaptureFollowsControl,
      TypeOK, Bridge
<1>30. CASE Reconfigure
  BY <1>30 DEF Reconfigure, At, Mishap, CaptureFollowsControl, TypeOK, Bridge
<1>31. CASE HelperDies
  BY <1>31 DEF HelperDies, Mishap, Dead, CaptureFollowsControl, TypeOK, Bridge
<1>32. CASE AgentDies
  BY <1>32 DEF AgentDies, AgentAt, Mishap, Down, Starting,
      CaptureFollowsControl, TypeOK, Bridge
<1>33. CASE AgentStarts
  BY <1>33 DEF AgentStarts, AgentAt, At, Starting, CaptureFollowsControl,
      TypeOK, Bridge
<1>34. ASSUME NEW m \in Media, BridgeExits(m) PROVE CaptureFollowsControl'
  BY <1>34 DEF BridgeExits, Mishap, CaptureFollowsControl, TypeOK, Bridge
<1>35. ASSUME NEW m \in Media, SourceExits(m) PROVE CaptureFollowsControl'
  BY <1>35 DEF SourceExits, Mishap, CaptureFollowsControl, TypeOK, Bridge
<1>. QED
  BY <1>1, <1>2, <1>3, <1>4, <1>5, <1>6, <1>7, <1>8, <1>9, <1>10, <1>11, <1>12,
     <1>13, <1>14, <1>15, <1>16, <1>17, <1>18, <1>19, <1>20, <1>21, <1>22,
     <1>23, <1>24, <1>25, <1>26, <1>27, <1>28, <1>29, <1>30, <1>31, <1>32,
     <1>33, <1>34, <1>35
  DEF Next, Broker, Reconcile, Agent, Outside

\* Generations are numbers, -1 for none confirmed yet.
LEMMA Generations ==
    ASSUME TypeOK
    PROVE  /\ control # None => control.generation \in Nat
           /\ agent.reading # None => agent.reading.generation \in Nat
           /\ agent.generation \in Nat \cup {-1}
           /\ status # None => status.generation \in Nat \cup {-1}
  BY DEF TypeOK, Control, Status

\* What the agent and its status file are after it has reported.
LEMMA ReportsWhat ==
    ASSUME NEW a \in AgentType, NEW failed \in BOOLEAN, AgentReports(a, failed)
    PROVE  /\ agent'.pc = "polling" /\ agent'.relays = a.relays
           /\ agent'.generation = a.generation
           /\ status'.generation = a.generation
  BY DEF AgentReports, StatusOf, AgentType

\* The agent serves what it has been through.
LEMMA AgreedStep ==
    ASSUME TypeOK, Told, Agreed, [Next]_vars
    PROVE  Agreed'
<1>. USE DEF hostSide, guestSide
<1>1. CASE UNCHANGED vars
  BY <1>1 DEF vars, Agreed, Working, TypeOK
<1>2. CASE Begin
  BY <1>2 DEF Begin, At, Agreed, Working, TypeOK
<1>3. CASE Revoked
  BY <1>3 DEF Revoked, At, ToRevoke, Agreed, Working, TypeOK
<1>4. CASE Unchanged
  BY <1>4 DEF Unchanged, At, InSync, Agreed, Working, TypeOK
<1>5. CASE Changed
  BY <1>5 DEF Changed, At, Goto, Agreed, Working, TypeOK
<1>6. CASE Unforwarded
  BY <1>6 DEF Unforwarded, At, Goto, Agreed, Working, TypeOK
<1>7. CASE Forwarded
  BY <1>7 DEF Forwarded, At, Goto, Agreed, Working, TypeOK
<1>8. CASE Reverse
  BY <1>8 DEF Reverse, At, Goto, GiveUp, Mishap, Agreed, Working, TypeOK
<1>9. CASE Announce
  <2>1. generation' = generation + 1 /\ generation \in Nat
    BY <1>9 DEF Announce, TypeOK
  <2>2. host.want \in SettingsType /\ host.pc = "announcing"
    BY <1>9 DEF Announce, At, TypeOK
  <2>3. control' = control \/ control' = ControlFor(generation', host.want)
    BY <1>9 DEF Announce
  <2>4. /\ ControlFor(generation', host.want) # None
        /\ ControlFor(generation', host.want).generation = generation'
        /\ ControlFor(generation', host.want).ports
            = GuestPorts(host.want.ports)
        /\ ControlFor(generation', host.want).media = host.want.media
    BY <2>1, <2>2, ControlType, NotNone DEF ControlFor
  <2>5. agent' = agent /\ status' = status
    BY <1>9 DEF Announce
  <2>6. /\ control # None => /\ control.generation \in Nat
                            /\ control.generation < generation'
        /\ agent.generation \in Nat \cup {-1}
        /\ agent.reading # None => agent.reading.generation \in Nat
        /\ status # None => status.generation \in Nat \cup {-1}
    BY <2>1 DEF Told, TypeOK, Control, Status
  <2>. QED
    BY <2>1, <2>3, <2>4, <2>5, <2>6 DEF Agreed, Working
<1>10. CASE Confirmed
  BY <1>10 DEF Confirmed, At, Goto, Agreed, Working, TypeOK
<1>11. CASE NotConfirmed
  BY <1>11 DEF NotConfirmed, At, GiveUp, Mishap, Agreed, Working, TypeOK
<1>12. CASE Apply
  BY <1>12 DEF Apply, At, GiveUp, Agreed, Working, TypeOK
<1>13. CASE EndSession
  BY <1>13 DEF EndSession, At, Down, Starting, Agreed, Working, TypeOK
<1>14. ASSUME NEW m \in Media, Revoke(m) PROVE Agreed'
  BY <1>14 DEF Revoke, At, ToRevoke, RemoveBridge, RemovalFails, RequestFails,
      Mishap, GiveUp, Dead, Agreed, Working, TypeOK
<1>15. ASSUME NEW m \in Media, Healthy(m) PROVE Agreed'
  BY <1>15 DEF Healthy, At, Checkable, Agreed, Working, TypeOK
<1>16. ASSUME NEW m \in Media, Unhealthy(m) PROVE Agreed'
  BY <1>16 DEF Unhealthy, At, Checkable, RemoveBridge, RemovalFails,
      RequestFails, Mishap, GiveUp, Dead, Agreed, Working, TypeOK
<1>17. ASSUME NEW m \in Media, AddRoute(m) PROVE Agreed'
  BY <1>17 DEF AddRoute, At, Missing, Agreed, Working, TypeOK
<1>18. ASSUME NEW m \in Media, AddRouteFails(m) PROVE Agreed'
  BY <1>18 DEF AddRouteFails, At, Missing, GiveUp, RequestFails, Mishap,
      Agreed, Working, TypeOK
<1>19. ASSUME NEW m \in Media, StartBridge(m) PROVE Agreed'
  BY <1>19 DEF StartBridge, At, Agreed, Working, TypeOK
<1>20. ASSUME NEW m \in Media, BridgeFails(m) PROVE Agreed'
  BY <1>20 DEF BridgeFails, At, Mishap, GiveUp, Dead, Agreed, Working, TypeOK
<1>21. ASSUME NEW p \in Mapping, Unforward(p) PROVE Agreed'
  BY <1>21 DEF Unforward, At, RequestFails, Mishap, GiveUp, InDoubt, Agreed,
      Working, TypeOK
<1>22. ASSUME NEW p \in Mapping, Forward(p) PROVE Agreed'
  BY <1>22 DEF Forward, At, Agreed, Working, TypeOK
<1>23. ASSUME NEW p \in Mapping, ForwardFails(p) PROVE Agreed'
  BY <1>23 DEF ForwardFails, At, GiveUp, RequestFails, Mishap, InDoubt, Agreed,
      Working, TypeOK
<1>24. CASE ReadControl
  <2>0. /\ control # None /\ UNCHANGED <<control, status>>
        /\ agent \in AgentType
        /\ agent' = [agent EXCEPT !.pc = "reverse", !.reading = control]
    BY <1>24 DEF ReadControl, AgentAt, TypeOK, AgentType
  <2>1. /\ agent'.pc = "reverse" /\ agent'.reading = control
        /\ agent'.relays = agent.relays
        /\ agent'.generation = agent.generation
    BY <2>0 DEF AgentType
  <2>2. control.ports = GuestPorts(control.ports)
    BY <2>0 DEF Told
  <2>3. /\ agent.generation <= control.generation
        /\ status # None => status.generation <= control.generation
    BY <2>0, Generations DEF Agreed
  <2>. QED
    BY <2>0, <2>1, <2>2, <2>3, Generations DEF Agreed, Working
<1>25. CASE Relay("reverse", "udp")
  <2>0. /\ agent.pc = "reverse" /\ agent.reading # None /\ control # None
        /\ agent.relays \subseteq Mapping /\ agent \in AgentType
        /\ agent.reading.ports = GuestPorts(agent.reading.ports)
        /\ agent.reading.ports \subseteq Mapping
    BY <1>25 DEF Relay, AgentAt, Agreed, Working, TypeOK, AgentType, Control
  <2>. DEFINE kept == {p \in agent.relays :
                        p.kind = "reverse" => p \in agent.reading.ports}
              missing == OfKind(agent.reading.ports, "reverse") \ agent.relays
  <2>1. \A p \in kept \cup missing : p.kind # "tcp"
    BY <2>0 DEF Agreed, OfKind, GuestPorts
  <2>2. OfKind(kept \cup missing, "reverse")
            = OfKind(agent.reading.ports, "reverse")
    BY DEF OfKind
  <2>3. agent.relays = agent.reading.ports =>
            missing = {} /\ kept = agent.relays
    BY DEF OfKind
  <2>4. UNCHANGED control
    BY <1>25 DEF Relay
  <2>5. CASE agent' = [agent EXCEPT !.pc = "udp",
                                    !.relays = kept \cup missing]
             /\ UNCHANGED status
    <3>1. /\ agent'.relays = kept \cup missing /\ agent'.pc = "udp"
          /\ agent'.generation = agent.generation
          /\ agent'.reading = agent.reading
      BY <2>5, <2>0 DEF AgentType
    <3>. QED
      BY <2>0, <2>1, <2>2, <2>3, <2>4, <2>5, <3>1, Generations
      DEF Agreed, Working
  <2>6. ASSUME NEW started \in SUBSET missing, started # missing,
               AgentReports([agent EXCEPT !.relays = kept \cup started], TRUE)
        PROVE  Agreed'
    <3>1. [agent EXCEPT !.relays = kept \cup started] \in AgentType
      BY <2>0 DEF AgentType, OfKind
    <3>2. PICK a \in AgentType :
                a = [agent EXCEPT !.relays = kept \cup started]
      BY <3>1
    <3>3. /\ agent'.pc = "polling" /\ agent'.relays = a.relays
          /\ agent'.generation = a.generation
          /\ status'.generation = a.generation
      BY <2>6, <3>2, ReportsWhat
    <3>4. a.relays = kept \cup started /\ a.generation = agent.generation
      BY <3>2, <2>0 DEF AgentType
    <3>5. agent.generation # -1 /\ agent.generation = control.generation =>
            agent.relays = agent.reading.ports
      BY <2>0, Generations DEF Agreed, Working
    <3>. QED
      BY <2>0, <2>1, <2>3, <2>4, <2>6, <3>3, <3>4, <3>5, Generations
      DEF Agreed, Working
  <2>. QED
    BY <1>25, <2>5, <2>6 DEF Relay
<1>26. CASE Relay("udp", "media")
  <2>0. /\ agent.pc = "udp" /\ agent.reading # None /\ control # None
        /\ agent.relays \subseteq Mapping /\ agent \in AgentType
        /\ agent.reading.ports = GuestPorts(agent.reading.ports)
        /\ agent.reading.ports \subseteq Mapping
    BY <1>26 DEF Relay, AgentAt, Agreed, Working, TypeOK, AgentType, Control
  <2>. DEFINE kept == {p \in agent.relays :
                        p.kind = "udp" => p \in agent.reading.ports}
              missing == OfKind(agent.reading.ports, "udp") \ agent.relays
  <2>1. \A p \in kept \cup missing : p.kind # "tcp"
    BY <2>0 DEF Agreed, OfKind, GuestPorts
  <2>2. OfKind(kept \cup missing, "udp")
            = OfKind(agent.reading.ports, "udp")
    BY DEF OfKind
  <2>3. agent.relays = agent.reading.ports =>
            missing = {} /\ kept = agent.relays
    BY DEF OfKind
  <2>4. UNCHANGED control
    BY <1>26 DEF Relay
  <2>7. OfKind(kept \cup missing, "reverse")
            = OfKind(agent.reading.ports, "reverse")
    BY <2>0 DEF OfKind, Agreed
  <2>8. kept \cup missing = agent.reading.ports
    <3>1. \A p \in Mapping : p.kind \in {"tcp", "udp", "reverse"}
      BY DEF Mapping
    <3>2. kept \cup missing \subseteq Mapping
      BY <2>0 DEF OfKind
    <3>3. \A p \in agent.reading.ports : p.kind \in {"udp", "reverse"}
      BY <2>0 DEF GuestPorts, OfKind
    <3>4. kept \cup missing = OfKind(kept \cup missing, "reverse")
                                \cup OfKind(kept \cup missing, "udp")
      BY <2>1, <3>1, <3>2 DEF OfKind
    <3>5. agent.reading.ports = OfKind(agent.reading.ports, "reverse")
                                \cup OfKind(agent.reading.ports, "udp")
      BY <3>3 DEF OfKind
    <3>. QED
      BY <2>2, <2>7, <3>4, <3>5
  <2>5. CASE agent' = [agent EXCEPT !.pc = "media",
                                    !.relays = kept \cup missing]
             /\ UNCHANGED status
    <3>1. /\ agent'.relays = kept \cup missing /\ agent'.pc = "media"
          /\ agent'.generation = agent.generation
          /\ agent'.reading = agent.reading
      BY <2>5, <2>0 DEF AgentType
    <3>. QED
      BY <2>0, <2>1, <2>2, <2>3, <2>4, <2>5, <3>1, <2>8, Generations
      DEF Agreed, Working
  <2>6. ASSUME NEW started \in SUBSET missing, started # missing,
               AgentReports([agent EXCEPT !.relays = kept \cup started], TRUE)
        PROVE  Agreed'
    <3>1. [agent EXCEPT !.relays = kept \cup started] \in AgentType
      BY <2>0 DEF AgentType, OfKind
    <3>2. PICK a \in AgentType :
                a = [agent EXCEPT !.relays = kept \cup started]
      BY <3>1
    <3>3. /\ agent'.pc = "polling" /\ agent'.relays = a.relays
          /\ agent'.generation = a.generation
          /\ status'.generation = a.generation
      BY <2>6, <3>2, ReportsWhat
    <3>4. a.relays = kept \cup started /\ a.generation = agent.generation
      BY <3>2, <2>0 DEF AgentType
    <3>5. agent.generation # -1 /\ agent.generation = control.generation =>
            agent.relays = agent.reading.ports
      BY <2>0, Generations DEF Agreed, Working
    <3>. QED
      BY <2>0, <2>1, <2>3, <2>4, <2>6, <3>3, <3>4, <3>5, Generations
      DEF Agreed, Working
  <2>. QED
    BY <1>26, <2>5, <2>6 DEF Relay
<1>27. CASE StartSources
  <2>0. /\ agent.pc = "media" /\ agent \in AgentType
    BY <1>27 DEF StartSources, AgentAt, TypeOK, AgentType
  <2>1. UNCHANGED control
    BY <1>27 DEF StartSources
  <2>2. ASSUME agent'.relays = agent.relays, agent'.reading = agent.reading,
               agent'.generation = agent.generation,
               \/ agent'.pc = "listening" /\ UNCHANGED status
               \/ agent'.pc = "polling" /\ UNCHANGED status
               \/ /\ agent'.pc = "polling"
                  /\ status'.generation = agent.generation
        PROVE  Agreed'
    BY <2>0, <2>1, <2>2, Generations DEF Agreed, Working
  <2>. DEFINE sourced(done) ==
            [m \in Media |-> IF m \notin done THEN agent.sources[m]
                            ELSE IF Wanted(m) THEN "running" ELSE "none"]
              left(m, done) == [agent EXCEPT
                            !.sources = [sourced(done) EXCEPT ![m] = "none"]]
  <2>3. CASE agent' = [agent EXCEPT !.pc = "listening",
                                    !.sources = sourced(Media)]
             /\ UNCHANGED status
    BY <2>0, <2>2, <2>3 DEF AgentType
  <2>4. ASSUME NEW m \in Media, NEW done \in SUBSET Media,
               \/ AgentReports(left(m, done), TRUE)
               \/ /\ agent' = [left(m, done) EXCEPT !.pc = "polling"]
                  /\ UNCHANGED status
        PROVE  Agreed'
    <3>1. agent'.relays = agent.relays /\ agent'.reading = agent.reading
      BY <2>0, <2>4 DEF AgentType, AgentReports
    <3>2. agent'.generation = agent.generation /\ agent'.pc = "polling"
      BY <2>0, <2>4 DEF AgentType, AgentReports
    <3>3. UNCHANGED status \/ status'.generation = agent.generation
      BY <2>0, <2>4 DEF AgentType, AgentReports, StatusOf
    <3>. QED
      BY <2>2, <3>1, <3>2, <3>3
  <2>. QED
    BY <1>27, <2>3, <2>4 DEF StartSources
<1>28. CASE Publish
  <2>0. /\ agent.pc = "listening" /\ agent \in AgentType
        /\ UNCHANGED control
    BY <1>28 DEF Publish, AgentAt, TypeOK, AgentType
  <2>1. agent.reading # None /\ agent.reading.generation \in Nat
    BY <2>0, Generations DEF Agreed, Working
  <2>2. PICK a \in AgentType :
            a = [agent EXCEPT !.generation = agent.reading.generation]
    BY <2>0, <2>1 DEF AgentType
  <2>3. /\ a.relays = agent.relays
        /\ a.generation = agent.reading.generation
    BY <2>0, <2>2 DEF AgentType
  <2>4. /\ agent'.pc = "polling" /\ agent'.relays = a.relays
        /\ agent'.generation = a.generation
        /\ status'.generation = a.generation
    BY <1>28, <2>2, ReportsWhat DEF Publish
  <2>. QED
    BY <2>0, <2>1, <2>3, <2>4, Generations DEF Agreed, Working
<1>29. ASSUME NEW m \in Media, Hear(m) PROVE Agreed'
  <2>0. /\ agent.pc = "listening" /\ agent \in AgentType
    BY <1>29 DEF Hear, AgentAt, TypeOK, AgentType
  <2>1. UNCHANGED control
    BY <1>29 DEF Hear
  <2>2. ASSUME agent'.relays = agent.relays, agent'.reading = agent.reading,
               agent'.generation = agent.generation,
               \/ agent'.pc = "listening" /\ UNCHANGED status
               \/ agent'.pc = "polling" /\ UNCHANGED status
               \/ /\ agent'.pc = "polling"
                  /\ status'.generation = agent.generation
        PROVE  Agreed'
    BY <2>0, <2>1, <2>2, Generations DEF Agreed, Working
  <2>3. CASE agent' = [agent EXCEPT !.heard = @ \cup {m}] /\ UNCHANGED status
    BY <2>0, <2>2, <2>3 DEF AgentType
  <2>4. CASE AgentReports(agent, TRUE)
    BY <2>0, <2>2, <2>4, ReportsWhat DEF AgentType, AgentReports, StatusOf
  <2>5. CASE AgentReports([agent EXCEPT !.sources[m] = "none"], TRUE)
    BY <2>0, <2>2, <2>5 DEF AgentType, AgentReports, StatusOf
  <2>. QED
    BY <1>29, <2>3, <2>4, <2>5 DEF Hear
<1>30. CASE Reconfigure
  BY <1>30 DEF Reconfigure, At, Mishap, Agreed, Working, TypeOK
<1>31. CASE HelperDies
  BY <1>31 DEF HelperDies, Mishap, Dead, Agreed, Working, TypeOK
<1>32. CASE AgentDies
  <2>0. agent' = Down /\ UNCHANGED control
    BY <1>32 DEF AgentDies
  <2>1. agent'.pc = "down" /\ agent'.relays = {} /\ agent'.generation = -1
    BY <2>0 DEF Down, Starting
  <2>2. UNCHANGED status \/ status'.generation = agent.generation
    BY <1>32 DEF AgentDies, StatusOf, Down, Starting
  <2>. QED
    BY <2>0, <2>1, <2>2, Generations DEF Agreed, Working
<1>33. CASE AgentStarts
  BY <1>33 DEF AgentStarts, AgentAt, At, Starting, Agreed, Working, TypeOK
<1>34. ASSUME NEW m \in Media, BridgeExits(m) PROVE Agreed'
  BY <1>34 DEF BridgeExits, Mishap, Agreed, Working, TypeOK
<1>35. ASSUME NEW m \in Media, SourceExits(m) PROVE Agreed'
  BY <1>35 DEF SourceExits, Mishap, Agreed, Working, TypeOK
<1>. QED
  BY <1>1, <1>2, <1>3, <1>4, <1>5, <1>6, <1>7, <1>8, <1>9, <1>10, <1>11, <1>12,
     <1>13, <1>14, <1>15, <1>16, <1>17, <1>18, <1>19, <1>20, <1>21, <1>22,
     <1>23, <1>24, <1>25, <1>26, <1>27, <1>28, <1>29, <1>30, <1>31, <1>32,
     <1>33, <1>34, <1>35
  DEF Next, Broker, Reconcile, Agent, Outside

\* What a successful attempt leaves.
LEMMA SettledStep ==
    ASSUME TypeOK, Told, Agreed, Settled, [Next]_vars
    PROVE  Settled'
<1>. USE DEF hostSide, guestSide
<1>1. CASE UNCHANGED vars
  BY <1>1 DEF vars, Settled, Working, At
<1>2. CASE Begin
  BY <1>2 DEF Begin, At, Settled, Working
<1>3. CASE Revoked
  BY <1>3 DEF Revoked, At, ToRevoke, Settled, Working
<1>4. CASE Unchanged
  <2>1. /\ HostMatches(host.want) /\ GuestMatches(host.want)
            => /\ active = host.want.ports
               /\ \A m \in Media :
                    IF bridges[m] = None THEN host.want.media[m] = None
                    ELSE bridges[m].target = host.want.media[m]
               /\ control = ControlFor(generation, host.want)
               /\ agent.generation \in {-1, generation}
               /\ Working => agent.reading.generation = generation
    <3>. SUFFICES ASSUME HostMatches(host.want), GuestMatches(host.want)
                  PROVE  /\ agent.generation \in {-1, generation}
                         /\ Working => agent.reading.generation = generation
      BY DEF HostMatches, GuestMatches
    <3>1. /\ status # None /\ status.generation = generation
          /\ generation \in Nat
          /\ control = ControlFor(generation, host.want)
      BY DEF GuestMatches, StatusMatches, TypeOK
    <3>2. control # None /\ control.generation = generation
      BY <3>1 DEF ControlFor, Agreed
    <3>. QED
      BY <3>1, <3>2, Generations DEF Agreed
  <2>2. UNCHANGED <<agent, control, generation, applied, active, bridges>>
    BY <1>4 DEF Unchanged, hostSide, guestSide
  <2>3. host'.want = host.want
    BY <1>4 DEF Unchanged, TypeOK
  <2>. QED
    BY <1>4, <2>1, <2>2, <2>3 DEF Unchanged, InSync, Settled, Working
<1>5. CASE Changed
  BY <1>5 DEF Changed, At, Goto, Settled, Working
<1>6. CASE Unforwarded
  BY <1>6 DEF Unforwarded, At, Goto, Settled, Working
<1>7. CASE Forwarded
  BY <1>7 DEF Forwarded, At, Goto, Settled, Working
<1>8. CASE Reverse
  <2>1. host'.pc # "idle" \/ report' = "retry"
    BY <1>8 DEF Reverse, Goto, GiveUp, TypeOK
  <2>. QED
    BY <2>1 DEF Settled, At
<1>9. CASE Announce
  <2>1. host'.pc # "idle" \/ report' = "retry"
    BY <1>9 DEF Announce, Goto, GiveUp, TypeOK
  <2>. QED
    BY <2>1 DEF Settled, At
<1>10. CASE Confirmed
  BY <1>10 DEF Confirmed, At, Goto, Settled, Working
<1>11. CASE NotConfirmed
  BY <1>11 DEF NotConfirmed, At, GiveUp, Mishap, Settled, Working
<1>12. CASE Apply
  <2>1. /\ HostMatches(host.want) /\ GuestMatches(host.want)
            => /\ active = host.want.ports
               /\ \A m \in Media :
                    IF bridges[m] = None THEN host.want.media[m] = None
                    ELSE bridges[m].target = host.want.media[m]
               /\ control = ControlFor(generation, host.want)
               /\ agent.generation \in {-1, generation}
               /\ Working => agent.reading.generation = generation
    <3>. SUFFICES ASSUME HostMatches(host.want), GuestMatches(host.want)
                  PROVE  /\ agent.generation \in {-1, generation}
                         /\ Working => agent.reading.generation = generation
      BY DEF HostMatches, GuestMatches
    <3>1. /\ status # None /\ status.generation = generation
          /\ generation \in Nat
          /\ control = ControlFor(generation, host.want)
      BY DEF GuestMatches, StatusMatches, TypeOK
    <3>2. control # None /\ control.generation = generation
      BY <3>1 DEF ControlFor, Agreed
    <3>. QED
      BY <3>1, <3>2, Generations DEF Agreed
  <2>2. UNCHANGED <<agent, control, generation, active, bridges>>
    BY <1>12 DEF Apply, guestSide
  <2>3. host'.want = host.want
    BY <1>12 DEF Apply, GiveUp, TypeOK
  <2>. QED
    BY <1>12, <2>1, <2>2, <2>3 DEF Apply, GiveUp, Settled, Working, At
<1>13. CASE EndSession
  BY <1>13 DEF EndSession, At, Down, Starting, Settled, Working
<1>14. ASSUME NEW m \in Media, Revoke(m) PROVE Settled'
  BY <1>14 DEF Revoke, At, ToRevoke, RemoveBridge, RemovalFails, RequestFails,
      Mishap, GiveUp, Dead, Settled, Working
<1>15. ASSUME NEW m \in Media, Healthy(m) PROVE Settled'
  BY <1>15 DEF Healthy, At, Checkable, Settled, Working
<1>16. ASSUME NEW m \in Media, Unhealthy(m) PROVE Settled'
  <2>1. host'.pc # "idle" \/ report' = "retry"
    BY <1>16 DEF Unhealthy, Checkable, At, GiveUp, RemovalFails, TypeOK
  <2>. QED
    BY <2>1 DEF Settled, At
<1>17. ASSUME NEW m \in Media, AddRoute(m) PROVE Settled'
  BY <1>17 DEF AddRoute, At, Missing, Settled, Working
<1>18. ASSUME NEW m \in Media, AddRouteFails(m) PROVE Settled'
  BY <1>18 DEF AddRouteFails, At, Missing, GiveUp, RequestFails, Mishap,
      Settled, Working
<1>19. ASSUME NEW m \in Media, StartBridge(m) PROVE Settled'
  BY <1>19 DEF StartBridge, At, Settled, Working
<1>20. ASSUME NEW m \in Media, BridgeFails(m) PROVE Settled'
  BY <1>20 DEF BridgeFails, At, Mishap, GiveUp, Dead, Settled, Working
<1>21. ASSUME NEW p \in Mapping, Unforward(p) PROVE Settled'
  BY <1>21 DEF Unforward, At, RequestFails, Mishap, GiveUp, InDoubt, Settled,
      Working
<1>22. ASSUME NEW p \in Mapping, Forward(p) PROVE Settled'
  BY <1>22 DEF Forward, At, Settled, Working
<1>23. ASSUME NEW p \in Mapping, ForwardFails(p) PROVE Settled'
  BY <1>23 DEF ForwardFails, At, GiveUp, RequestFails, Mishap, InDoubt,
      Settled, Working
<1>24. CASE ReadControl
  <2>1. UNCHANGED <<host, report, generation, applied, active, bridges,
                    control>>
    BY <1>24 DEF ReadControl
  <2>2. /\ agent'.generation = agent.generation
        /\ agent'.reading = control
    BY <1>24 DEF ReadControl, TypeOK
  <2>. QED
    BY <2>1, <2>2 DEF Settled, At, ControlFor
<1>25. CASE Relay("reverse", "udp")
  <2>1. UNCHANGED <<host, report, generation, applied, active, bridges,
                    control>>
    BY <1>25 DEF Relay
  <2>2. /\ agent'.generation \in {-1, agent.generation}
        /\ Working' => Working /\ agent'.reading = agent.reading
    BY <1>25 DEF Relay, AgentAt, Working, AgentReports, AgentType,
       TypeOK
  <2>. QED
    BY <2>1, <2>2 DEF Settled, At
<1>26. CASE Relay("udp", "media")
  <2>1. UNCHANGED <<host, report, generation, applied, active, bridges,
                    control>>
    BY <1>26 DEF Relay
  <2>2. /\ agent'.generation \in {-1, agent.generation}
        /\ Working' => Working /\ agent'.reading = agent.reading
    BY <1>26 DEF Relay, AgentAt, Working, AgentReports, AgentType,
       TypeOK
  <2>. QED
    BY <2>1, <2>2 DEF Settled, At
<1>27. CASE StartSources
  <2>1. UNCHANGED <<host, report, generation, applied, active, bridges,
                    control>>
    BY <1>27 DEF StartSources
  <2>2. /\ agent'.generation \in {-1, agent.generation}
        /\ Working' => Working /\ agent'.reading = agent.reading
    BY <1>27 DEF StartSources, AgentAt, Working, AgentReports, AgentType,
       TypeOK
  <2>. QED
    BY <2>1, <2>2 DEF Settled, At
<1>28. CASE Publish
  <2>1. UNCHANGED <<host, report, generation, applied, active, bridges,
                    control>>
    BY <1>28 DEF Publish
  <2>2. /\ agent'.generation = agent.reading.generation
        /\ agent'.pc = "polling" /\ Working
    BY <1>28 DEF Publish, AgentAt, AgentReports, TypeOK, Working
  <2>. QED
    BY <2>1, <2>2 DEF Settled, At, Working
<1>29. ASSUME NEW m \in Media, Hear(m) PROVE Settled'
  <2>1. UNCHANGED <<host, report, generation, applied, active, bridges,
                    control>>
    BY <1>29 DEF Hear
  <2>2. /\ agent'.generation \in {-1, agent.generation}
        /\ Working' => Working /\ agent'.reading = agent.reading
    BY <1>29 DEF Hear, AgentAt, Working, AgentReports, AgentType,
       TypeOK
  <2>. QED
    BY <2>1, <2>2 DEF Settled, At
<1>30. CASE Reconfigure
  BY <1>30 DEF Reconfigure, At, Mishap, Settled, Working
<1>31. CASE HelperDies
  BY <1>31 DEF HelperDies, Mishap, Dead, Settled, Working, At
<1>32. CASE AgentDies
  <2>1. UNCHANGED <<host, report, generation, applied, active, bridges,
                    control>>
    BY <1>32 DEF AgentDies
  <2>2. /\ agent'.generation \in {-1, agent.generation}
        /\ Working' => Working /\ agent'.reading = agent.reading
    BY <1>32 DEF AgentDies, AgentAt, Working, AgentReports, AgentType,
       TypeOK, Down, Starting
  <2>. QED
    BY <2>1, <2>2 DEF Settled, At
<1>33. CASE AgentStarts
  <2>1. UNCHANGED <<host, report, generation, applied, active, bridges,
                    control>>
    BY <1>33 DEF AgentStarts
  <2>2. /\ agent'.generation \in {-1, agent.generation}
        /\ Working' => Working /\ agent'.reading = agent.reading
    BY <1>33 DEF AgentStarts, AgentAt, Working, AgentReports, AgentType,
       TypeOK, Starting
  <2>. QED
    BY <2>1, <2>2 DEF Settled, At
<1>34. ASSUME NEW m \in Media, BridgeExits(m) PROVE Settled'
  <2>1. UNCHANGED <<host, report, generation, applied, active, agent, control>>
    BY <1>34 DEF BridgeExits
  <2>2. \A n \in Media : /\ bridges'[n] = None <=> bridges[n] = None
                         /\ bridges[n] # None =>
                                bridges'[n].target = bridges[n].target
    BY <1>34, DeadBridge, NotNone DEF BridgeExits, TypeOK, Bridge
  <2>. QED
    BY <2>1, <2>2 DEF Settled, Working, At
<1>35. ASSUME NEW m \in Media, SourceExits(m) PROVE Settled'
  <2>1. UNCHANGED <<host, report, generation, applied, active, bridges,
                    control>>
    BY <1>35 DEF SourceExits
  <2>2. /\ agent'.generation \in {-1, agent.generation}
        /\ Working' => Working /\ agent'.reading = agent.reading
    BY <1>35 DEF SourceExits, AgentAt, Working, AgentReports, AgentType,
       TypeOK
  <2>. QED
    BY <2>1, <2>2 DEF Settled, At
<1>. QED
  BY <1>1, <1>2, <1>3, <1>4, <1>5, <1>6, <1>7, <1>8, <1>9, <1>10, <1>11, <1>12,
     <1>13, <1>14, <1>15, <1>16, <1>17, <1>18, <1>19, <1>20, <1>21, <1>22,
     <1>23, <1>24, <1>25, <1>26, <1>27, <1>28, <1>29, <1>30, <1>31, <1>32,
     <1>33, <1>34, <1>35
  DEF Next, Broker, Reconcile, Agent, Outside

\* The parts of the type invariant that several steps disturb.
HostType ==
    [pc : HostPc, want : SettingsType, todo : SUBSET Media, removed : BOOLEAN,
     starting : Media \cup {None}]

SlirpType ==
    [alive : BOOLEAN, forwards : SUBSET Ends, routes : [Media -> Nat]]

DoubtType == [forwards : SUBSET Ends, routes : [Media -> Nat]]

BudgetType == [change : Nat, mishap : Nat]

\* An attempt that is given up leaves the broker between attempts.
LEMMA GiveUpType ==
    ASSUME TypeOK, GiveUp
    PROVE  host' \in HostType /\ report' = "retry"
  BY DEF TypeOK, GiveUp, HostType, HostPc

\* A failed request takes at most one from the budget.
LEMMA RequestFailsType ==
    ASSUME TypeOK, RequestFails \/ Mishap \/ UNCHANGED budget
    PROVE  budget' \in BudgetType
  BY MishapType DEF TypeOK, RequestFails, BudgetType

\* A dead helper is a helper.
LEMMA DeadType == Dead \in SlirpType
  BY DEF Dead, SlirpType, NoRoutes

\* A route that is removed is one that was counted.
LEMMA RoutesType ==
    ASSUME TypeOK, Hands, Routed, NEW m \in Media
    PROVE  /\ [slirp EXCEPT !.routes[m] = @ + 1] \in SlirpType
           /\ slirp.alive /\ (bridges[m] # None \/ host.starting = m) =>
                [slirp EXCEPT !.routes[m] = @ - 1] \in SlirpType
<1>1. slirp \in SlirpType /\ slirp.routes[m] \in Nat
  BY DEF TypeOK, SlirpType
<1>2. slirp.routes[m] + 1 \in Nat
  BY <1>1
<1>3. slirp.alive /\ (bridges[m] # None \/ host.starting = m) =>
        slirp.routes[m] - 1 \in Nat
  <2>1. unanswered.routes[m] \in Nat
    BY DEF TypeOK
  <2>2. bridges[m] # None \/ host.starting = m => Own(m) + Pending(m) >= 1
    BY DEF Own, Pending
  <2>3. Own(m) \in {0, 1} /\ Pending(m) \in {0, 1}
    BY DEF Own, Pending
  <2>. QED
    BY <1>1, <2>1, <2>2, <2>3 DEF Routed
<1>. QED
  BY <1>1, <1>2, <1>3 DEF SlirpType

\* A forward's end is an end.
LEMMA ForwardsType ==
    ASSUME TypeOK, NEW p \in Mapping
    PROVE  /\ [slirp EXCEPT !.forwards = @ \ {p.end}] \in SlirpType
           /\ [slirp EXCEPT !.forwards = @ \cup {p.end}] \in SlirpType
           /\ [unanswered EXCEPT !.forwards = @ \cup {p.end}] \in DoubtType
  BY DEF TypeOK, SlirpType, DoubtType, Mapping

\* An agent's relays and sources stay what they are.
LEMMA AgentKeepsType ==
    ASSUME NEW a \in AgentType, NEW relays \in SUBSET Mapping,
           NEW sources \in Sources, NEW pc \in AgentPc
    PROVE  /\ [a EXCEPT !.pc = pc, !.relays = relays] \in AgentType
           /\ [a EXCEPT !.relays = relays] \in AgentType
           /\ [a EXCEPT !.pc = pc, !.sources = sources] \in AgentType
           /\ [a EXCEPT !.sources = sources] \in AgentType
           /\ [a EXCEPT !.pc = pc] \in AgentType
  BY DEF AgentType

\* The types are kept.
LEMMA TypeStep ==
    ASSUME TypeOK, Hands, Routed, Agreed, [Next]_vars
    PROVE  TypeOK'
<1>. USE DEF hostSide, guestSide
<1>1. CASE UNCHANGED vars
  BY <1>1 DEF vars, TypeOK, HostPc, AgentPc
<1>2. CASE Begin
  BY <1>2 DEF Begin, At, TypeOK, HostPc, AgentPc
<1>3. CASE Revoked
  BY <1>3 DEF Revoked, At, ToRevoke, TypeOK, HostPc, AgentPc
<1>4. CASE Unchanged
  BY <1>4 DEF Unchanged, At, InSync, TypeOK, HostPc, AgentPc
<1>5. CASE Changed
  BY <1>5 DEF Changed, At, Goto, TypeOK, HostPc, AgentPc
<1>6. CASE Unforwarded
  BY <1>6 DEF Unforwarded, At, Goto, TypeOK, HostPc, AgentPc
<1>7. CASE Forwarded
  BY <1>7 DEF Forwarded, At, Goto, TypeOK, HostPc, AgentPc
<1>8. CASE Reverse
  <2>1. active' \subseteq Mapping
    BY <1>8 DEF Reverse, OfKind, TypeOK, SettingsType
  <2>2. host' \in HostType /\ report' \in {"none", "ready", "retry"}
    BY <1>8, GiveUpType DEF Reverse, Goto, TypeOK, HostType, HostPc
  <2>3. budget' \in BudgetType
    BY <1>8, RequestFailsType DEF Reverse
  <2>4. UNCHANGED <<config, generation, applied, bridges, slirp, control,
                    status, agent, unanswered>>
    BY <1>8 DEF Reverse
  <2>. QED
    BY <2>1, <2>2, <2>3, <2>4
    DEF TypeOK, HostType, SlirpType, DoubtType, BudgetType, AgentType
<1>9. CASE Announce
  <2>1. generation' \in Nat /\ control' \in Control \cup {None}
    <3>1. generation' = generation + 1 /\ generation \in Nat
          /\ host.want \in SettingsType
      BY <1>9 DEF Announce, TypeOK
    <3>2. ControlFor(generation', host.want) \in Control
      BY <3>1, ControlType
    <3>. QED
      BY <1>9, <3>1, <3>2 DEF Announce, TypeOK
  <2>2. host' \in HostType /\ report' \in {"none", "ready", "retry"}
    BY <1>9, GiveUpType DEF Announce, Goto, TypeOK, HostType, HostPc
  <2>3. budget' \in BudgetType
    BY <1>9, RequestFailsType DEF Announce
  <2>4. UNCHANGED <<config, applied, active, bridges, slirp, status, agent,
                    unanswered>>
    BY <1>9 DEF Announce
  <2>. QED
    BY <2>1, <2>2, <2>3, <2>4
    DEF TypeOK, HostType, SlirpType, DoubtType, BudgetType, AgentType
<1>10. CASE Confirmed
  BY <1>10 DEF Confirmed, At, Goto, TypeOK, HostPc, AgentPc
<1>11. CASE NotConfirmed
  <2>1. host' \in HostType /\ report' \in {"none", "ready", "retry"}
    BY <1>11, GiveUpType DEF NotConfirmed, Goto, TypeOK, HostType, HostPc
  <2>2. budget' \in BudgetType
    BY <1>11, RequestFailsType DEF NotConfirmed
  <2>3. UNCHANGED <<config, generation, applied, active, bridges, slirp,
                    control, status, agent, unanswered>>
    BY <1>11 DEF NotConfirmed
  <2>. QED
    BY <2>1, <2>2, <2>3
    DEF TypeOK, HostType, SlirpType, DoubtType, BudgetType, AgentType
<1>12. CASE Apply
  <2>1. host' \in HostType /\ report' \in {"none", "ready", "retry"}
    BY <1>12, GiveUpType DEF Apply, Goto, TypeOK, HostType, HostPc
  <2>2. applied' \in SettingsType
    BY <1>12 DEF Apply, TypeOK
  <2>3. UNCHANGED <<config, generation, active, bridges, slirp, control,
                    status, agent, unanswered, budget>>
    BY <1>12 DEF Apply
  <2>. QED
    BY <2>1, <2>2, <2>3
    DEF TypeOK, HostType, SlirpType, DoubtType, BudgetType, AgentType
<1>13. CASE EndSession
  <2>1. host' \in HostType /\ report' \in {"none", "ready", "retry"}
    BY <1>13, GiveUpType DEF EndSession, Goto, TypeOK, HostType, HostPc
  <2>2. active' \subseteq Mapping /\ bridges' \in [Media -> Bridge \cup {None}]
    BY <1>13 DEF EndSession
  <2>3. agent' \in AgentType
    BY <1>13, StartingType DEF EndSession
  <2>4. UNCHANGED <<config, generation, applied, slirp, control, status,
                    unanswered, budget>>
    BY <1>13 DEF EndSession
  <2>. QED
    BY <2>1, <2>2, <2>3, <2>4
    DEF TypeOK, HostType, SlirpType, DoubtType, BudgetType, AgentType
<1>14. ASSUME NEW m \in Media, Revoke(m) PROVE TypeOK'
  <2>1. slirp' \in SlirpType /\ bridges' \in [Media -> Bridge \cup {None}]
    <3>1. bridges[m] # None
      BY <1>14 DEF Revoke, ToRevoke, Checkable, At, Hands
    <3>2. CASE RemoveBridge(m)
      BY <3>1, <3>2, RoutesType DEF RemoveBridge, TypeOK
    <3>3. CASE RemovalFails(m)
      BY <3>1, <3>3, DeadType, DeadBridge DEF RemovalFails
    <3>. QED
      BY <1>14, <3>2, <3>3 DEF Revoke
  <2>2. host' \in HostType /\ report' \in {"none", "ready", "retry"}
    BY <1>14, GiveUpType DEF Revoke, Goto, TypeOK, HostType, HostPc,
        RemovalFails
  <2>3. budget' \in BudgetType
    BY <1>14, RequestFailsType DEF Revoke, RemovalFails
  <2>4. UNCHANGED <<config, generation, applied, active, control, status,
                    agent, unanswered>>
    BY <1>14 DEF Revoke
  <2>. QED
    BY <2>1, <2>2, <2>3, <2>4
    DEF TypeOK, HostType, SlirpType, DoubtType, BudgetType, AgentType
<1>15. ASSUME NEW m \in Media, Healthy(m) PROVE TypeOK'
  BY <1>15 DEF Healthy, At, Checkable, TypeOK, HostPc, AgentPc
<1>16. ASSUME NEW m \in Media, Unhealthy(m) PROVE TypeOK'
  <2>1. slirp' \in SlirpType /\ bridges' \in [Media -> Bridge \cup {None}]
    <3>1. bridges[m] # None
      BY <1>16 DEF Unhealthy, ToRevoke, Checkable, At, Hands
    <3>2. CASE RemoveBridge(m)
      BY <3>1, <3>2, RoutesType DEF RemoveBridge, TypeOK
    <3>3. CASE RemovalFails(m)
      BY <3>1, <3>3, DeadType, DeadBridge DEF RemovalFails
    <3>. QED
      BY <1>16, <3>2, <3>3 DEF Unhealthy
  <2>2. host' \in HostType /\ report' \in {"none", "ready", "retry"}
    <3>1. \/ /\ host' = [host EXCEPT !.todo = @ \ {m}, !.removed = TRUE]
             /\ UNCHANGED report
          \/ GiveUp
      BY <1>16 DEF Unhealthy, RemovalFails
    <3>2. CASE /\ host' = [host EXCEPT !.todo = @ \ {m}, !.removed = TRUE]
               /\ UNCHANGED report
      BY <3>2 DEF TypeOK, HostType
    <3>3. CASE GiveUp
      BY <3>3, GiveUpType
    <3>. QED
      BY <3>1, <3>2, <3>3
  <2>3. budget' \in BudgetType
    BY <1>16, RequestFailsType DEF Unhealthy, RemovalFails
  <2>4. UNCHANGED <<config, generation, applied, active, control, status,
                    agent, unanswered>>
    BY <1>16 DEF Unhealthy
  <2>. QED
    BY <2>1, <2>2, <2>3, <2>4
    DEF TypeOK, HostType, SlirpType, DoubtType, BudgetType, AgentType
<1>17. ASSUME NEW m \in Media, AddRoute(m) PROVE TypeOK'
  <2>1. slirp' \in SlirpType
    BY <1>17, RoutesType DEF AddRoute
  <2>2. host' \in HostType /\ report' \in {"none", "ready", "retry"}
    BY <1>17, GiveUpType DEF AddRoute, Goto, TypeOK, HostType, HostPc
  <2>3. UNCHANGED <<config, generation, applied, active, bridges, control,
                    status, agent, unanswered, budget>>
    BY <1>17 DEF AddRoute
  <2>. QED
    BY <2>1, <2>2, <2>3
    DEF TypeOK, HostType, SlirpType, DoubtType, BudgetType, AgentType
<1>18. ASSUME NEW m \in Media, AddRouteFails(m) PROVE TypeOK'
  <2>1. slirp' \in SlirpType
    BY <1>18, RoutesType DEF AddRouteFails, TypeOK, SlirpType
  <2>2. host' \in HostType /\ report' \in {"none", "ready", "retry"}
    BY <1>18, GiveUpType DEF AddRouteFails, Goto, TypeOK, HostType, HostPc
  <2>3. unanswered' \in DoubtType
    BY <1>18 DEF AddRouteFails, TypeOK, DoubtType
  <2>4. budget' \in BudgetType
    BY <1>18, RequestFailsType DEF AddRouteFails
  <2>5. UNCHANGED <<config, generation, applied, active, bridges, control,
                    status, agent>>
    BY <1>18 DEF AddRouteFails
  <2>. QED
    BY <2>1, <2>2, <2>3, <2>4, <2>5
    DEF TypeOK, HostType, SlirpType, DoubtType, BudgetType, AgentType
<1>19. ASSUME NEW m \in Media, StartBridge(m) PROVE TypeOK'
  <2>1. bridges' \in [Media -> Bridge \cup {None}]
    <3>1. /\ host.want.media[m] # None
          /\ host.want.media[m] \in Targets \cup {None}
      BY <1>19 DEF StartBridge, At, Hands, Missing, TypeOK, SettingsType
    <3>2. [target |-> host.want.media[m], alive |-> TRUE] \in Bridge
      BY <3>1 DEF Bridge
    <3>. QED
      BY <1>19, <3>2 DEF StartBridge, TypeOK
  <2>2. host' \in HostType /\ report' \in {"none", "ready", "retry"}
    BY <1>19, GiveUpType DEF StartBridge, Goto, TypeOK, HostType, HostPc
  <2>3. UNCHANGED <<config, generation, applied, active, slirp, control,
                    status, agent, unanswered, budget>>
    BY <1>19 DEF StartBridge
  <2>. QED
    BY <2>1, <2>2, <2>3
    DEF TypeOK, HostType, SlirpType, DoubtType, BudgetType, AgentType
<1>20. ASSUME NEW m \in Media, BridgeFails(m) PROVE TypeOK'
  <2>1. slirp' \in SlirpType
    BY <1>20, RoutesType, DeadType DEF BridgeFails
  <2>2. host' \in HostType /\ report' \in {"none", "ready", "retry"}
    BY <1>20, GiveUpType DEF BridgeFails, Goto, TypeOK, HostType, HostPc
  <2>3. budget' \in BudgetType
    BY <1>20, RequestFailsType DEF BridgeFails
  <2>4. UNCHANGED <<config, generation, applied, active, bridges, control,
                    status, agent, unanswered>>
    BY <1>20 DEF BridgeFails
  <2>. QED
    BY <2>1, <2>2, <2>3, <2>4
    DEF TypeOK, HostType, SlirpType, DoubtType, BudgetType, AgentType
<1>21. ASSUME NEW p \in Mapping, Unforward(p) PROVE TypeOK'
  <2>1. active' \subseteq Mapping
    BY <1>21 DEF Unforward, TypeOK
  <2>2. slirp' \in SlirpType
    BY <1>21, ForwardsType DEF Unforward, TypeOK, SlirpType
  <2>3. host' \in HostType /\ report' \in {"none", "ready", "retry"}
    BY <1>21, GiveUpType DEF Unforward, Goto, TypeOK, HostType, HostPc
  <2>4. unanswered' \in DoubtType
    BY <1>21, ForwardsType DEF Unforward, InDoubt, TypeOK, DoubtType
  <2>5. budget' \in BudgetType
    BY <1>21, RequestFailsType DEF Unforward
  <2>6. UNCHANGED <<config, generation, applied, bridges, control, status,
                    agent>>
    BY <1>21 DEF Unforward
  <2>. QED
    BY <2>1, <2>2, <2>3, <2>4, <2>5, <2>6
    DEF TypeOK, HostType, SlirpType, DoubtType, BudgetType, AgentType
<1>22. ASSUME NEW p \in Mapping, Forward(p) PROVE TypeOK'
  <2>1. active' \subseteq Mapping
    BY <1>22 DEF Forward, TypeOK
  <2>2. slirp' \in SlirpType
    BY <1>22, ForwardsType DEF Forward, TypeOK, SlirpType
  <2>3. UNCHANGED <<host, report>>
    BY <1>22 DEF Forward
  <2>4. UNCHANGED budget
    BY <1>22 DEF Forward
  <2>5. UNCHANGED unanswered
    BY <1>22 DEF Forward
  <2>6. UNCHANGED <<config, generation, applied, bridges, control, status,
                    agent>>
    BY <1>22 DEF Forward
  <2>. QED
    BY <2>1, <2>2, <2>3, <2>4, <2>5, <2>6
    DEF TypeOK, HostType, SlirpType, DoubtType, BudgetType, AgentType
<1>23. ASSUME NEW p \in Mapping, ForwardFails(p) PROVE TypeOK'
  <2>1. slirp' \in SlirpType
    BY <1>23, ForwardsType DEF ForwardFails, TypeOK, SlirpType
  <2>2. host' \in HostType /\ report' \in {"none", "ready", "retry"}
    BY <1>23, GiveUpType DEF ForwardFails, Goto, TypeOK, HostType, HostPc
  <2>3. unanswered' \in DoubtType
    BY <1>23, ForwardsType DEF ForwardFails, InDoubt, TypeOK, DoubtType
  <2>4. budget' \in BudgetType
    BY <1>23, RequestFailsType DEF ForwardFails
  <2>5. UNCHANGED <<config, generation, applied, active, bridges, control,
                    status, agent>>
    BY <1>23 DEF ForwardFails
  <2>. QED
    BY <2>1, <2>2, <2>3, <2>4, <2>5
    DEF TypeOK, HostType, SlirpType, DoubtType, BudgetType, AgentType
<1>24. CASE ReadControl
  BY <1>24 DEF ReadControl, AgentAt, TypeOK, HostPc, AgentPc
<1>25. CASE Relay("reverse", "udp")
  <2>1. agent' \in AgentType /\ status' \in Status \cup {None}
    <3>0. agent \in AgentType /\ status \in Status \cup {None}
      BY DEF TypeOK, AgentType
    <3>1. agent.reading # None
      BY <1>25 DEF Relay, AgentAt, Agreed, Working
    <3>2. /\ agent.reading.ports \subseteq Mapping
          /\ agent.relays \subseteq Mapping
      BY <3>1 DEF TypeOK, Control
    <3>. DEFINE kept == {p \in agent.relays :
                        p.kind = "reverse" => p \in agent.reading.ports}
                missing == OfKind(agent.reading.ports, "reverse") \ agent.relays
    <3>3. missing \subseteq Mapping
      BY <3>2 DEF OfKind
    <3>4. CASE agent' = [agent EXCEPT !.pc = "udp",
                                      !.relays = kept \cup missing]
               /\ UNCHANGED status
      <4>1. "udp" \in AgentPc /\ kept \cup missing \subseteq Mapping
        BY <3>2, <3>3 DEF AgentPc
      <4>. QED
        BY <3>0, <3>4, <4>1 DEF AgentType
    <3>5. ASSUME NEW started \in SUBSET missing,
                 AgentReports([agent EXCEPT !.relays = kept \cup started], TRUE)
          PROVE  agent' \in AgentType /\ status' \in Status
      <4>1. kept \cup started \in SUBSET Mapping
        BY <3>2, <3>3
      <4>2. [agent EXCEPT !.relays = kept \cup started] \in AgentType
        BY <3>0, <4>1 DEF AgentType
      <4>. QED
        BY <3>5, <4>2, ReportsType
    <3>. QED
      BY <1>25, <3>0, <3>4, <3>5 DEF Relay
  <2>2. budget' \in BudgetType
    BY <1>25, RequestFailsType DEF Relay
  <2>3. UNCHANGED <<config, host, generation, applied, active, bridges, slirp,
                    control, report, unanswered>>
    BY <1>25 DEF Relay
  <2>. QED
    BY <2>1, <2>2, <2>3
    DEF TypeOK, HostType, SlirpType, DoubtType, BudgetType, AgentType
<1>26. CASE Relay("udp", "media")
  <2>1. agent' \in AgentType /\ status' \in Status \cup {None}
    <3>0. agent \in AgentType /\ status \in Status \cup {None}
      BY DEF TypeOK, AgentType
    <3>1. agent.reading # None
      BY <1>26 DEF Relay, AgentAt, Agreed, Working
    <3>2. /\ agent.reading.ports \subseteq Mapping
          /\ agent.relays \subseteq Mapping
      BY <3>1 DEF TypeOK, Control
    <3>. DEFINE kept == {p \in agent.relays :
                        p.kind = "udp" => p \in agent.reading.ports}
                missing == OfKind(agent.reading.ports, "udp") \ agent.relays
    <3>3. missing \subseteq Mapping
      BY <3>2 DEF OfKind
    <3>4. CASE agent' = [agent EXCEPT !.pc = "media",
                                      !.relays = kept \cup missing]
               /\ UNCHANGED status
      <4>1. "media" \in AgentPc /\ kept \cup missing \subseteq Mapping
        BY <3>2, <3>3 DEF AgentPc
      <4>. QED
        BY <3>0, <3>4, <4>1 DEF AgentType
    <3>5. ASSUME NEW started \in SUBSET missing,
                 AgentReports([agent EXCEPT !.relays = kept \cup started], TRUE)
          PROVE  agent' \in AgentType /\ status' \in Status
      <4>1. kept \cup started \in SUBSET Mapping
        BY <3>2, <3>3
      <4>2. [agent EXCEPT !.relays = kept \cup started] \in AgentType
        BY <3>0, <4>1 DEF AgentType
      <4>. QED
        BY <3>5, <4>2, ReportsType
    <3>. QED
      BY <1>26, <3>0, <3>4, <3>5 DEF Relay
  <2>2. budget' \in BudgetType
    BY <1>26, RequestFailsType DEF Relay
  <2>3. UNCHANGED <<config, host, generation, applied, active, bridges, slirp,
                    control, report, unanswered>>
    BY <1>26 DEF Relay
  <2>. QED
    BY <2>1, <2>2, <2>3
    DEF TypeOK, HostType, SlirpType, DoubtType, BudgetType, AgentType
<1>27. CASE StartSources
  <2>1. agent' \in AgentType /\ status' \in Status \cup {None}
    <3>0. agent \in AgentType /\ status \in Status \cup {None}
      BY DEF TypeOK, AgentType
    <3>. DEFINE sourced(done) ==
            [m \in Media |-> IF m \notin done THEN agent.sources[m]
                            ELSE IF Wanted(m) THEN "running" ELSE "none"]
              left(m, done) == [agent EXCEPT
                            !.sources = [sourced(done) EXCEPT ![m] = "none"]]
    <3>1. \A done \in SUBSET Media : sourced(done) \in Sources
      BY <3>0 DEF AgentType, Sources
    <3>2. CASE agent' = [agent EXCEPT !.pc = "listening",
                                      !.sources = sourced(Media)]
               /\ UNCHANGED status
      <4>1. sourced(Media) \in Sources /\ "listening" \in AgentPc
        BY <3>1 DEF AgentPc
      <4>. QED
        BY <3>0, <3>2, <4>1 DEF AgentType
    <3>3. ASSUME NEW m \in Media, NEW done \in SUBSET Media
          PROVE  left(m, done) \in AgentType
      <4>1. [sourced(done) EXCEPT ![m] = "none"] \in Sources
        BY <3>1 DEF Sources
      <4>. QED
        BY <3>0, <4>1 DEF AgentType
    <3>4. ASSUME NEW m \in Media, NEW done \in SUBSET Media,
                 \/ AgentReports(left(m, done), TRUE)
                 \/ /\ agent' = [left(m, done) EXCEPT !.pc = "polling"]
                    /\ UNCHANGED status
          PROVE  agent' \in AgentType /\ status' \in Status \cup {None}
      <4>1. CASE AgentReports(left(m, done), TRUE)
        BY <3>3, <4>1, ReportsType
      <4>2. CASE agent' = [left(m, done) EXCEPT !.pc = "polling"]
                 /\ UNCHANGED status
        <5>1. "polling" \in AgentPc
          BY DEF AgentPc
        <5>. QED
          BY <3>0, <3>3, <4>2, <5>1 DEF AgentType
      <4>. QED
        BY <3>4, <4>1, <4>2
    <3>. QED
      BY <1>27, <3>2, <3>4 DEF StartSources
  <2>2. budget' \in BudgetType
    BY <1>27, RequestFailsType DEF StartSources
  <2>3. UNCHANGED <<config, host, generation, applied, active, bridges, slirp,
                    control, report, unanswered>>
    BY <1>27 DEF StartSources
  <2>. QED
    BY <2>1, <2>2, <2>3
    DEF TypeOK, HostType, SlirpType, DoubtType, BudgetType, AgentType
<1>28. CASE Publish
  <2>1. agent' \in AgentType /\ status' \in Status \cup {None}
    <3>0. agent \in AgentType /\ status \in Status \cup {None}
      BY DEF TypeOK, AgentType
    <3>1. agent.reading.generation \in Nat
      BY <1>28, Generations DEF Publish, AgentAt, Agreed, Working
    <3>2. [agent EXCEPT !.generation = agent.reading.generation] \in AgentType
      BY <3>0, <3>1 DEF AgentType
    <3>. QED
      BY <1>28, <3>2, ReportsType DEF Publish
  <2>2. UNCHANGED <<config, host, generation, applied, active, bridges, slirp,
                    control, report, unanswered, budget>>
    BY <1>28 DEF Publish
  <2>. QED
    BY <2>1, <2>2
    DEF TypeOK, HostType, SlirpType, DoubtType, BudgetType, AgentType
<1>29. ASSUME NEW m \in Media, Hear(m) PROVE TypeOK'
  <2>1. agent' \in AgentType /\ status' \in Status \cup {None}
    <3>0. agent \in AgentType /\ status \in Status \cup {None}
      BY DEF TypeOK, AgentType
    <3>1. CASE agent' = [agent EXCEPT !.heard = @ \cup {m}] /\ UNCHANGED status
      BY <3>0, <3>1 DEF AgentType
    <3>2. CASE AgentReports(agent, TRUE)
      BY <3>0, <3>2, ReportsType
    <3>3. CASE AgentReports([agent EXCEPT !.sources[m] = "none"], TRUE)
      <4>1. [agent EXCEPT !.sources[m] = "none"] \in AgentType
        BY <3>0 DEF AgentType, Sources
      <4>. QED
        BY <3>3, <4>1, ReportsType
    <3>. QED
      BY <1>29, <3>1, <3>2, <3>3 DEF Hear
  <2>2. budget' \in BudgetType
    BY <1>29, RequestFailsType DEF Hear
  <2>3. UNCHANGED <<config, host, generation, applied, active, bridges, slirp,
                    control, report, unanswered>>
    BY <1>29 DEF Hear
  <2>. QED
    BY <2>1, <2>2, <2>3
    DEF TypeOK, HostType, SlirpType, DoubtType, BudgetType, AgentType
<1>30. CASE Reconfigure
  <2>1. config' \in SettingsType
    BY <1>30, SettingsTyped DEF Reconfigure
  <2>2. budget' \in BudgetType
    BY <1>30 DEF Reconfigure, TypeOK, BudgetType
  <2>3. UNCHANGED <<host, generation, applied, active, bridges, slirp, control,
                    status, agent, report, unanswered>>
    BY <1>30 DEF Reconfigure
  <2>. QED
    BY <2>1, <2>2, <2>3
    DEF TypeOK, HostType, SlirpType, DoubtType, BudgetType, AgentType
<1>31. CASE HelperDies
  <2>1. slirp' \in SlirpType
    BY <1>31, DeadType DEF HelperDies
  <2>2. budget' \in BudgetType
    BY <1>31, RequestFailsType DEF HelperDies
  <2>3. UNCHANGED <<config, host, generation, applied, active, bridges,
                    control, status, agent, report, unanswered>>
    BY <1>31 DEF HelperDies
  <2>. QED
    BY <2>1, <2>2, <2>3
    DEF TypeOK, HostType, SlirpType, DoubtType, BudgetType, AgentType
<1>32. CASE AgentDies
  <2>1. agent' \in AgentType /\ status' \in Status \cup {None}
    <3>0. agent \in AgentType /\ status \in Status \cup {None}
      BY DEF TypeOK, AgentType
    <3>1. [Down EXCEPT !.generation = agent.generation] \in AgentType
      BY <3>0, StartingType DEF AgentType
    <3>. QED
      BY <1>32, <3>0, <3>1, StartingType, StatusType DEF AgentDies
  <2>2. budget' \in BudgetType
    BY <1>32, RequestFailsType DEF AgentDies
  <2>3. UNCHANGED <<config, host, generation, applied, active, bridges, slirp,
                    control, report, unanswered>>
    BY <1>32 DEF AgentDies
  <2>. QED
    BY <2>1, <2>2, <2>3
    DEF TypeOK, HostType, SlirpType, DoubtType, BudgetType, AgentType
<1>33. CASE AgentStarts
  <2>1. agent' \in AgentType
    BY <1>33, StartingType DEF AgentStarts
  <2>2. UNCHANGED <<config, host, generation, applied, active, bridges, slirp,
                    control, status, report, unanswered, budget>>
    BY <1>33 DEF AgentStarts
  <2>. QED
    BY <2>1, <2>2
    DEF TypeOK, HostType, SlirpType, DoubtType, BudgetType, AgentType
<1>34. ASSUME NEW m \in Media, BridgeExits(m) PROVE TypeOK'
  <2>1. bridges' \in [Media -> Bridge \cup {None}]
    BY <1>34, DeadBridge DEF BridgeExits
  <2>2. budget' \in BudgetType
    BY <1>34, RequestFailsType DEF BridgeExits
  <2>3. UNCHANGED <<config, host, generation, applied, active, slirp, control,
                    status, agent, report, unanswered>>
    BY <1>34 DEF BridgeExits
  <2>. QED
    BY <2>1, <2>2, <2>3
    DEF TypeOK, HostType, SlirpType, DoubtType, BudgetType, AgentType
<1>35. ASSUME NEW m \in Media, SourceExits(m) PROVE TypeOK'
  <2>1. agent' \in AgentType
    BY <1>35 DEF SourceExits, TypeOK, AgentType, Sources
  <2>2. budget' \in BudgetType
    BY <1>35, RequestFailsType DEF SourceExits
  <2>3. UNCHANGED <<config, host, generation, applied, active, bridges, slirp,
                    control, status, report, unanswered>>
    BY <1>35 DEF SourceExits
  <2>. QED
    BY <2>1, <2>2, <2>3
    DEF TypeOK, HostType, SlirpType, DoubtType, BudgetType, AgentType
<1>. QED
  BY <1>1, <1>2, <1>3, <1>4, <1>5, <1>6, <1>7, <1>8, <1>9, <1>10, <1>11, <1>12,
     <1>13, <1>14, <1>15, <1>16, <1>17, <1>18, <1>19, <1>20, <1>21, <1>22,
     <1>23, <1>24, <1>25, <1>26, <1>27, <1>28, <1>29, <1>30, <1>31, <1>32,
     <1>33, <1>34, <1>35
  DEF Next, Broker, Reconcile, Agent, Outside

-----------------------------------------------------------------------------
\* The beginning

\* The invariant holds when the desktop becomes ready.
LEMMA InitIInv == Init => IInv
<1>. SUFFICES ASSUME Init PROVE IInv
  OBVIOUS
<1>1. \A m \in Media : bridges[m] = None /\ slirp.routes[m] = 0
                       /\ unanswered.routes[m] = 0
  BY DEF Init, NoRoutes
<1>2. host.pc = "idle" /\ host.starting = None /\ report = "none"
  BY DEF Init
<1>3. control = None /\ status = None /\ active = {}
  BY DEF Init
<1>4. /\ agent.pc = "polling" /\ agent.generation = -1 /\ agent.relays = {}
  BY DEF Init, Starting
<1>5. slirp.forwards = {}
  BY DEF Init
<1>6. TypeOK
  <2>1. host \in HostType
    BY DefaultType DEF Init, HostType, HostPc
  <2>2. slirp \in SlirpType /\ unanswered \in DoubtType
    BY DEF Init, SlirpType, DoubtType, NoRoutes
  <2>3. agent \in AgentType
    BY StartingType DEF Init
  <2>4. budget \in BudgetType
    BY BudgetsAreNatural DEF Init, BudgetType
  <2>5. config \in SettingsType /\ applied \in SettingsType
    BY SettingsTyped, DefaultType DEF Init
  <2>. QED
    BY <2>1, <2>2, <2>3, <2>4, <2>5
    DEF Init, TypeOK, HostType, SlirpType, DoubtType, AgentType, BudgetType
<1>7. Hands
  BY <1>2 DEF Hands
<1>8. Routed
  BY <1>1, <1>2, NotNone DEF Routed, Own, Pending
<1>9. Targeted
  BY <1>1 DEF Targeted
<1>10. Routable
  BY <1>3, <1>5 DEF Routable, EndsOf, OfKind
<1>11. Told
  BY <1>2, <1>3 DEF Told
<1>12. CaptureFollowsControl
  BY <1>1 DEF CaptureFollowsControl
<1>13. Agreed
  BY <1>3, <1>4 DEF Agreed, Working
<1>14. Settled
  BY <1>2 DEF Settled
<1>. QED
  BY <1>6, <1>7, <1>8, <1>9, <1>10, <1>11, <1>12, <1>13, <1>14 DEF IInv

\* A turn of the broker, of the agent or of anything else keeps the invariant.
LEMMA NextIInv == IInv /\ [Next]_vars => IInv'
<1>. SUFFICES ASSUME IInv, [Next]_vars PROVE IInv'
  OBVIOUS
<1>. USE DEF IInv
<1>1. TypeOK' /\ Hands' /\ Routed'
  BY TypeStep, HandsStep, RoutedStep
<1>2. Targeted' /\ Routable' /\ Told'
  BY TargetedStep, RoutableStep, ToldStep
<1>3. CaptureFollowsControl' /\ Agreed' /\ Settled'
  BY CaptureStep, AgreedStep, SettledStep
<1>. QED
  BY <1>1, <1>2, <1>3

\* The invariant holds of every behaviour.
LEMMA Invariance == Spec => []IInv
  BY InitIInv, NextIInv, PTL DEF Spec

-----------------------------------------------------------------------------
\* The theorems

\* Every variable keeps its type; no route counter goes below zero, for each
\* route the broker removes is one it had added and not removed before.
THEOREM ReconcileTypeCorrect == Spec => []TypeOK
<1>1. IInv => TypeOK
  BY DEF IInv
<1>. QED
  BY <1>1, Invariance, PTL

\* A capture process runs only while the control file names its medium and
\* device: reconcile revokes before it announces and starts after it.
THEOREM CaptureFollowsControlCorrect == Spec => []CaptureFollowsControl
<1>1. IInv => CaptureFollowsControl
  BY DEF IInv
<1>. QED
  BY <1>1, Invariance, PTL

\* Between attempts every media route has the bridge it was made for, whatever
\* failed in whichever step, or was never answered for.
THEOREM RoutesAreOwnedCorrect == Spec => []RoutesAreOwned
<1>1. IInv => RoutesAreOwned
  <2>. SUFFICES ASSUME IInv, At("idle"), slirp.alive, NEW m \in Media
                PROVE  /\ slirp.routes[m] = unanswered.routes[m]
                            + IF bridges[m] = None THEN 0 ELSE 1
                       /\ bridges[m] # None =>
                            bridges[m].target = host.want.media[m]
    BY DEF RoutesAreOwned
  <2>1. host.starting = None
    BY DEF IInv, Hands, At
  <2>2. Pending(m) = 0
    BY <2>1, NotNone DEF Pending
  <2>3. unanswered.routes[m] \in Nat /\ Own(m) \in {0, 1}
    BY DEF IInv, TypeOK, Own
  <2>4. slirp.routes[m] = unanswered.routes[m] + Own(m)
    BY <2>2, <2>3 DEF IInv, Routed
  <2>. QED
    BY <2>4 DEF IInv, Targeted, At, Own
<1>. QED
  BY <1>1, Invariance, PTL

\* "Live integrations ready" is said only of a machine whose host processes,
\* routes and agent serve the settings it is said of, although the guest's
\* status names nothing but ids.
THEOREM ReadyMeansServedCorrect == Spec => []ReadyMeansServed
<1>1. IInv => ReadyMeansServed
  <2>. SUFFICES ASSUME IInv, At("idle"), report = "ready"
                PROVE  ReadyMeansServed
    BY DEF ReadyMeansServed
  <2>1. /\ applied = host.want /\ active = applied.ports
        /\ \A m \in Media :
            IF bridges[m] = None THEN applied.media[m] = None
            ELSE bridges[m].target = applied.media[m]
        /\ control = ControlFor(generation, applied)
        /\ agent.generation \in {-1, generation}
    BY DEF IInv, Settled
  <2>2. slirp.alive => slirp.forwards \ unanswered.forwards
                        = EndsOf(applied.ports) \ unanswered.forwards
    BY <2>1 DEF IInv, Routable
  <2>3. CASE agent.generation = generation /\ generation # -1
    <3>1. control.generation = generation
          /\ control.ports = GuestPorts(applied.ports)
      BY <2>1 DEF ControlFor
    <3>. QED
      BY <2>1, <2>2, <2>3, <3>1 DEF IInv, Agreed, ReadyMeansServed
  <2>4. CASE agent.generation = -1
    BY <2>1, <2>2, <2>4 DEF ReadyMeansServed
  <2>. QED
    BY <2>1, <2>3, <2>4
<1>. QED
  BY <1>1, Invariance, PTL
=============================================================================
