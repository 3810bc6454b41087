------------------------ MODULE MCIntegrationReconcile ------------------------
(* A small instance of IntegrationReconcile for TLC. *)
EXTENDS IntegrationReconcile, TLC

CONSTANTS a, b, e1, e2, mic, cam, t1, t2

Port(id, kind, end) == [id |-> id, kind |-> kind, end |-> end]

\* Nothing; a forward, a relay and the microphone; the forward at another end,
\* a relay that has become a UDP forward, another microphone and a camera.
ThreeSettings ==
    {[ports |-> {}, media |-> mic :> None @@ cam :> None],
     [ports |-> {Port(a, "tcp", e1), Port(b, "reverse", e1)},
      media |-> mic :> t1 @@ cam :> None],
     [ports |-> {Port(a, "tcp", e2), Port(b, "udp", e2)},
      media |-> mic :> t2 @@ cam :> t1]}
=============================================================================
