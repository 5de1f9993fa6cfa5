------------------------------ MODULE MCManager ------------------------------
(***************************************************************************)
(* The parts of the traffic manager, side by side: the DHCP managers that  *)
(* share its ConfigMap, the admission webhook with the sidecars'           *)
(* addresses, the control plane with its Envoys, and the routes to a       *)
(* machine.  A behaviour belongs to one of them.                           *)
(*                                                                         *)
(* Dhcp: three clients, three IPv4 and three IPv6 offsets, the last of     *)
(* each outside its network.                                               *)
(***************************************************************************)
EXTENDS Dhcp, Webhook, ControlPlane, RouteConn, TLC

CONSTANTS r1, r2, r3    \* connections

VARIABLE part

mcvars == <<part, vars, webhookVars, controlVars, routeVars>>

-----------------------------------------------------------------------------
(* The instances.                                                          *)

\* Sound for the liveness properties too: they are about behaviours in which the clients
\* of Dhcp take no steps.
ClientSymmetry == Permutations(Client)

\* A workload with two ports, alone and then with a second machine's rule, and one
\* with a UDP port and a rule for all requests behind more special ones.
Tcp(n) == [ContainerPort |-> n, Protocol |-> "TCP"]
Udp(n) == [ContainerPort |-> n, Protocol |-> "UDP"]
Rule(h, v4, v6) == [Headers |-> h, LocalTunIPv4 |-> v4, LocalTunIPv6 |-> v6]
V(x, p, r) == [Uid |-> x, Ports |-> p, Rules |-> r]
MCContents ==
    {<<V("u", {Tcp(1), Tcp(2)}, <<Rule({"a"}, "m1", "s1")>>),
       V("no uid", {Tcp(1)}, <<Rule({}, "m1", "s1")>>)>>,
     <<V("v", {Tcp(1), Udp(3)}, <<Rule({"a", "b"}, "m1", "s1"), Rule({"a"}, "m2", "s2"), Rule({}, "m1", "s1")>>),
       V("u", {Tcp(1), Tcp(2)}, <<Rule({"a"}, "m1", "s1"), Rule({"b"}, "m2", "s2")>>)>>}

MCHeaders == SUBSET {"a", "b"}

-----------------------------------------------------------------------------

MCInit ==
    /\ Init /\ WebhookInit /\ ControlInit /\ RouteInit
    /\ part \in {"dhcp", "webhook", "control", "routes"}
    /\ part # "dhcp" => cm = NoConfigMap
    /\ part # "control" => file = Broken /\ version = 0

DStep(A) == part = "dhcp" /\ A /\ UNCHANGED <<part, webhookVars, controlVars, routeVars>>
WStep(A) == part = "webhook" /\ A /\ UNCHANGED <<part, vars, controlVars, routeVars>>
CStep(A) == part = "control" /\ A /\ UNCHANGED <<part, vars, webhookVars, routeVars>>
RStep(A) == part = "routes" /\ A /\ UNCHANGED <<part, vars, webhookVars, controlVars>>

MCNext == DStep(Next) \/ WStep(WebhookNext) \/ CStep(ControlNext) \/ RStep(RouteNext)

\* The fairness of ControlPlane and of RouteConn.  A behaviour belongs to one of
\* them, so that fairness of steps of both together is the fairness of each.
MCFairness ==
    /\ WF_mcvars(CStep(WatchTick) \/ RStep(Handle(r1)))
    /\ WF_mcvars(CStep(ParseYaml) \/ RStep(Handle(r2)))
    /\ WF_mcvars(CStep(ProcessFile) \/ RStep(Handle(r3)))
    /\ \A u \in Uid : WF_mcvars(CStep(Respond(u)))
    /\ \A ip \in Ip : SF_mcvars(RStep(Send(ip)))

MCSpec == MCInit /\ [][MCNext]_mcvars /\ MCFairness
=============================================================================
