------------------------------ MODULE MCMachine ------------------------------
(***************************************************************************)
(* What a client machine does to itself for its connections, side by side: *)
(* the ranges of the cluster, the routes and the hosts file; the start of  *)
(* a daemon, which comes before; and a TCP and a UDP flow through the      *)
(* gvisor engine, which come after.  A behaviour belongs to one of them:   *)
(* they share no state except through DoConnect, which calls them in turn. *)
(***************************************************************************)
EXTENDS Startup, Routes, TcpRelay, UdpRelay

CONSTANTS
    ipApi, ipTun, ipPod, ipExtra, ipNode, domA, domB, podA, podHost,  \* Routes
    mach1, mach2, blk1, blk2, blk3, addrX,                            \* Cidr
    conn1, conn2, nameShort, nameLong                                 \* Hosts

VARIABLES part,
          pools, cni, cpc, raw, cidrs,
          file, resolv, backup, hsvc, changes, hpc, hctx, hosts, last, hw, pend,
          job, ent, buf, clash

cvars == <<pools, cni, cpc, raw, cidrs>>
hvars == <<file, resolv, backup, hsvc, changes, hpc, hctx, hosts, last, hw, pend,
           job, ent, buf, clash>>
mcvars == <<part, routesVars, cvars, hvars, startupVars, tcpvars, udpvars>>

-----------------------------------------------------------------------------
(* The instances.                                                          *)

MCAddressOf(o) == IF o = podA THEN {ipPod} ELSE IF o = podHost THEN {ipNode} ELSE {ipApi}
MCExtraDomain == <<domA, domB>>
MCDomainIP(name) == IF name = domA THEN ipTun ELSE ipExtra

\* Two of three ranges contain the API server, whose URL has an address.
CFinds(src) == CASE src = "dump" -> {blk1} [] src = "cmdline" -> {blk2} [] src = "svc" -> {blk3}
                 [] src = "resource" -> {blk2, blk3} [] OTHER -> {}
CHas(r, addr) == r \in {blk2, blk3}

C == INSTANCE Cidr WITH Machine <- {mach1, mach2}, Block <- {blk1, blk2, blk3}, Finds <- CFinds,
                        ApiIPs <- <<addrX, addrX>>, Has <- CHas, pc <- cpc

\* The user has a line for a name that is also that of a service; the namespace
\* of the lite connection conn2 has no services.
HNamesOf(c) == IF c = conn2 THEN {} ELSE {nameShort, nameLong}
HWithin(f, g) == f = g
HLocalhost == [own |-> FALSE, dom |-> "localhost", ip |-> "127.0.0.1"]
HUserLines == <<HLocalhost, [own |-> FALSE, dom |-> nameShort, ip |-> "192.168.0.2"]>>

H == INSTANCE Hosts WITH Conn <- {conn1, conn2}, Full <- {conn1},
                         Domain <- {nameShort, nameLong}, NamesOf <- HNamesOf,
                         IP <- {ipTun}, Within <- HWithin, Resolved <- {nameLong},
                         UserLines <- HUserLines, MaxServers <- 3, MaxChange <- 1,
                         pc <- hpc, ctx <- hctx, w <- hw, svc <- hsvc

\* Flows from port 5001 of the machine to port 80 of a service.
FlowId == {[LocalPort |-> 80, RemotePort |-> 5001, LocalAddress |-> 11, RemoteAddress |-> 12]}

-----------------------------------------------------------------------------

MCInit ==
    /\ StartupInit /\ RoutesInit /\ C!Init /\ H!Init /\ TcpInit /\ UdpInit
    /\ part \in {"routes", "cidr", "hosts", "startup", "tcp", "udp"}
    /\ part # "routes" => \A o \in Object : objs[o] = NoIP
    /\ part # "hosts" => \A c \in {conn1, conn2} : \A f \in {nameShort, nameLong} : hsvc[c][f] = H!None

RStep(A) == part = "routes" /\ A /\ UNCHANGED <<part, cvars, hvars, startupVars, tcpvars, udpvars>>
CStep(A) == part = "cidr" /\ A /\ UNCHANGED <<part, routesVars, hvars, startupVars, tcpvars, udpvars>>
HStep(A) == part = "hosts" /\ A /\ UNCHANGED <<part, routesVars, cvars, startupVars, tcpvars, udpvars>>
SStep(A) == part = "startup" /\ A /\ UNCHANGED <<part, routesVars, cvars, hvars, tcpvars, udpvars>>
TStep(A) == part = "tcp" /\ A /\ UNCHANGED <<part, routesVars, cvars, hvars, startupVars, udpvars>>
UStep(A) == part = "udp" /\ A /\ UNCHANGED <<part, routesVars, cvars, hvars, startupVars, tcpvars>>

\* Nothing is asked of the routes after a compaction, or of the hosts file after
\* two updates at the same time.
MCNext == \/ RStep(~expired /\ RoutesNext) \/ CStep(C!Next)
          \/ HStep(~clash /\ H!Next) \/ SStep(StartupNext)
          \/ TStep(TcpNext) \/ UStep(UdpNext)

\* Goroutines run and calls return.  A watch may close again and again, but not
\* for ever before one and the same event.  A behaviour belongs to one part, so
\* that fairness of steps of two parts together is the fairness of each.
FirstEvent(kind) == WatchEvent(kind) /\ pos[kind] = 0
HEvent(c) == ~clash /\ H!Event(c)

MCFairness ==
    /\ WF_mcvars(RStep(AddRouteFunc(ipApi)) \/ TStep(CopierStep("fup")) \/ UStep(UdpCopierStep("fup")))
    /\ WF_mcvars(RStep(AddRouteFunc(ipTun)) \/ TStep(CopierStep("fdown")) \/ UStep(UdpCopierStep("fdown")))
    /\ WF_mcvars(RStep(AddRouteFunc(ipPod)) \/ TStep(CopierStep("hup")) \/ UStep(UdpCopierStep("hup")))
    /\ WF_mcvars(RStep(AddRouteFunc(ipExtra)) \/ TStep(CopierStep("hdown")) \/ UStep(UdpCopierStep("hdown")))
    /\ WF_mcvars(RStep(AddRouteFunc(ipNode)) \/ TStep(Receive))
    /\ WF_mcvars(RStep(Watch("pod")) \/ TStep(ForwarderStep) \/ UStep(UdpForwarderStep))
    /\ WF_mcvars(RStep(Watch("service")) \/ TStep(HandlerStep) \/ UStep(UdpHandlerStep))
    /\ SF_mcvars(RStep(FirstEvent("pod")) \/ HStep(HEvent(conn1)))
    /\ SF_mcvars(RStep(FirstEvent("service")) \/ HStep(HEvent(conn2)))
    /\ \A m \in {mach1, mach2} :
          /\ WF_mcvars(CStep(C!Ask(m)))
          /\ \/ []<>(cpc[m] \notin {"cache", "delete", "resource", "set"})
             \/ []<><<CStep(C!Collect(m))>>_mcvars
    /\ \A c \in {conn1, conn2} :
          /\ WF_mcvars(HStep(~clash /\ H!Handler(c))) /\ WF_mcvars(HStep(~clash /\ H!Watcher(c)))
    /\ \A c \in Command : WF_mcvars(SStep(CommandStep(c)))
    /\ \A s \in Daemon : WF_mcvars(SStep(DaemonStep(s)) \/ TStep(ServiceReads))

MCSpec == MCInit /\ [][MCNext]_mcvars /\ MCFairness

-----------------------------------------------------------------------------
(* The properties of Cidr and Hosts, and those about what happens in the   *)
(* end, together.                                                          *)


\* Hosts: the lines of the user stay (dns.go:112-122, 248-254).
UserLinesKept == H!UserLinesKept

\* Hosts: nothing of kubevpn is left without connections (dns.go:241-263, dns_linux.go:113-120).
HostsCleared == H!HostsCleared


\* What comes before a connection ends: the wait for the socket of a daemon that was
\* started (client.go:83-161), and getCIDR, although machines delete each other's pod
\* (getcidr.go:258-277).
SetUpEnds == StartEnds /\ C!DiscoveryEnds

\* A flow through the gvisor engine gets the answer and then all its goroutines end
\* (gvisortcphandler.go, gvisortcpforwarder.go, gvisorudphandler.go).
FlowsEnd == AnswerArrives /\ FlowReleased /\ UdpReleased
=============================================================================
