------------------------------ MODULE MCTunnel ------------------------------
(***************************************************************************)
(* The tunnel of a machine from its two ends, side by side: the daemons    *)
(* that set it up and take it down, with commands that come one at a time; *)
(* the machine's transports; the Peers of the traffic manager.  A          *)
(* behaviour belongs to one of them.                                       *)
(***************************************************************************)
EXTENDS Peer, Transport

CONSTANTS t1, t2, t3, m1

VARIABLES part,
          marked, ref, manager, user, sudo, opt, tun, th

dvars == <<marked, ref, manager, user, sudo, opt, tun, th>>
mcvars == <<part, peerVars, transportVars, dvars>>

D == INSTANCE Daemon WITH Machine <- {m1}, Requests <- 1, MaxRef <- 2,
                          Max4 <- 2, Net4 <- 2, Max6 <- 2, Net6 <- 2

-----------------------------------------------------------------------------

MCInit == /\ PeerInit /\ TransportInit /\ D!Init
          /\ part \in {"peer", "transport", "daemon"}

PStep(A) == part = "peer" /\ A /\ UNCHANGED <<part, transportVars, dvars>>
TStep(A) == part = "transport" /\ A /\ UNCHANGED <<part, peerVars, dvars>>
DStep(A) == part = "daemon" /\ A /\ UNCHANGED <<part, peerVars, transportVars>>

MCNext == PStep(PeerNext) \/ TStep(TransportNext) \/ DStep(D!Next)

\* The fairness of the three modules.  A behaviour belongs to one of them, so that
\* fairness of steps of different modules together is the fairness of each.
MCFairness ==
    /\ WF_mcvars(PStep(Start) \/ TStep(ReadError(t1)) \/ DStep(D!Handle(<<m1, 1>>)))
    /\ WF_mcvars(PStep(Restart) \/ TStep(ReadError(t2)))
    /\ WF_mcvars(PStep(RoutePeer(1)) \/ TStep(ReadError(t3)))
    /\ WF_mcvars(PStep(RoutePeer(2)) \/ TStep(WriterEnds(t1)))
    /\ WF_mcvars(TStep(WriterEnds(t2))) /\ WF_mcvars(TStep(WriterEnds(t3)))
    /\ \A t \in Transports : WF_mcvars(TStep(ReaderEnds(t))) /\ WF_mcvars(TStep(TransportReturns(t)))
    /\ SF_mcvars(PStep(ReadFromTCPConn(1)) \/ TStep(Write(t1)))
    /\ SF_mcvars(PStep(ReadFromTCPConn(2)) \/ TStep(Write(t2)))
    /\ SF_mcvars(PStep(PassOn(1)) \/ TStep(Write(t3)))
    /\ SF_mcvars(PStep(PassOn(2)) \/ TStep(Loop(t1)))
    /\ SF_mcvars(PStep(RouteTUN(1)) \/ TStep(Loop(t2)))
    /\ SF_mcvars(PStep(RouteTUN(2)) \/ TStep(Loop(t3)))
    /\ SF_mcvars(TStep(TunPacket("out")))

MCSpec == MCInit /\ [][MCNext]_mcvars /\ MCFairness

-----------------------------------------------------------------------------

\* Daemon: a Disconnect takes the tunnel down, when no other command runs at the
\* same time (cleaner.go).
DisconnectStops == D!DisconnectStops
=============================================================================
