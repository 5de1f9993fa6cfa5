-------------------------------- MODULE Peer --------------------------------
(***************************************************************************)
(* The traffic manager's end of the tunnel (pkg/core/tunhandler.go).  The  *)
(* handlers of the TCP connections put what they receive into Chan, the    *)
(* tun device puts its packets into tunInbound; a Peer routes both, to a   *)
(* UDP address (routeNAT), to a TCP connection (routeConnNAT) or to the    *)
(* tun device.  The first failed write ends transportTun, which closes the *)
(* UDP socket of the Peer, and HandleServer starts another one.            *)
(*                                                                         *)
(* The other goroutines of the old Peer are not stopped: they go on taking *)
(* packets from Chan and tunInbound, which all Peers share.  Peers bounds  *)
(* the restarts; a packet to a broken connection occurs while another Peer *)
(* can be started.                                                         *)
(***************************************************************************)
EXTENDS DataPlane, Sequences

PeerId == 1 .. Peers

NoPacket == "no packet"

VARIABLES
    phase,      \* of HandleServer: at ListenPacket, in transportTun, or returned
    cur,        \* the number of the last Peer
    chan,       \* Chan
    tunInbound,
    held,       \* the packet that readFromTCPConn of the Peer is about to pass on
    parsed,     \* parsedConnInfo
    readConn,   \* whether the goroutine readFromConn runs
    routePeer,  \* whether the goroutine routePeer runs
    routeTUN,   \* whether the goroutine routeTUN runs
    errChan     \* number of errors in errChan

peerVars == <<phase, cur, chan, tunInbound, held, parsed, readConn, routePeer, routeTUN, errChan>>
local == <<held, parsed, readConn, routePeer, routeTUN, errChan>>

PeerTypeOK ==
    /\ phase \in {"listen", "serve", "returned"}
    /\ cur \in 0 .. Peers
    /\ chan \in Seq(Packet) /\ Len(chan) <= MaxSize
    /\ tunInbound \in Seq(Packet) /\ Len(tunInbound) <= MaxSize
    /\ held \in [PeerId -> Packet \cup {NoPacket}]
    /\ parsed \in [PeerId -> Seq(Packet)]
    /\ \A p \in PeerId : Len(parsed[p]) <= MaxSize
    /\ readConn \in [PeerId -> BOOLEAN]
    /\ routePeer \in [PeerId -> BOOLEAN] /\ routeTUN \in [PeerId -> BOOLEAN]
    /\ errChan \in [PeerId -> 0 .. 2]

PeerInit ==
    /\ phase = "listen"
    /\ cur = 0
    /\ chan = << >> /\ tunInbound = << >>
    /\ held = [p \in PeerId |-> NoPacket]
    /\ parsed = [p \in PeerId |-> << >>]
    /\ readConn = [p \in PeerId |-> FALSE]
    /\ routePeer = [p \in PeerId |-> FALSE] /\ routeTUN = [p \in PeerId |-> FALSE]
    /\ errChan = [p \in PeerId |-> 0]

\* A write to the route of packet e by Peer p fails.
Fails(p, e) == e = "broken" \/ (e = "udp" /\ ~(phase = "serve" /\ p = cur))

\* sendErr drops the error when the channel is full.
SendErr(n) == IF n < 2 THEN n + 1 ELSE n

-----------------------------------------------------------------------------
\* A handler of a TCP connection has a datagram: h.ch <- dgram.
Receive(e) ==
    /\ e = "broken" => cur < Peers
    /\ Len(chan) < MaxSize
    /\ chan' = Append(chan, e)
    /\ UNCHANGED <<phase, cur, tunInbound, local>>

\* A packet from the tun device, or a heartbeat.
ReadFromTun(e) ==
    /\ e = "broken" => cur < Peers
    /\ Len(tunInbound) < MaxSize
    /\ tunInbound' = Append(tunInbound, e)
    /\ UNCHANGED <<phase, cur, chan, local>>

-----------------------------------------------------------------------------
(* HandleServer and transportTun                                           *)

\* ListenPacket succeeds and Peer.Start starts the goroutines.
Start ==
    /\ phase = "listen" /\ cur < Peers
    /\ phase' = "serve"
    /\ cur' = cur + 1
    /\ readConn' = [readConn EXCEPT ![cur + 1] = TRUE]
    /\ routePeer' = [routePeer EXCEPT ![cur + 1] = TRUE]
    /\ routeTUN' = [routeTUN EXCEPT ![cur + 1] = TRUE]
    /\ UNCHANGED <<chan, tunInbound, held, parsed, errChan>>

\* ListenPacket fails: the handler returns and nothing starts it again.
ListenError ==
    /\ phase = "listen"
    /\ phase' = "returned"
    /\ UNCHANGED <<cur, chan, tunInbound, local>>

\* transportTun receives an error and closes the UDP socket.
Restart ==
    /\ phase = "serve" /\ errChan[cur] > 0
    /\ errChan' = [errChan EXCEPT ![cur] = @ - 1]
    /\ phase' = "listen"
    /\ UNCHANGED <<cur, chan, tunInbound, held, parsed, readConn, routePeer, routeTUN>>

-----------------------------------------------------------------------------
(* The goroutines of Peer p, started and never stopped from outside        *)

\* readFromConn and the parseHeader threads take a packet from the UDP socket ...
ReadFromConn(p, e) ==
    /\ readConn[p] /\ phase = "serve" /\ p = cur
    /\ e = "broken" => cur < Peers
    /\ Len(parsed[p]) < MaxSize
    /\ parsed' = [parsed EXCEPT ![p] = Append(@, e)]
    /\ UNCHANGED <<phase, cur, chan, tunInbound, held, readConn, routePeer, routeTUN, errChan>>

\* ... until it is closed, or reading fails.
ReadFromConnError(p) ==
    /\ readConn[p]
    /\ (phase = "serve" /\ p = cur) => cur < Peers
    /\ readConn' = [readConn EXCEPT ![p] = FALSE]
    /\ errChan' = [errChan EXCEPT ![p] = SendErr(@)]
    /\ UNCHANGED <<phase, cur, chan, tunInbound, held, parsed, routePeer, routeTUN>>

\* Mutant: only the first Peer reads from Chan.
ReadFromTCPConnOnce(p) ==
    /\ p = 1 /\ p <= cur /\ held[p] = NoPacket /\ chan # << >>
    /\ held' = [held EXCEPT ![p] = Head(chan)]
    /\ chan' = Tail(chan)
    /\ UNCHANGED <<phase, cur, tunInbound, parsed, readConn, routePeer, routeTUN, errChan>>

\* readFromTCPConn takes a packet from Chan ...
ReadFromTCPConn(p) ==
    /\ p <= cur /\ held[p] = NoPacket /\ chan # << >>
    /\ held' = [held EXCEPT ![p] = Head(chan)]
    /\ chan' = Tail(chan)
    /\ UNCHANGED <<phase, cur, tunInbound, parsed, readConn, routePeer, routeTUN, errChan>>

\* ... and passes it on, which waits while parsedConnInfo is full.
PassOn(p) ==
    /\ held[p] # NoPacket /\ Len(parsed[p]) < MaxSize
    /\ parsed' = [parsed EXCEPT ![p] = Append(@, held[p])]
    /\ held' = [held EXCEPT ![p] = NoPacket]
    /\ UNCHANGED <<phase, cur, chan, tunInbound, readConn, routePeer, routeTUN, errChan>>

\* Mutant: it returns without sendErr.
RoutePeerReturns(p) ==
    /\ routePeer[p] /\ parsed[p] # << >>
    /\ parsed' = [parsed EXCEPT ![p] = Tail(@)]
    /\ routePeer' = [routePeer EXCEPT ![p] = ~Fails(p, Head(parsed[p]))]
    /\ UNCHANGED <<phase, cur, chan, tunInbound, held, readConn, routeTUN, errChan>>

RoutePeer(p) ==
    /\ routePeer[p] /\ parsed[p] # << >>
    /\ parsed' = [parsed EXCEPT ![p] = Tail(@)]
    /\ IF Fails(p, Head(parsed[p]))
       THEN /\ errChan' = [errChan EXCEPT ![p] = SendErr(@)]
            /\ routePeer' = [routePeer EXCEPT ![p] = FALSE]
       ELSE UNCHANGED <<errChan, routePeer>>
    /\ UNCHANGED <<phase, cur, chan, tunInbound, held, readConn, routeTUN>>

\* Like routePeer, but a packet without a route is dropped.
RouteTUN(p) ==
    /\ routeTUN[p] /\ tunInbound # << >>
    /\ tunInbound' = Tail(tunInbound)
    /\ IF Fails(p, Head(tunInbound))
       THEN /\ errChan' = [errChan EXCEPT ![p] = SendErr(@)]
            /\ routeTUN' = [routeTUN EXCEPT ![p] = FALSE]
       ELSE UNCHANGED <<errChan, routeTUN>>
    /\ UNCHANGED <<phase, cur, chan, held, parsed, readConn, routePeer>>
-----------------------------------------------------------------------------
PeerNext ==
    \/ \E e \in Packet : Receive(e) \/ ReadFromTun(e)
    \/ Start \/ ListenError \/ Restart
    \/ \E p \in PeerId : \E e \in Packet : ReadFromConn(p, e)
    \/ \E p \in PeerId : ReadFromConnError(p) \/ ReadFromTCPConn(p) \/ PassOn(p)
    \/ \E p \in PeerId : RoutePeer(p) \/ RouteTUN(p)

\* Goroutines that can go on do, and those that wait for a channel are served in the
\* order in which they wait.
PeerFairness ==
    /\ WF_peerVars(Start) /\ WF_peerVars(Restart)
    /\ \A p \in PeerId : SF_peerVars(ReadFromTCPConn(p)) /\ SF_peerVars(PassOn(p))
    /\ \A p \in PeerId : WF_peerVars(RoutePeer(p)) /\ SF_peerVars(RouteTUN(p))

PeerSpec == PeerInit /\ [][PeerNext]_peerVars /\ PeerFairness

-----------------------------------------------------------------------------
\* The three goroutines of the Peer that transportTun waits for are running, or
\* an error is in errChan although sendErr may drop errors: transportTun never
\* waits for a Peer that has stopped routing.
PeerWatched ==
    phase = "serve" =>
        (readConn[cur] /\ routePeer[cur] /\ routeTUN[cur]) \/ errChan[cur] > 0

\* HandleServer has not given up, and the bound on Peers lets it go on.
Serving == phase = "serve" \/ (phase = "listen" /\ cur < Peers)

\* However many Peers have been left behind with their readers, the handlers of
\* the TCP connections never wait for good to put a packet into Chan, nor the tun
\* device to put one into tunInbound, as long as HandleServer serves.
ChannelsDrain ==
    /\ (Len(chan) = MaxSize) ~> (Len(chan) < MaxSize \/ ~Serving)
    /\ (Len(tunInbound) = MaxSize) ~> (Len(tunInbound) < MaxSize \/ ~Serving)
=============================================================================
