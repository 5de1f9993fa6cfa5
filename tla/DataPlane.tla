------------------------------ MODULE DataPlane -----------------------------
(* The parameters of the tunnel between the machines and the traffic       *)
(* manager (pkg/core): of the manager's routes (RouteConn), of its end of  *)
(* the tunnel (Peer) and of the machine's end (Transport).                 *)
EXTENDS Integers

CONSTANTS
    Ip,         \* RouteConn: the addresses of the machine, IPv4 and IPv6
    Conn,       \* RouteConn: connections whose handlers can run at the same time
    MaxStream,  \* RouteConn: bound on the datagrams under way in a connection
    Peers,      \* Peer: how many times HandleServer starts a Peer
    MaxSize,    \* Peer: capacity of every channel
    Packet,     \* Peer: the kinds of packets that arrive
    Transports, \* Transport: transports whose goroutines can run at the same time
    MaxInbound  \* Transport: capacity of tunInbound

ASSUME MaxStreamAssumption == MaxStream \in Nat \ {0}

NoConn == "none"
ASSUME NoConnAssumption == NoConn \notin Conn

ASSUME PeersAssumption == Peers \in Nat \ {0}
ASSUME MaxSizeAssumption == MaxSize \in Nat \ {0}

\* A packet is routed to a UDP address ("udp"), to a TCP connection that is broken
\* but still in routeConnNAT ("broken"), or to another connection, the tun device
\* or nowhere ("fine").
ASSUME PacketAssumption == Packet \subseteq {"udp", "broken", "fine"}

ASSUME MaxInboundAssumption == MaxInbound \in Nat \ {0}

\* HandleClient is between two transports, or has returned.
Dialing == "dialing"
Stopped == "stopped"
ASSUME TransportsAssumption == Dialing \notin Transports /\ Stopped \notin Transports
=============================================================================
