----------------------------- MODULE RouteConn -----------------------------
(***************************************************************************)
(* The routes of the traffic manager to a connected machine: RouteConnNAT, *)
(* a sync.Map from the machine's addresses to its TCP connection, and the  *)
(* handlers of the connections that maintain it (pkg/core/tcphandler.go).  *)
(*                                                                         *)
(* The machine uses one connection at a time and dials a new one when it   *)
(* breaks; the manager may still be reading from, or cleaning up after,    *)
(* the older ones.  Every operation on the map is a step.  A connection is *)
(* used again as soon as its handler has returned, so Conn bounds only the *)
(* handlers that run at the same time.                                     *)
(***************************************************************************)
EXTENDS DataPlane, Sequences

VARIABLES
    route,     \* RouteConnNAT
    inUse,     \* the connection that the machine uses
    up,        \* the connections that are not broken
    stream,    \* the source addresses of the datagrams under way
    handling,  \* where the handler of the connection is
    keys       \* the keys that the deferred function has collected

routeVars == <<route, inUse, up, stream, handling, keys>>

RouteTypeOK ==
    /\ route \in [Ip -> Conn \cup {NoConn}]
    /\ inUse \in Conn \cup {NoConn}
    /\ up \subseteq Conn
    /\ stream \in [Conn -> Seq(Ip)]
    /\ \A c \in Conn : Len(stream[c]) <= MaxStream
    /\ handling \in [Conn -> {"none", "read", "store", "range", "delete"}]
    /\ keys \in [Conn -> SUBSET Ip]

RouteInit ==
    /\ route = [ip \in Ip |-> NoConn]
    /\ inUse = NoConn
    /\ up = {}
    /\ stream = [c \in Conn |-> << >>]
    /\ handling = [c \in Conn |-> "none"]
    /\ keys = [c \in Conn |-> {}]

-----------------------------------------------------------------------------
(* The machine                                                             *)

\* getRemotePacketConn, after transportTunClient has returned.
MachineDials(c) ==
    /\ inUse \notin up
    /\ handling[c] = "none"
    /\ inUse' = c
    /\ up' = up \cup {c}
    /\ stream' = [stream EXCEPT ![c] = << >>]
    /\ handling' = [handling EXCEPT ![c] = "read"]
    /\ UNCHANGED <<route, keys>>

\* A heartbeat or any other packet from the tun device.
Send(ip) ==
    /\ inUse \in up
    /\ Len(stream[inUse]) < MaxStream
    /\ stream' = [stream EXCEPT ![inUse] = Append(@, ip)]
    /\ UNCHANGED <<route, inUse, up, handling, keys>>

\* The connection breaks; what is under way may still arrive.
ConnBreaks ==
    /\ inUse \in up
    /\ up' = up \ {inUse}
    /\ UNCHANGED <<route, inUse, stream, handling, keys>>

-----------------------------------------------------------------------------
(* fakeUdpHandler.Handle                                                   *)

\* Mutant: Load instead of LoadOrStore.
ReadLoad(c) ==
    /\ handling[c] = "read" /\ stream[c] # << >>
    /\ \/ /\ route[Head(stream[c])] \in {NoConn, c}
          /\ stream' = [stream EXCEPT ![c] = Tail(@)]
          /\ UNCHANGED handling
       \/ /\ route[Head(stream[c])] \notin {NoConn, c}
          /\ handling' = [handling EXCEPT ![c] = "store"]
          /\ UNCHANGED stream
    /\ UNCHANGED <<route, inUse, up, keys>>

\* LoadOrStore; a route to another connection is replaced in a second step.
Read(c) ==
    /\ handling[c] = "read" /\ stream[c] # << >>
    /\ LET ip == Head(stream[c])
       IN  \/ /\ route[ip] \in {NoConn, c}
              /\ route' = [route EXCEPT ![ip] = c]
              /\ stream' = [stream EXCEPT ![c] = Tail(@)]
              /\ UNCHANGED handling
           \/ /\ route[ip] \notin {NoConn, c}
              /\ handling' = [handling EXCEPT ![c] = "store"]
              /\ UNCHANGED <<route, stream>>
    /\ UNCHANGED <<inUse, up, keys>>

Store(c) ==
    /\ handling[c] = "store"
    /\ route' = [route EXCEPT ![Head(stream[c])] = c]
    /\ stream' = [stream EXCEPT ![c] = Tail(@)]
    /\ handling' = [handling EXCEPT ![c] = "read"]
    /\ UNCHANGED <<inUse, up, keys>>

\* The read of the next datagram fails.
ReadFails(c) ==
    /\ handling[c] = "read" /\ c \notin up
    /\ handling' = [handling EXCEPT ![c] = "range"]
    /\ stream' = [stream EXCEPT ![c] = << >>]
    /\ UNCHANGED <<route, inUse, up, keys>>

\* The deferred function collects the keys of its connection ...
Range(c) ==
    /\ handling[c] = "range"
    /\ keys' = [keys EXCEPT ![c] = {ip \in Ip : route[ip] = c}]
    /\ handling' = [handling EXCEPT ![c] = "delete"]
    /\ UNCHANGED <<route, inUse, up, stream>>

\* Mutant: it deletes one of them only.
DeleteFirst(c) ==
    /\ handling[c] = "delete"
    /\ \E ip \in keys[c] : route' = [route EXCEPT ![ip] = NoConn]
    /\ keys' = [keys EXCEPT ![c] = {}]
    /\ handling' = [handling EXCEPT ![c] = "none"]
    /\ UNCHANGED <<inUse, up, stream>>

\* ... and deletes them one by one, whatever they map to by then.
Delete(c) ==
    /\ handling[c] = "delete"
    /\ \E ip \in keys[c] :
        /\ route' = [route EXCEPT ![ip] = NoConn]
        /\ keys' = [keys EXCEPT ![c] = @ \ {ip}]
    /\ UNCHANGED <<inUse, up, stream, handling>>

HandleReturns(c) ==
    /\ handling[c] = "delete" /\ keys[c] = {}
    /\ handling' = [handling EXCEPT ![c] = "none"]
    /\ UNCHANGED <<route, inUse, up, stream, keys>>

-----------------------------------------------------------------------------
Handle(c) == Read(c) \/ Store(c) \/ ReadFails(c) \/ Range(c) \/ Delete(c) \/ HandleReturns(c)

RouteNext ==
    \/ \E c \in Conn : MachineDials(c) \/ Handle(c)
    \/ \E ip \in Ip : Send(ip)
    \/ ConnBreaks

\* The handlers run, and the heartbeats send a packet from every address again
\* and again as long as the connection takes them.
RouteFairness ==
    /\ \A c \in Conn : WF_routeVars(Handle(c))
    /\ \A ip \in Ip : SF_routeVars(Send(ip))

RouteSpec == RouteInit /\ [][RouteNext]_routeVars /\ RouteFairness

-----------------------------------------------------------------------------
\* When the handler of a connection has returned, no address is routed to the
\* connection any more: routePeer never writes to a connection that nobody
\* will take out of the map.
NoDeadRoute == \A c \in Conn : handling[c] = "none" => \A ip \in Ip : route[ip] # c

\* If the machine's connection stays up, the addresses are in the end routed to
\* it and stay so, whatever the handlers of its older connections still store
\* and delete.
RouteRecovers ==
    \A c \in Conn : \A ip \in Ip : <>[](inUse = c /\ c \in up) => <>[](route[ip] = c)
=============================================================================
