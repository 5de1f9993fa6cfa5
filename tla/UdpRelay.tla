------------------------------ MODULE UdpRelay ------------------------------
(***************************************************************************)
(* A UDP flow of an application through the gvisor engine: the forwarder   *)
(* on the machine sends each datagram behind its length over a tunnel      *)
(* connection (pkg/core/gvisorudpforwarder.go, udpovertcp.go), and the     *)
(* handler in the traffic manager sends it to the service and brings the   *)
(* replies back (pkg/core/gvisorudphandler.go).                            *)
(*                                                                         *)
(* A flow begins with a datagram for which no endpoint is registered.      *)
(* Successive flows share nothing but the registration, so the model runs  *)
(* the goroutines of one at a time.  MaxDatagrams bounds what the          *)
(* application and the service send, Window what the tunnel holds unread.  *)
(***************************************************************************)
EXTENDS ProxyInfo

CONSTANTS Size, MaxDatagrams, UdpWindow

\* A datagram of some Size is a sequence of bytes; all of them carry its number.
Datagram(n, size) == [k \in 1 .. size |-> n]

\* dgram.Write: two bytes of length, here one element, and the data.
Framed(b) == <<Len(b)>> \o b

\* A datagram can be read off the head of a stream.
HasDatagram(s) == s # << >> /\ Len(s) > s[1]

\* Mutant: the length is taken to count itself.
FirstShort(s) == SubSeq(s, 2, s[1])

\* The data that readDatagramPacket returns.
First(s) == SubSeq(s, 2, s[1] + 1)

UdpCopier == {"fup", "fdown", "hup", "hdown"}

VARIABLES
    tunnel,        \* the connection between the forwarder and the manager
    flow,          \* the identifier of the flow
    endpoint,      \* an endpoint is registered for the flow
    waiting,       \* the datagrams in its queue
    udpForwarder,  \* the function of UDPForwarder
    udpHandler,    \* gvisorUDPHandler.Handle
    udpHeader,     \* what ParseProxyInfo returned
    socket,        \* the handler's socket is open
    replies,       \* the datagrams in its queue
    udpCopier,     \* the goroutines
    udpReported,   \* errChan of the forwarder and of the handler
    asked,         \* what the application has sent
    served,        \* what the service has received
    udpAnswered,   \* what the service has sent
    udpGot,        \* what the application has received
    udpLost        \* the tunnel was lost

udpvars == <<tunnel, flow, endpoint, waiting, udpForwarder, udpHandler, udpHeader, socket, replies,
             udpCopier, udpReported, asked, served, udpAnswered, udpGot, udpLost>>

udpEnds == <<flow, asked, served, udpAnswered, udpGot, udpLost>>

UdpSide(g) == IF g \in {"fup", "fdown"} THEN "forwarder" ELSE "handler"

\* make(chan error, 2)
UdpErrCap == 2

UdpTypeOK ==
    /\ tunnel \in Streams(Seq(Nat))
    /\ flow \in Id /\ udpHeader \in Id
    /\ endpoint \in BOOLEAN /\ socket \in BOOLEAN /\ udpLost \in BOOLEAN
    /\ udpForwarder \in {"none", "dial", "header", "relay", "failed"}
    /\ udpHandler \in {"none", "parse", "relay"}
    /\ udpCopier \in [UdpCopier -> {"ended", "run", "error"}]
    /\ udpReported \in [{"forwarder", "handler"} -> 0 .. UdpErrCap]

UdpInit ==
    /\ tunnel = Unused
    /\ flow \in Id /\ udpHeader = flow
    /\ endpoint = FALSE /\ waiting = << >>
    /\ udpForwarder = "none" /\ udpHandler = "none"
    /\ socket = FALSE /\ replies = << >>
    /\ udpCopier = [g \in UdpCopier |-> "ended"]
    /\ udpReported = [s \in {"forwarder", "handler"} |-> 0]
    /\ asked = << >> /\ served = {} /\ udpAnswered = << >> /\ udpGot = {}
    /\ udpLost = FALSE

\* Nothing of an earlier flow runs.
Quiet == udpForwarder = "none" /\ udpHandler = "none" /\ \A g \in UdpCopier : udpCopier[g] = "ended"

-----------------------------------------------------------------------------
(* The application, the service and the network.                           *)

\* The application sends, and the tun device's reader injects the packet.  It runs the
\* function of the forwarder itself, so no packet is taken while that dials.
Ask(size) ==
    LET d == Datagram(Len(asked) + 1, size) IN
    /\ Len(asked) < MaxDatagrams
    /\ asked' = Append(asked, d)
    /\ \/ /\ endpoint /\ udpForwarder \in {"failed", "relay"}
          /\ waiting' = IF Len(waiting) < UdpWindow THEN Append(waiting, d) ELSE waiting
          /\ UNCHANGED <<endpoint, udpForwarder, udpReported>>
       \/ /\ ~endpoint /\ Quiet
          /\ endpoint' = TRUE /\ waiting' = <<d>>
          /\ udpForwarder' = "dial"
          /\ udpReported' = [s \in {"forwarder", "handler"} |-> 0]
    /\ UNCHANGED <<tunnel, flow, udpHandler, udpHeader, socket, replies, udpCopier, served, udpAnswered, udpGot, udpLost>>

\* The service answers the socket it has heard of.
Answer(size) ==
    /\ served # {} /\ socket /\ Len(udpAnswered) < MaxDatagrams /\ Len(replies) < UdpWindow
    /\ udpAnswered' = Append(udpAnswered, Datagram(Len(udpAnswered) + 1, size))
    /\ replies' = Append(replies, Datagram(Len(udpAnswered) + 1, size))
    /\ UNCHANGED <<tunnel, flow, endpoint, waiting, udpForwarder, udpHandler, udpHeader, socket, udpCopier,
                   udpReported, asked, served, udpGot, udpLost>>

UdpLoseTunnel ==
    /\ ~udpLost /\ udpForwarder \in {"header", "relay"}
    /\ udpLost' = TRUE
    /\ tunnel' \in Lost(tunnel)
    /\ UNCHANGED <<flow, endpoint, waiting, udpForwarder, udpHandler, udpHeader, socket, replies, udpCopier,
                   udpReported, asked, served, udpAnswered, udpGot>>

-----------------------------------------------------------------------------
(* The forwarder.                                                          *)

UdpDial ==
    /\ udpForwarder = "dial"
    /\ udpForwarder' = "header" /\ udpHandler' = "parse"
    /\ tunnel' = Dialled
    /\ UNCHANGED <<udpEnds, endpoint, waiting, udpHeader, socket, replies, udpCopier, udpReported>>

\* getConn fails and the function returns.  The endpoint stays registered, and what
\* comes for it is never read.
UdpDialFails ==
    /\ udpForwarder = "dial"
    /\ udpForwarder' = "failed"
    /\ UNCHANGED <<tunnel, udpEnds, endpoint, waiting, udpHandler, udpHeader, socket, replies, udpCopier, udpReported>>

\* The header is written, then the goroutines start.  When the write fails the function
\* returns, and only the collector closes the connection.
UdpWriteProxyInfo ==
    /\ udpForwarder = "header"
    /\ IF "up" \in tunnel.cut
       THEN /\ udpForwarder' = "failed"
            /\ tunnel' \in Closed(tunnel, "down")
            /\ UNCHANGED udpCopier
       ELSE /\ udpForwarder' = "relay"
            /\ tunnel' = Wrote(tunnel, "up", Header(flow))
            /\ udpCopier' = [udpCopier EXCEPT !["fup"] = "run", !["fdown"] = "run"]
    /\ UNCHANGED <<udpEnds, endpoint, waiting, udpHandler, udpHeader, socket, replies, udpReported>>

\* <-errChan, then the deferred Close of the tunnel connection and of the endpoint.
UdpForwarderReturns ==
    /\ udpForwarder = "relay" /\ udpReported["forwarder"] > 0
    /\ udpForwarder' = "none"
    /\ udpReported' = [udpReported EXCEPT !["forwarder"] = @ - 1]
    /\ tunnel' \in Closed(tunnel, "down")
    /\ endpoint' = FALSE /\ waiting' = << >>
    /\ UNCHANGED <<udpEnds, udpHandler, udpHeader, socket, replies, udpCopier>>

-----------------------------------------------------------------------------
(* The handler in the traffic manager.                                     *)

\* The header, then net.DialUDP and the goroutines of handle; or the stream ends first.
Parse ==
    /\ udpHandler = "parse"
    /\ \/ /\ Len(tunnel.q["up"]) >= 4
          /\ udpHeader' = Parsed(tunnel.q["up"])
          /\ tunnel' = Took(tunnel, "up", 4)
          /\ udpHandler' = "relay" /\ socket' = TRUE
          /\ udpCopier' = [udpCopier EXCEPT !["hup"] = "run", !["hdown"] = "run"]
       \/ /\ Len(tunnel.q["up"]) < 4 /\ "up" \in tunnel.cut
          /\ udpHandler' = "none"
          /\ tunnel' \in Closed(tunnel, "up")
          /\ UNCHANGED <<udpHeader, socket, udpCopier>>
    /\ UNCHANGED <<udpEnds, endpoint, waiting, udpForwarder, replies, udpReported>>

\* <-errChan, then the deferred Close of the socket and of the tunnel connection.
UdpHandlerReturns ==
    /\ udpHandler = "relay" /\ udpReported["handler"] > 0
    /\ udpHandler' = "none"
    /\ udpReported' = [udpReported EXCEPT !["handler"] = @ - 1]
    /\ tunnel' \in Closed(tunnel, "up")
    /\ socket' = FALSE /\ replies' = << >>
    /\ UNCHANGED <<udpEnds, endpoint, waiting, udpForwarder, udpHeader, udpCopier>>

-----------------------------------------------------------------------------
(* The goroutines.                                                         *)

\* io.CopyBuffer(remote, conn) of the forwarder; it writes nothing for an empty datagram.
SendUp ==
    /\ udpCopier["fup"] = "run" /\ endpoint /\ waiting # << >>
    /\ \/ Head(waiting) = << >> /\ UNCHANGED tunnel
       \/ /\ Head(waiting) # << >>
          /\ "up" \notin tunnel.cut /\ HasRoom(tunnel, "up", UdpWindow)
          /\ tunnel' = Wrote(tunnel, "up", Framed(Head(waiting)))
    /\ waiting' = Tail(waiting)
    /\ UNCHANGED <<udpEnds, endpoint, udpForwarder, udpHandler, udpHeader, socket, replies, udpCopier, udpReported>>

\* readDatagramPacket and udpConn.Write of the handler; the network may lose the packet.
DeliverUp ==
    LET s == tunnel.q["up"] IN
    /\ udpCopier["hup"] = "run" /\ socket
    /\ "up" \notin tunnel.gone /\ HasDatagram(s) /\ First(s) # << >>
    /\ served' \in {served, served \cup {First(s)}}
    /\ tunnel' = Took(tunnel, "up", s[1] + 1)
    /\ UNCHANGED <<flow, asked, udpAnswered, udpGot, udpLost, endpoint, waiting, udpForwarder, udpHandler, udpHeader,
                   socket, replies, udpCopier, udpReported>>

SendDown ==
    /\ udpCopier["hdown"] = "run" /\ socket /\ replies # << >> /\ Head(replies) # << >>
    /\ "down" \notin tunnel.cut /\ HasRoom(tunnel, "down", UdpWindow)
    /\ tunnel' = Wrote(tunnel, "down", Framed(Head(replies)))
    /\ replies' = Tail(replies)
    /\ UNCHANGED <<udpEnds, endpoint, waiting, udpForwarder, udpHandler, udpHeader, socket, udpCopier, udpReported>>

\* io.CopyBuffer(conn, remote) of the forwarder.
DeliverDown ==
    LET s == tunnel.q["down"] IN
    /\ udpCopier["fdown"] = "run" /\ endpoint
    /\ "down" \notin tunnel.gone /\ HasDatagram(s)
    /\ udpGot' = udpGot \cup {First(s)}
    /\ tunnel' = Took(tunnel, "down", s[1] + 1)
    /\ UNCHANGED <<flow, asked, served, udpAnswered, udpLost, endpoint, waiting, udpForwarder, udpHandler, udpHeader,
                   socket, replies, udpCopier, udpReported>>

\* The stream that g reads ends within a datagram or between two.
ReadFails(d) == d \in tunnel.gone \/ (d \in tunnel.cut /\ ~HasDatagram(tunnel.q[d]))

Fails(g) ==
    CASE g = "fup"   -> ~endpoint \/ (waiting # << >> /\ Head(waiting) # << >> /\ "up" \in tunnel.cut)
      [] g = "fdown" -> ReadFails("down") \/ ~endpoint
      [] g = "hup"   -> ReadFails("up") \/ ~socket
      [] g = "hdown" -> ~socket \/ (replies # << >> /\ (Head(replies) = << >> \/ "down" \in tunnel.cut))

\* A read or a write fails, or a reply is empty.
UdpCopyEnds(g) ==
    /\ udpCopier[g] = "run" /\ Fails(g)
    /\ udpCopier' = [udpCopier EXCEPT ![g] = "error"]
    /\ UNCHANGED <<tunnel, udpEnds, endpoint, waiting, udpForwarder, udpHandler, udpHeader, socket, replies, udpReported>>

\* The service's host answers that nothing listens: a call on the socket fails.
Refused(g) ==
    /\ g \in {"hup", "hdown"} /\ udpCopier[g] = "run" /\ served # {}
    /\ udpCopier' = [udpCopier EXCEPT ![g] = "error"]
    /\ UNCHANGED <<tunnel, udpEnds, endpoint, waiting, udpForwarder, udpHandler, udpHeader, socket, replies, udpReported>>

\* errChan <- err
UdpReport(g) ==
    /\ udpCopier[g] = "error" /\ udpReported[UdpSide(g)] < UdpErrCap
    /\ udpCopier' = [udpCopier EXCEPT ![g] = "ended"]
    /\ udpReported' = [udpReported EXCEPT ![UdpSide(g)] = @ + 1]
    /\ UNCHANGED <<tunnel, udpEnds, endpoint, waiting, udpForwarder, udpHandler, udpHeader, socket, replies>>

-----------------------------------------------------------------------------

UdpForwarderStep == UdpDial \/ UdpDialFails \/ UdpWriteProxyInfo \/ UdpForwarderReturns
UdpHandlerStep == Parse \/ UdpHandlerReturns
Passes(g) ==
    \/ g = "fup" /\ SendUp
    \/ g = "fdown" /\ DeliverDown
    \/ g = "hup" /\ DeliverUp
    \/ g = "hdown" /\ SendDown
UdpCopierStep(g) == Passes(g) \/ UdpCopyEnds(g) \/ UdpReport(g)

UdpNext ==
    \/ \E size \in Size : Ask(size) \/ Answer(size)
    \/ UdpLoseTunnel
    \/ UdpForwarderStep \/ UdpHandlerStep
    \/ \E g \in UdpCopier : UdpCopierStep(g) \/ Refused(g)

\* The goroutines are scheduled.
UdpFairness ==
    /\ WF_udpvars(UdpForwarderStep) /\ WF_udpvars(UdpHandlerStep)
    /\ \A g \in UdpCopier : WF_udpvars(UdpCopierStep(g))

UdpSpec == UdpInit /\ [][UdpNext]_udpvars /\ UdpFairness

-----------------------------------------------------------------------------

Elements(s) == {s[k] : k \in DOMAIN s}

\* The service the flow is for receives datagrams that the application sent, whole and
\* unmixed, and so does the application: header and lengths keep the stream in step, and
\* a datagram that a lost connection cuts short is not delivered.
DatagramsIntact ==
    /\ socket => udpHeader.LocalAddress = flow.LocalAddress /\ udpHeader.LocalPort = flow.LocalPort
    /\ served \subseteq Elements(asked)
    /\ udpGot \subseteq Elements(udpAnswered)

\* Once the tunnel of a flow has ended for one of its sides, both sides let go of it: no
\* goroutine, socket or endpoint is left, so that the next datagram begins a new flow.
\* Only the endpoint of a flow that never got a tunnel stays.
UdpReleased == []<>(tunnel.cut # {} /\ udpForwarder # "failed" => Quiet /\ ~endpoint /\ ~socket)
=============================================================================
