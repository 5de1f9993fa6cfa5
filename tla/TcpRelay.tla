------------------------------ MODULE TcpRelay ------------------------------
(***************************************************************************)
(* A TCP connection of an application through the gvisor engine: the       *)
(* forwarder on the machine ends it and relays its bytes over a tunnel     *)
(* connection (pkg/core/gvisortcpforwarder.go), whose other end in the     *)
(* traffic manager dials the service named by the header and relays too    *)
(* (pkg/core/gvisortcphandler.go).                                         *)
(*                                                                         *)
(* Each relay is two goroutines, one for a direction, and the first that   *)
(* ends ends it.  The application sends Bytes bytes, the service answers   *)
(* with as many once it has read them; either may leave at any time, and   *)
(* the tunnel may be lost once.                                            *)
(***************************************************************************)
EXTENDS ProxyInfo

CONSTANTS
    Bytes,  \* the length of a request and of an answer
    Window  \* how many unread bytes a connection holds

Near == 1      \* from the application to the forwarder
Tunnel == 2    \* from the forwarder to the traffic manager
Far == 3       \* from the traffic manager to the service

\* The goroutines: those of the forwarder and those of the handler.
Copier == {"fup", "fdown", "hup", "hdown"}
Way(g) == IF g \in {"fup", "hup"} THEN "up" ELSE "down"
Side(g) == IF g \in {"fup", "fdown"} THEN "forwarder" ELSE "handler"
From(g) == CASE g = "fup" -> Near [] g = "hdown" -> Far [] OTHER -> Tunnel
To(g) == CASE g = "hup" -> Far [] g = "fdown" -> Near [] OTHER -> Tunnel

VARIABLES
    conn,       \* the connections
    id,         \* what the application connects to
    app,        \* the application
    got,        \* what it has received
    sent,       \* how many bytes it has sent
    forwarder,  \* the function of TCPForwarder
    handler,    \* gvisorTCPHandler.Handle
    header,     \* what ParseProxyInfo returned
    copier,     \* the goroutines
    reported,   \* errChan of each side
    svc,        \* the service
    read,       \* what it has received
    answered,   \* how many bytes it has sent
    lost        \* the tunnel was lost

tcpvars == <<conn, id, app, got, sent, forwarder, handler, header, copier, reported,
             svc, read, answered, lost>>

relay == <<forwarder, handler, header, copier, reported>>
ends == <<id, app, got, sent, svc, read, answered>>

\* make(chan error, 2)
ErrCap == 2

\* The first n bytes of the request, and of the answer.
Count(n) == [k \in 1 .. n |-> k]

TcpTypeOK ==
    /\ conn \in [1 .. 3 -> Streams(Seq(Nat))]
    /\ id \in Id
    /\ app \in {"idle", "syn", "open", "shut", "closed"}
    /\ sent \in 0 .. Bytes /\ answered \in 0 .. Bytes
    /\ forwarder \in {"none", "dial", "header", "endpoint", "relay", "done"}
    /\ handler \in {"none", "parse", "dial", "relay", "done"}
    /\ header \in Id
    /\ copier \in [Copier -> {"ended", "run", "error"}]
    /\ reported \in [{"forwarder", "handler"} -> 0 .. ErrCap]
    /\ svc \in {"none", "open", "done", "left"}
    /\ lost \in BOOLEAN

TcpInit ==
    /\ conn = [h \in 1 .. 3 |-> Unused]
    /\ id \in Id /\ header = id
    /\ app = "idle" /\ got = << >> /\ sent = 0
    /\ forwarder = "none" /\ handler = "none"
    /\ copier = [g \in Copier |-> "ended"]
    /\ reported = [s \in {"forwarder", "handler"} |-> 0]
    /\ svc = "none" /\ read = << >> /\ answered = 0
    /\ lost = FALSE

-----------------------------------------------------------------------------
(* The application and the service.                                        *)

\* The SYN is sent again until an endpoint answers.
Connect ==
    /\ app = "idle"
    /\ app' = "syn"
    /\ UNCHANGED <<conn, id, got, sent, svc, read, answered, relay, lost>>

Send ==
    /\ app = "open" /\ sent < Bytes
    /\ "up" \notin conn[Near].cut /\ HasRoom(conn[Near], "up", Window)
    /\ sent' = sent + 1
    /\ conn' = [conn EXCEPT ![Near] = Wrote(@, "up", <<sent + 1>>)]
    /\ UNCHANGED <<id, app, got, svc, read, answered, relay, lost>>

Receive ==
    /\ app \in {"open", "shut"} /\ HasData(conn[Near], "down")
    /\ got' = Append(got, Head(conn[Near].q["down"]))
    /\ conn' = [conn EXCEPT ![Near] = Took(@, "down", 1)]
    /\ UNCHANGED <<id, app, sent, svc, read, answered, relay, lost>>

\* shutdown(SHUT_WR)
HalfClose ==
    /\ app = "open"
    /\ app' = "shut"
    /\ conn' = [conn EXCEPT ![Near].cut = @ \cup {"up"}]
    /\ UNCHANGED <<id, got, sent, svc, read, answered, relay, lost>>

Leave ==
    /\ app \in {"syn", "open", "shut"}
    /\ app' = "closed"
    /\ \E c \in Closed(conn[Near], "down") : conn' = [conn EXCEPT ![Near] = c]
    /\ UNCHANGED <<id, got, sent, svc, read, answered, relay, lost>>

ServiceReads ==
    /\ svc = "open" /\ HasData(conn[Far], "up")
    /\ read' = Append(read, Head(conn[Far].q["up"]))
    /\ conn' = [conn EXCEPT ![Far] = Took(@, "up", 1)]
    /\ UNCHANGED <<id, app, got, sent, svc, answered, relay, lost>>

ServiceAnswers ==
    /\ svc = "open" /\ Len(read) = Bytes /\ answered < Bytes
    /\ "down" \notin conn[Far].cut /\ HasRoom(conn[Far], "down", Window)
    /\ answered' = answered + 1
    /\ conn' = [conn EXCEPT ![Far] = Wrote(@, "down", <<answered + 1>>)]
    /\ UNCHANGED <<id, app, got, sent, svc, read, relay, lost>>

\* It has answered, or it gives up.
ServiceCloses ==
    /\ svc = "open"
    /\ svc' = IF answered = Bytes THEN "done" ELSE "left"
    /\ \E c \in Closed(conn[Far], "up") : conn' = [conn EXCEPT ![Far] = c]
    /\ UNCHANGED <<id, app, got, sent, read, answered, relay, lost>>

\* The port-forward under the tunnel connection ends, or its network fails.
LoseTunnel ==
    /\ ~lost /\ forwarder \in {"header", "endpoint", "relay"}
    /\ lost' = TRUE
    /\ \E c \in Lost(conn[Tunnel]) : conn' = [conn EXCEPT ![Tunnel] = c]
    /\ UNCHANGED <<ends, relay>>

-----------------------------------------------------------------------------
(* The forwarder.                                                          *)

\* tcp.NewForwarder runs the function for a SYN of a connection that it has not in
\* flight.  The handler of a tunnel that was lost before its header has ended by the
\* time the SYN is sent again.
TakeSyn ==
    /\ app = "syn" /\ forwarder = "none" /\ handler \in {"none", "done"}
    /\ forwarder' = "dial"
    /\ UNCHANGED <<conn, ends, handler, header, copier, reported, lost>>

\* forwardChain.dial through the port-forward, and ListenAndServe of the manager,
\* which accepts the connection.
Dial ==
    /\ forwarder = "dial"
    /\ forwarder' = "header" /\ handler' = "parse"
    /\ conn' = [conn EXCEPT ![Tunnel] = Dialled]
    /\ UNCHANGED <<ends, header, copier, reported, lost>>

\* A failed step completes the request without a reset: the next SYN starts over.
DialFails ==
    /\ forwarder = "dial"
    /\ forwarder' = "none"
    /\ UNCHANGED <<conn, ends, handler, header, copier, reported, lost>>

\* When the write fails nothing closes the connection but the collector, as in
\* CreateEndpoint.
WriteProxyInfo ==
    /\ forwarder = "header"
    /\ IF "up" \in conn[Tunnel].cut
       THEN /\ forwarder' = "none"
            /\ \E c \in Closed(conn[Tunnel], "down") : conn' = [conn EXCEPT ![Tunnel] = c]
       ELSE /\ forwarder' = "endpoint"
            /\ conn' = [conn EXCEPT ![Tunnel] = Wrote(@, "up", Header(id))]
    /\ UNCHANGED <<ends, handler, header, copier, reported, lost>>

\* The handshake with the application.  It only fails when the application has left.
CreateEndpoint ==
    /\ forwarder = "endpoint"
    /\ IF app = "syn"
       THEN /\ forwarder' = "relay" /\ app' = "open"
            /\ conn' = [conn EXCEPT ![Near] = Dialled]
            /\ copier' = [copier EXCEPT !["fup"] = "run", !["fdown"] = "run"]
       ELSE /\ forwarder' = "done"
            /\ \E c \in Closed(conn[Tunnel], "down") : conn' = [conn EXCEPT ![Tunnel] = c]
            /\ UNCHANGED <<app, copier>>
    /\ UNCHANGED <<id, got, sent, svc, read, answered, handler, header, reported, lost>>

\* <-errChan, then the deferred Close of both connections.
ForwarderReturns ==
    /\ forwarder = "relay" /\ reported["forwarder"] > 0
    /\ forwarder' = "done"
    /\ reported' = [reported EXCEPT !["forwarder"] = @ - 1]
    /\ \E c \in Closed(conn[Tunnel], "down"), e \in Closed(conn[Near], "up") :
           conn' = [conn EXCEPT ![Tunnel] = c, ![Near] = e]
    /\ UNCHANGED <<ends, handler, header, copier, lost>>

-----------------------------------------------------------------------------
(* The handler in the traffic manager.                                     *)

\* io.ReadFull for each field: it waits for all of them, or fails when the stream ends.
ParseProxyInfo ==
    /\ handler = "parse"
    /\ \/ /\ Len(conn[Tunnel].q["up"]) >= 4
          /\ header' = Parsed(conn[Tunnel].q["up"])
          /\ handler' = "dial"
          /\ conn' = [conn EXCEPT ![Tunnel] = Took(@, "up", 4)]
       \/ /\ Len(conn[Tunnel].q["up"]) < 4 /\ "up" \in conn[Tunnel].cut
          /\ handler' = "done"
          /\ \E c \in Closed(conn[Tunnel], "up") : conn' = [conn EXCEPT ![Tunnel] = c]
          /\ UNCHANGED header
    /\ UNCHANGED <<ends, forwarder, copier, reported, lost>>

\* net.DialTimeout
DialService ==
    /\ handler = "dial"
    /\ handler' = "relay" /\ svc' = "open"
    /\ conn' = [conn EXCEPT ![Far] = Dialled]
    /\ copier' = [copier EXCEPT !["hup"] = "run", !["hdown"] = "run"]
    /\ UNCHANGED <<id, app, got, sent, read, answered, forwarder, header, reported, lost>>

DialServiceFails ==
    /\ handler = "dial"
    /\ handler' = "done"
    /\ \E c \in Closed(conn[Tunnel], "up") : conn' = [conn EXCEPT ![Tunnel] = c]
    /\ UNCHANGED <<ends, forwarder, header, copier, reported, lost>>

\* <-errChan, then the deferred Close of the tunnel connection.  The connection to the
\* service is not closed here.
HandlerReturns ==
    /\ handler = "relay" /\ reported["handler"] > 0
    /\ handler' = "done"
    /\ reported' = [reported EXCEPT !["handler"] = @ - 1]
    /\ \E c \in Closed(conn[Tunnel], "up") : conn' = [conn EXCEPT ![Tunnel] = c]
    /\ UNCHANGED <<ends, forwarder, header, copier, lost>>

\* The collector closes the connection to the service when no goroutine uses it.
Collect ==
    /\ handler = "done" /\ "down" \notin conn[Far].gone
    /\ copier["hup"] = "ended" /\ copier["hdown"] = "ended"
    /\ \E c \in Closed(conn[Far], "down") : conn' = [conn EXCEPT ![Far] = c]
    /\ UNCHANGED <<ends, relay, lost>>

-----------------------------------------------------------------------------
(* io.CopyBuffer of the four goroutines.                                   *)

Copy(g) ==
    /\ copier[g] = "run"
    /\ ~AtEnd(conn[From(g)], Way(g)) /\ HasData(conn[From(g)], Way(g))
    /\ Way(g) \notin conn[To(g)].cut /\ HasRoom(conn[To(g)], Way(g), Window)
    /\ conn' = [conn EXCEPT ![From(g)] = Took(@, Way(g), 1),
                            ![To(g)] = Wrote(@, Way(g), <<Head(conn[From(g)].q[Way(g)])>>)]
    /\ UNCHANGED <<ends, relay, lost>>

\* Mutant: the stream is taken to end before what is queued was read.
CopyEndsEarly(g) ==
    /\ copier[g] = "run"
    /\ Way(g) \in conn[From(g)].cut \/ Way(g) \in conn[To(g)].cut
    /\ copier' = [copier EXCEPT ![g] = "error"]
    /\ UNCHANGED <<conn, ends, forwarder, handler, header, reported, lost>>

\* The source is at its end, or a write fails.
CopyEnds(g) ==
    /\ copier[g] = "run"
    /\ \/ AtEnd(conn[From(g)], Way(g))
       \/ HasData(conn[From(g)], Way(g)) /\ Way(g) \in conn[To(g)].cut
    /\ copier' = [copier EXCEPT ![g] = "error"]
    /\ UNCHANGED <<conn, ends, forwarder, handler, header, reported, lost>>

\* errChan <- err2
Report(g) ==
    /\ copier[g] = "error" /\ reported[Side(g)] < ErrCap
    /\ copier' = [copier EXCEPT ![g] = "ended"]
    /\ reported' = [reported EXCEPT ![Side(g)] = @ + 1]
    /\ UNCHANGED <<conn, ends, forwarder, handler, header, lost>>

-----------------------------------------------------------------------------

\* What the forwarder, the handler and their goroutines do.
ForwarderStep == TakeSyn \/ Dial \/ DialFails \/ WriteProxyInfo \/ CreateEndpoint \/ ForwarderReturns
HandlerStep == ParseProxyInfo \/ DialService \/ DialServiceFails \/ HandlerReturns
CopierStep(g) == Copy(g) \/ CopyEnds(g) \/ Report(g)

TcpNext ==
    \/ Connect \/ Send \/ Receive \/ HalfClose \/ Leave
    \/ ServiceReads \/ ServiceAnswers \/ ServiceCloses
    \/ LoseTunnel \/ Collect
    \/ ForwarderStep \/ HandlerStep
    \/ \E g \in Copier : CopierStep(g)

\* The goroutines are scheduled; the two ends read what has arrived.
TcpFairness ==
    /\ WF_tcpvars(ForwarderStep) /\ WF_tcpvars(HandlerStep)
    /\ \A g \in Copier : WF_tcpvars(CopierStep(g))
    /\ WF_tcpvars(Receive) /\ WF_tcpvars(ServiceReads)

TcpSpec == TcpInit /\ [][TcpNext]_tcpvars /\ TcpFairness

-----------------------------------------------------------------------------

\* The service that is dialled is the one the application asked for, and what the two
\* ends receive is the beginning of what the other sent: the header of the tunnel is
\* read off exactly, and no byte is lost in the middle or out of order, whichever
\* connection breaks when.
StreamIntact ==
    /\ svc # "none" => /\ header.LocalAddress = id.LocalAddress
                       /\ header.LocalPort = id.LocalPort
    /\ read \in Prefixes(Count(sent))
    /\ got \in Prefixes(Count(answered))

\* The answer of a service that has answered in full and closed reaches an application
\* that is still there with both directions open, unless the tunnel is lost: the relays
\* pass on what is queued before they close.
AnswerArrives == []<>(svc = "done" => got = Count(Bytes) \/ app # "open" \/ lost)

\* The flow is over for one of its parties.
Over ==
    \/ app \in {"shut", "closed"}
    \/ svc \in {"done", "left"}
    \/ forwarder \in {"relay", "done"} /\ conn[Tunnel].cut # {}

\* Both relays and their goroutines have ended.  The goroutine that reads the service
\* stays as long as the service keeps the connection.
Released ==
    /\ forwarder \in {"none", "done"} /\ handler \in {"none", "done"}
    /\ \A g \in Copier \ {"hdown"} : copier[g] = "ended"
    /\ svc \in {"done", "left"} => copier["hdown"] = "ended"

\* When a party leaves or the tunnel is lost, both relays end and leave no goroutine
\* behind but the one that reads a service which stays.
FlowReleased == []<>(Over => Released)
=============================================================================
