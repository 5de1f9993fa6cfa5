----------------------------- MODULE Transport -----------------------------
(***************************************************************************)
(* The machine's end of the tunnel: HandleClient dials the traffic manager *)
(* again and again, and each transportTunClient runs a goroutine that      *)
(* writes the packets of the tun device to its connection and one that     *)
(* reads from it (pkg/core/tunhandlerclient.go).  The first error ends the *)
(* transport; the other goroutine is left to notice by itself.             *)
(*                                                                         *)
(* The goroutines of earlier transports share tunInbound with the current  *)
(* one.  A transport is used again when its goroutines have ended, so      *)
(* Transports bounds only those whose goroutines run at the same time.     *)
(***************************************************************************)
EXTENDS DataPlane, Sequences, FiniteSets

\* Where a packet of the tun device goes: to the manager, or to the machine's
\* own address.
Destination == {"out", "self"}

VARIABLES
    main,       \* the transport of the loop in HandleClient
    open,       \* transports whose connection can be used
    writer,     \* the goroutine that writes: running, with an error, or ended
    reader,     \* the goroutine that reads
    errors,     \* errors in errChan of the transport
    inbound     \* tunInbound

transportVars == <<main, open, writer, reader, errors, inbound>>

\* Mutant: make(chan error).
Unbuffered == 0

\* make(chan error, 2)
ErrCap == 2

TransportTypeOK ==
    /\ main \in Transports \cup {Dialing, Stopped}
    /\ open \subseteq Transports
    /\ writer \in [Transports -> {"ended", "run", "error"}]
    /\ reader \in [Transports -> {"ended", "run", "error"}]
    /\ errors \in [Transports -> 0 .. 2]
    /\ inbound \in Seq(Destination) /\ Len(inbound) <= MaxInbound

TransportInit ==
    /\ main = Dialing
    /\ open = {}
    /\ writer = [t \in Transports |-> "ended"]
    /\ reader = [t \in Transports |-> "ended"]
    /\ errors = [t \in Transports |-> 0]
    /\ inbound = << >>

Ended(t) == writer[t] = "ended" /\ reader[t] = "ended"

-----------------------------------------------------------------------------

\* The tun device or the heartbeats deliver a packet.
TunPacket(e) ==
    /\ Len(inbound) < MaxInbound
    /\ inbound' = Append(inbound, e)
    /\ UNCHANGED <<main, open, writer, reader, errors>>

\* The network breaks a connection.
Break(t) ==
    /\ t \in open
    /\ open' = open \ {t}
    /\ UNCHANGED <<main, writer, reader, errors, inbound>>

\* getRemotePacketConn succeeds, and transportTunClient starts; a failed dial
\* is tried again.
Dial(t) ==
    /\ main = Dialing /\ Ended(t)
    /\ main' = t
    /\ open' = open \cup {t}
    /\ writer' = [writer EXCEPT ![t] = "run"]
    /\ reader' = [reader EXCEPT ![t] = "run"]
    /\ errors' = [errors EXCEPT ![t] = 0]
    /\ UNCHANGED inbound

\* The writer takes a packet for the manager, which is lost when the connection
\* is broken or closed.
Write(t) ==
    /\ writer[t] = "run" /\ inbound # << >> /\ Head(inbound) = "out"
    /\ inbound' = Tail(inbound)
    /\ writer' = [writer EXCEPT ![t] = IF t \in open THEN "run" ELSE "error"]
    /\ UNCHANGED <<main, open, reader, errors>>

\* A packet to the machine itself goes back to the tun device.
Loop(t) ==
    /\ writer[t] = "run" /\ inbound # << >> /\ Head(inbound) = "self"
    /\ inbound' = Tail(inbound)
    /\ UNCHANGED <<main, open, writer, reader, errors>>

ReadError(t) ==
    /\ reader[t] = "run" /\ t \notin open
    /\ reader' = [reader EXCEPT ![t] = "error"]
    /\ UNCHANGED <<main, open, writer, errors, inbound>>

\* Mutant: the writer returns without errChan <- err.
WriterReturns(t) ==
    /\ writer[t] = "error"
    /\ writer' = [writer EXCEPT ![t] = "ended"]
    /\ UNCHANGED <<main, open, reader, errors, inbound>>

\* errChan <- err, which waits while the channel is full, or, when it has no
\* buffer, until transportTunClient receives.
Sendable(t) == errors[t] < ErrCap \/ (main = t /\ errors[t] = 0)

WriterEnds(t) ==
    /\ writer[t] = "error" /\ Sendable(t)
    /\ writer' = [writer EXCEPT ![t] = "ended"]
    /\ errors' = [errors EXCEPT ![t] = @ + 1]
    /\ UNCHANGED <<main, open, reader, inbound>>

ReaderEnds(t) ==
    /\ reader[t] = "error" /\ Sendable(t)
    /\ reader' = [reader EXCEPT ![t] = "ended"]
    /\ errors' = [errors EXCEPT ![t] = @ + 1]
    /\ UNCHANGED <<main, open, writer, inbound>>

\* transportTunClient receives an error and closes its connection.
TransportReturns(t) ==
    /\ main = t /\ errors[t] > 0
    /\ errors' = [errors EXCEPT ![t] = @ - 1]
    /\ open' = open \ {t}
    /\ main' = Dialing
    /\ UNCHANGED <<writer, reader, inbound>>

\* The context is done: the transport closes its connection, the loop ends.
Cancel ==
    /\ main # Stopped
    /\ open' = open \ {main}
    /\ main' = Stopped
    /\ UNCHANGED <<writer, reader, errors, inbound>>

-----------------------------------------------------------------------------
Goroutine(t) == ReadError(t) \/ WriterEnds(t) \/ ReaderEnds(t) \/ TransportReturns(t)

TransportNext ==
    \/ \E e \in Destination : TunPacket(e)
    \/ \E t \in Transports : Break(t) \/ Dial(t) \/ Write(t) \/ Loop(t) \/ Goroutine(t)
    \/ Cancel

\* Goroutines that can go on do; the heartbeats send packets again and again; and
\* the receivers of a channel are served in the order in which they wait, so that
\* every writer gets its packets, some of them for the manager.
TransportFairness ==
    /\ \A t \in Transports : WF_transportVars(ReadError(t)) /\ WF_transportVars(WriterEnds(t)) /\ WF_transportVars(ReaderEnds(t))
    /\ \A t \in Transports : WF_transportVars(TransportReturns(t)) /\ SF_transportVars(Write(t)) /\ SF_transportVars(Loop(t))
    /\ SF_transportVars(TunPacket("out"))

TransportSpec == TransportInit /\ [][TransportNext]_transportVars /\ TransportFairness

-----------------------------------------------------------------------------
\* The transport that HandleClient waits for has both goroutines at work, or an
\* error that ends the wait is there or on its way: the loop never waits for a
\* transport that has silently stopped.
TransportWatched ==
    \A t \in Transports : main = t => errors[t] > 0 \/ (writer[t] # "ended" /\ reader[t] # "ended")

\* Both goroutines of a transport that HandleClient has left end, although
\* nobody receives from errChan any more: none is left behind to take the packets
\* of later transports.
LeftGoroutinesEnd == \A t \in Transports : (main # t) ~> (Ended(t) \/ main = t)
=============================================================================
