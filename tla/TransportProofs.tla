-------------------------- MODULE TransportProofs --------------------------
(***************************************************************************)
(* HandleClient never waits for a transport that has silently stopped, for *)
(* any number of transports and any capacity of tunInbound.                *)
(***************************************************************************)
EXTENDS Transport, TLAPS

IInv == TransportTypeOK /\ TransportWatched

LEMMA InitIInv == TransportInit => IInv
<1> SUFFICES ASSUME TransportInit PROVE IInv
  OBVIOUS
<1>1. << >> \in Seq(Destination) /\ Len(<< >>) <= MaxInbound
  BY MaxInboundAssumption
<1> QED
  BY <1>1, TransportsAssumption DEF TransportInit, IInv, TransportTypeOK, TransportWatched

\* Taking a packet from tunInbound.
LEMMA TakePacket ==
    ASSUME TransportTypeOK, inbound # << >>
    PROVE  Tail(inbound) \in Seq(Destination) /\ Len(Tail(inbound)) <= MaxInbound
BY MaxInboundAssumption DEF TransportTypeOK

LEMMA NextIInv == IInv /\ [TransportNext]_transportVars => IInv'
<1> SUFFICES ASSUME IInv, [TransportNext]_transportVars PROVE IInv'
  OBVIOUS
<1> USE TransportsAssumption DEF IInv, TransportWatched
<1>1. ASSUME NEW e \in Destination, TunPacket(e) PROVE IInv'
  <2>1. Append(inbound, e) \in Seq(Destination) /\ Len(Append(inbound, e)) <= MaxInbound
    BY <1>1, MaxInboundAssumption DEF TunPacket, TransportTypeOK
  <2> QED
    BY <1>1, <2>1 DEF TunPacket, TransportTypeOK
<1>2. ASSUME NEW t \in Transports, Break(t) PROVE IInv'
  BY <1>2 DEF Break, TransportTypeOK
<1>3. ASSUME NEW t \in Transports, Dial(t) PROVE IInv'
  BY <1>3 DEF Dial, TransportTypeOK
<1>4. ASSUME NEW t \in Transports, Write(t) PROVE IInv'
  BY <1>4, TakePacket DEF Write, TransportTypeOK
<1>5. ASSUME NEW t \in Transports, Loop(t) PROVE IInv'
  BY <1>5, TakePacket DEF Loop, TransportTypeOK
<1>6. ASSUME NEW t \in Transports, ReadError(t) PROVE IInv'
  BY <1>6 DEF ReadError, TransportTypeOK
<1>7. ASSUME NEW t \in Transports, WriterEnds(t) PROVE IInv'
  BY <1>7 DEF WriterEnds, Sendable, ErrCap, TransportTypeOK
<1>8. ASSUME NEW t \in Transports, ReaderEnds(t) PROVE IInv'
  BY <1>8 DEF ReaderEnds, Sendable, ErrCap, TransportTypeOK
<1>9. ASSUME NEW t \in Transports, TransportReturns(t) PROVE IInv'
  BY <1>9 DEF TransportReturns, TransportTypeOK
<1>10. CASE Cancel
  BY <1>10 DEF Cancel, TransportTypeOK
<1>11. CASE UNCHANGED transportVars
  BY <1>11 DEF transportVars, TransportTypeOK
<1> QED
  BY <1>1, <1>2, <1>3, <1>4, <1>5, <1>6, <1>7, <1>8, <1>9, <1>10, <1>11 DEF TransportNext, Goroutine

\* The transport that HandleClient waits for works, or its error is there.
THEOREM TransportsAreWatched == TransportSpec => []TransportWatched
<1>1. IInv => TransportWatched
  BY DEF IInv
<1> QED
  BY InitIInv, NextIInv, <1>1, PTL DEF TransportSpec
=============================================================================
