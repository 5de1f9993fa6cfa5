----------------------------- MODULE PeerProofs -----------------------------
(***************************************************************************)
(* transportTun never waits for a Peer that has stopped routing, for any   *)
(* number of restarts and any capacity of the channels.                    *)
(***************************************************************************)
EXTENDS Peer, TLAPS

\* The types that the proof needs, without those of the channels.
Types ==
    /\ phase \in {"listen", "serve", "returned"}
    /\ cur \in 0 .. Peers
    /\ readConn \in [PeerId -> BOOLEAN]
    /\ routePeer \in [PeerId -> BOOLEAN]
    /\ routeTUN \in [PeerId -> BOOLEAN]
    /\ errChan \in [PeerId -> 0 .. 2]

\* sendErr drops errors only when there is one already, and only transportTun
\* takes them out.
IInv == Types /\ PeerWatched /\ (phase = "serve" => cur \in PeerId)

LEMMA InitIInv == PeerInit => IInv
BY PeersAssumption DEF PeerInit, IInv, Types, PeerWatched, PeerId

\* sendErr leaves at least one error and at most as many as the channel holds.
LEMMA SendErrLeavesOne == \A n \in 0 .. 2 : SendErr(n) \in 1 .. 2
BY DEF SendErr

LEMMA NextIInv == IInv /\ [PeerNext]_peerVars => IInv'
<1> SUFFICES ASSUME IInv, [PeerNext]_peerVars PROVE IInv'
  OBVIOUS
<1> USE PeersAssumption DEF IInv, Types, PeerWatched, PeerId
<1>1. ASSUME NEW e \in Packet, Receive(e) \/ ReadFromTun(e) PROVE IInv'
  BY <1>1 DEF Receive, ReadFromTun, local
<1>2. CASE Start
  BY <1>2 DEF Start
<1>3. CASE ListenError
  BY <1>3 DEF ListenError, local
<1>4. CASE Restart
  BY <1>4 DEF Restart
<1>5. ASSUME NEW p \in PeerId, NEW e \in Packet, ReadFromConn(p, e) PROVE IInv'
  BY <1>5 DEF ReadFromConn
<1>6. ASSUME NEW p \in PeerId, ReadFromConnError(p) PROVE IInv'
  BY <1>6, SendErrLeavesOne DEF ReadFromConnError
<1>7. ASSUME NEW p \in PeerId, ReadFromTCPConn(p) \/ PassOn(p) PROVE IInv'
  BY <1>7 DEF ReadFromTCPConn, PassOn
<1>8. ASSUME NEW p \in PeerId, RoutePeer(p) PROVE IInv'
  <2>1. CASE Fails(p, Head(parsed[p]))
    <3>1. SendErr(errChan[p]) \in 1 .. 2
      BY SendErrLeavesOne
    <3>2. /\ errChan' = [errChan EXCEPT ![p] = SendErr(errChan[p])]
          /\ routePeer' = [routePeer EXCEPT ![p] = FALSE]
          /\ UNCHANGED <<phase, cur, readConn, routeTUN>>
      BY <1>8, <2>1 DEF RoutePeer
    <3> QED
      BY <3>1, <3>2
  <2>2. CASE ~Fails(p, Head(parsed[p]))
    BY <1>8, <2>2 DEF RoutePeer
  <2> QED
    BY <2>1, <2>2
<1>9. ASSUME NEW p \in PeerId, RouteTUN(p) PROVE IInv'
  <2>1. CASE Fails(p, Head(tunInbound))
    <3>1. SendErr(errChan[p]) \in 1 .. 2
      BY SendErrLeavesOne
    <3>2. /\ errChan' = [errChan EXCEPT ![p] = SendErr(errChan[p])]
          /\ routeTUN' = [routeTUN EXCEPT ![p] = FALSE]
          /\ UNCHANGED <<phase, cur, readConn, routePeer>>
      BY <1>9, <2>1 DEF RouteTUN
    <3> QED
      BY <3>1, <3>2
  <2>2. CASE ~Fails(p, Head(tunInbound))
    BY <1>9, <2>2 DEF RouteTUN
  <2> QED
    BY <2>1, <2>2
<1>10. CASE UNCHANGED peerVars
  BY <1>10 DEF peerVars
<1> QED
  BY <1>1, <1>2, <1>3, <1>4, <1>5, <1>6, <1>7, <1>8, <1>9, <1>10 DEF PeerNext

\* The Peer that transportTun waits for runs all its goroutines, or an error is
\* in errChan.
THEOREM PeersAreWatched == PeerSpec => []PeerWatched
<1>1. IInv => PeerWatched
  BY DEF IInv
<1> QED
  BY InitIInv, NextIInv, <1>1, PTL DEF PeerSpec
=============================================================================
