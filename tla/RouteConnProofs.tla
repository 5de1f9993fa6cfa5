-------------------------- MODULE RouteConnProofs --------------------------
(***************************************************************************)
(* No route outlives the handler of its connection, for any number of      *)
(* addresses and connections.                                              *)
(***************************************************************************)
EXTENDS RouteConn, TLAPS

\* Only the handler of a connection stores routes to it, and not after it has
\* collected the keys: whatever is left to delete is in keys.
IInv ==
    /\ RouteTypeOK
    /\ NoDeadRoute
    /\ \A c \in Conn : handling[c] = "delete" => \A ip \in Ip : route[ip] = c => ip \in keys[c]
    /\ \A c \in Conn : handling[c] = "store" => stream[c] # << >>

LEMMA InitIInv == RouteInit => IInv
<1> SUFFICES ASSUME RouteInit PROVE IInv
  OBVIOUS
<1>1. << >> \in Seq(Ip) /\ Len(<< >>) = 0
  OBVIOUS
<1>2. RouteTypeOK
  BY <1>1, MaxStreamAssumption DEF RouteInit, RouteTypeOK
<1> QED
  BY <1>2, NoConnAssumption DEF RouteInit, IInv, NoDeadRoute

\* The first datagram of a stream is taken out of it.
LEMMA TakeDatagram ==
    ASSUME RouteTypeOK, NEW c \in Conn, stream[c] # << >>
    PROVE  /\ Head(stream[c]) \in Ip
           /\ Tail(stream[c]) \in Seq(Ip)
           /\ Len(Tail(stream[c])) <= MaxStream
<1>1. stream[c] \in Seq(Ip) /\ Len(stream[c]) <= MaxStream
  BY DEF RouteTypeOK
<1> QED
  BY <1>1, MaxStreamAssumption

LEMMA NextIInv == IInv /\ [RouteNext]_routeVars => IInv'
<1> SUFFICES ASSUME IInv, [RouteNext]_routeVars PROVE IInv'
  OBVIOUS
<1> USE MaxStreamAssumption, NoConnAssumption DEF IInv, RouteTypeOK, NoDeadRoute
<1>1. ASSUME NEW c \in Conn, MachineDials(c) PROVE IInv'
  BY <1>1 DEF MachineDials
<1>2. ASSUME NEW ip \in Ip, Send(ip) PROVE IInv'
  <2>1. inUse \in Conn
    BY <1>2 DEF Send
  <2>2. stream[inUse] \in Seq(Ip) /\ Len(stream[inUse]) < MaxStream
    BY <1>2, <2>1 DEF Send
  <2> DEFINE longer == Append(stream[inUse], ip)
  <2>3. longer \in Seq(Ip) /\ Len(longer) <= MaxStream
    BY <2>2
  <2>4. longer # << >>
    <3>1. Len(longer) = Len(stream[inUse]) + 1 /\ Len(stream[inUse]) \in Nat
      BY <2>2
    <3>2. Len(<< >>) = 0
      OBVIOUS
    <3> HIDE DEF longer
    <3> QED
      BY <3>1, <3>2
  <2>5. stream' = [stream EXCEPT ![inUse] = longer] /\ UNCHANGED <<route, inUse, up, handling, keys>>
    BY <1>2 DEF Send
  <2> HIDE DEF longer
  <2>6. RouteTypeOK'
    BY <2>1, <2>3, <2>5
  <2>7. \A c \in Conn : handling'[c] = "store" => stream'[c] # << >>
    BY <2>1, <2>4, <2>5
  <2> QED
    BY <2>5, <2>6, <2>7
<1>3. CASE ConnBreaks
  BY <1>3 DEF ConnBreaks
<1>4. ASSUME NEW c \in Conn, Read(c) PROVE IInv'
  <2>1. /\ Head(stream[c]) \in Ip
        /\ Tail(stream[c]) \in Seq(Ip)
        /\ Len(Tail(stream[c])) <= MaxStream
    BY <1>4, TakeDatagram DEF Read
  <2> DEFINE ip == Head(stream[c])
  <2>2. CASE route[ip] \in {NoConn, c}
    <3>1. /\ handling[c] = "read"
          /\ route' = [route EXCEPT ![ip] = c]
          /\ stream' = [stream EXCEPT ![c] = Tail(stream[c])]
          /\ UNCHANGED <<inUse, up, handling, keys>>
      BY <1>4, <2>2 DEF Read
    <3> QED
      BY <2>1, <3>1
  <2>3. CASE route[ip] \notin {NoConn, c}
    BY <1>4, <2>3 DEF Read
  <2> QED
    BY <2>2, <2>3
<1>5. ASSUME NEW c \in Conn, Store(c) PROVE IInv'
  <2>1. /\ Head(stream[c]) \in Ip
        /\ Tail(stream[c]) \in Seq(Ip)
        /\ Len(Tail(stream[c])) <= MaxStream
    BY <1>5, TakeDatagram DEF Store
  <2> QED
    BY <1>5, <2>1 DEF Store
<1>6. ASSUME NEW c \in Conn, ReadFails(c) PROVE IInv'
  BY <1>6 DEF ReadFails
<1>7. ASSUME NEW c \in Conn, Range(c) PROVE IInv'
  BY <1>7 DEF Range
<1>8. ASSUME NEW c \in Conn, Delete(c) PROVE IInv'
  BY <1>8 DEF Delete
<1>9. ASSUME NEW c \in Conn, HandleReturns(c) PROVE IInv'
  BY <1>9 DEF HandleReturns
<1>10. CASE UNCHANGED routeVars
  BY <1>10 DEF routeVars
<1> QED
  BY <1>1, <1>2, <1>3, <1>4, <1>5, <1>6, <1>7, <1>8, <1>9, <1>10 DEF RouteNext, Handle

\* When the handler of a connection has returned, nothing is routed to it.
THEOREM NoRouteOutlivesItsHandler == RouteSpec => []NoDeadRoute
<1>1. IInv => NoDeadRoute
  BY DEF IInv
<1> QED
  BY InitIInv, NextIInv, <1>1, PTL DEF RouteSpec
=============================================================================
