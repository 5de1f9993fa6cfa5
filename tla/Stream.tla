------------------------------- MODULE Stream -------------------------------
(***************************************************************************)
(* A TCP connection as the relays of pkg/core use one: two directions of   *)
(* bytes in order, "up" from the machine to the cluster and "down" back.   *)
(* It is a library of the operating system (and of gvisor), modelled from  *)
(* what the relays see of it.                                              *)
(*                                                                         *)
(* An end is named by the direction it reads.  A direction that is cut     *)
(* still gives its reader what is queued, then the end of the stream; a    *)
(* write to it fails.  An end that is gone has been closed.                *)
(***************************************************************************)
EXTENDS Naturals, Sequences

Direction == {"up", "down"}

Other(d) == IF d = "up" THEN "down" ELSE "up"

Prefixes(s) == {SubSeq(s, 1, n) : n \in 0 .. Len(s)}

Streams(S) == [q : [Direction -> S], cut : SUBSET Direction, gone : SUBSET Direction]

\* A connection that was just made.
Dialled == [q |-> [d \in Direction |-> << >>], cut |-> {}, gone |-> {}]

\* No connection: both ends are closed.
Unused == [Dialled EXCEPT !.cut = Direction, !.gone = Direction]

HasData(c, d) == c.q[d] # << >>

\* A read returns io.EOF or an error.
AtEnd(c, d) == d \in c.gone \/ (d \in c.cut /\ c.q[d] = << >>)

Took(c, d, n) == [c EXCEPT !.q[d] = SubSeq(@, n + 1, Len(@))]

\* A write does not block: there is room, or the reader has left and the bytes go
\* nowhere.
HasRoom(c, d, window) == Len(c.q[d]) < window \/ d \in c.gone

\* Bytes for a reader that has left are answered by a reset.
Wrote(c, d, s) == IF d \in c.gone THEN [c EXCEPT !.cut = Direction] ELSE [c EXCEPT !.q[d] = @ \o s]

\* The connection is lost: some of what was sent does not arrive.
Lost(c) == {[c EXCEPT !.q = [d \in Direction |-> IF d = "up" THEN u ELSE w], !.cut = Direction] :
               u \in Prefixes(c.q["up"]), w \in Prefixes(c.q["down"])}

\* The end that reads d closes.  With unread bytes it resets the connection, and what
\* it had sent may be lost.
Closed(c, d) ==
    IF d \in c.gone THEN {c}
    ELSE IF c.q[d] = << >> THEN {[c EXCEPT !.cut = @ \cup {Other(d)}, !.gone = @ \cup {d}]}
    ELSE {[x EXCEPT !.q[d] = << >>, !.gone = @ \cup {d}] : x \in Lost(c)}
=============================================================================
