-------------------------------- MODULE Lease --------------------------------
(***************************************************************************)
(* What a client may rely on when it rents a pair of addresses: the pair   *)
(* comes from the spare addresses in one atomic step and is nobody else's  *)
(* until it is returned.  Addresses may get lost (a client dies, an answer *)
(* is lost, a return is refused, an address is passed over because it is   *)
(* on a network interface): the service promises exclusive use, not that   *)
(* the pool lasts.                                                         *)
(***************************************************************************)
CONSTANTS Client, Addr4, Addr6, NoLease

VARIABLES lease, spare4, spare6

Init ==
    /\ lease = [c \in Client |-> NoLease]
    /\ spare4 = Addr4
    /\ spare6 = Addr6

Rent(c) ==
    /\ lease[c] = NoLease
    /\ \E a \in spare4, b \in spare6 :
        /\ lease' = [lease EXCEPT ![c] = [v4 |-> a, v6 |-> b]]
        /\ spare4' \in SUBSET (spare4 \ {a})
        /\ spare6' \in SUBSET (spare6 \ {b})

Return(c) ==
    /\ lease[c] # NoLease
    /\ lease' = [lease EXCEPT ![c] = NoLease]
    /\ spare4' \in {spare4, spare4 \cup {lease[c].v4}}
    /\ spare6' \in {spare6, spare6 \cup {lease[c].v6}}

Lose ==
    /\ spare4' \in SUBSET spare4
    /\ spare6' \in SUBSET spare6
    /\ UNCHANGED lease

Next == Lose \/ \E c \in Client : Rent(c) \/ Return(c)

Spec == Init /\ [][Next]_<<lease, spare4, spare6>>
=============================================================================
