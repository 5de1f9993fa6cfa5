----------------------------- MODULE ConfigMap -----------------------------
(***************************************************************************)
(* The ConfigMap "kubevpn-traffic-manager" and the address allocators that *)
(* are stored in it.                                                       *)
(*                                                                         *)
(* An address is its offset in the bitmap of the allocator (offset 0 is    *)
(* RouterIP + 1).  The bitmap has Max offsets, but only the offsets below  *)
(* Net lie inside the network: NewDHCPManager starts the range at RouterIP *)
(* and not at the network address, so the last addresses of the range      *)
(* overflow the mask.  In the program Max4 = Max6 = 65534, Net4 = 65435    *)
(* and Net6 = 26214.                                                       *)
(***************************************************************************)
EXTENDS Integers

CONSTANTS
    Max4, Net4,     \* IPv4: offsets in the bitmap, offsets inside 223.254/16
    Max6, Net6      \* IPv6: the same for efff:ffff:ffff:ffff::/64

ASSUME PoolAssumption ==
    /\ Max4 \in Nat /\ Net4 \in Nat /\ Net4 <= Max4
    /\ Max6 \in Nat /\ Net6 \in Nat /\ Net6 <= Max6

Pool(max) == 0 .. (max - 1)

Pool4 == Pool(Max4)
Pool6 == Pool(Max6)

\* No address: a rent that has not happened, or a lease that was given up.
NoIP == -1
NoLease == [v4 |-> NoIP, v6 |-> NoIP]

\* The data of the ConfigMap that the allocation of addresses depends on.
\* The keys DHCP and DHCP6 are sets of marked offsets; a missing key decodes
\* to the empty bitmap.
Data == [exists : BOOLEAN, envoyKey : BOOLEAN,
         dhcp4 : SUBSET Pool4, dhcp6 : SUBSET Pool6]

-----------------------------------------------------------------------------
(* The allocator of the vendored cilium/ipam library, with the contiguous  *)
(* scan strategy: AllocateNext marks the lowest offset that is not marked. *)

\* The offsets on which the retry loop of a rent can stop: neither marked nor
\* the address of an interface of this machine.
Usable(marked, max, nic) == Pool(max) \ (marked \cup nic)

\* The offset that the loop "AllocateNext until it is not on an interface"
\* stops at.
Chosen(marked, max, nic) ==
    CHOOSE o \in Usable(marked, max, nic) :
        \A other \in Usable(marked, max, nic) : o <= other

\* The bitmap after that loop: every offset it passed over stays marked.
MarkedUpTo(marked, chosen) == marked \cup 0 .. chosen

\* Range.Release: an offset outside the network is silently kept.
Released(marked, offset, net) == IF offset < net THEN marked \ {offset} ELSE marked

-----------------------------------------------------------------------------
(* What the two callbacks of updateDHCPConfigMap make of the data.         *)

\* AllocateNext returns ErrFull in one of the two loops.
PoolFull(data, nic) ==
    \/ Usable(data.dhcp4, Max4, nic.v4) = {}
    \/ Usable(data.dhcp6, Max6, nic.v6) = {}

RentedLease(data, nic) ==
    [v4 |-> Chosen(data.dhcp4, Max4, nic.v4), v6 |-> Chosen(data.dhcp6, Max6, nic.v6)]

AfterRent(data, nic) ==
    [data EXCEPT !.dhcp4 = MarkedUpTo(@, RentedLease(data, nic).v4),
                 !.dhcp6 = MarkedUpTo(@, RentedLease(data, nic).v6)]

AfterRelease(data, lease) ==
    [data EXCEPT !.dhcp4 = Released(@, lease.v4, Net4),
                 !.dhcp6 = Released(@, lease.v6, Net6)]
=============================================================================
