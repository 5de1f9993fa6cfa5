-------------------------------- MODULE Dhcp --------------------------------
(***************************************************************************)
(* The DHCP manager (pkg/handler/dhcp.go).  Every client of the cluster    *)
(* (a daemon on a laptop, the traffic manager's webhook acting for a pod)  *)
(* runs its own DHCPManager; the managers share nothing but the ConfigMap. *)
(* Every step below is one call to the API server together with the local  *)
(* code up to the next call.                                               *)
(*                                                                         *)
(* Concurrency control is the resourceVersion: Update is refused when the  *)
(* object was written after the Get it is based on.  fresh is the set of   *)
(* clients whose last Get returned the current resourceVersion.  A refused *)
(* Update is an error for the caller; nothing retries it.                  *)
(***************************************************************************)
EXTENDS ConfigMap

CONSTANTS
    Client,     \* the processes that run a DHCPManager
    LocalAddr   \* offsets that can be on the network interfaces of a client

ASSUME LocalAddrAssumption == LocalAddr \subseteq Nat

VARIABLES
    cm,         \* the ConfigMap in the API server
    fresh,      \* clients whose copy has the current resourceVersion
    snap,       \* the copy that the client's last Get returned
    pc,         \* where the client is in its call
    lease       \* the addresses the client uses (localTunIPv4, localTunIPv6)

vars == <<cm, fresh, snap, pc, lease>>

Holding == {"held", "set", "release"}

TypeOK ==
    /\ cm \in Data
    /\ fresh \subseteq Client
    /\ snap \in [Client -> Data]
    /\ pc \in [Client -> {"idle", "patch", "create", "ready", "rent"} \cup Holding]
    /\ lease \in [Client -> [v4 : Pool4, v6 : Pool6] \cup {NoLease}]

\* The addresses on the interfaces of a client, as net.InterfaceAddrs gives them.
Nics == [v4 : SUBSET LocalAddr, v6 : SUBSET LocalAddr]

NoConfigMap == [exists |-> FALSE, envoyKey |-> FALSE, dhcp4 |-> {}, dhcp6 |-> {}]

NewConfigMap == [exists |-> TRUE, envoyKey |-> TRUE, dhcp4 |-> {}, dhcp6 |-> {}]

\* As an older version, without the key ENVOY_CONFIG, left it.
OldConfigMap == [exists |-> TRUE, envoyKey |-> FALSE, dhcp4 |-> {}, dhcp6 |-> {}]

Init ==
    /\ cm \in {NoConfigMap, OldConfigMap}
    /\ fresh = {}
    /\ snap = [c \in Client |-> NoConfigMap]
    /\ pc = [c \in Client |-> "idle"]
    /\ lease = [c \in Client |-> NoLease]

-----------------------------------------------------------------------------
(* The API server.                                                         *)

Get(c) ==
    /\ snap' = [snap EXCEPT ![c] = cm]
    /\ fresh' = fresh \cup {c}
    /\ UNCHANGED cm

\* Every write that changes the object gives it a new resourceVersion.
Write(data) ==
    /\ cm' = data
    /\ fresh' = IF data = cm THEN fresh ELSE {}
    /\ UNCHANGED snap

\* Update replaces the whole object, provided the resourceVersion matches.
CanUpdate(c) == cm.exists /\ c \in fresh

Goto(c, label) == pc' = [pc EXCEPT ![c] = label]

-----------------------------------------------------------------------------
(* initDHCP                                                                *)

InitGet(c) ==
    /\ pc[c] = "idle"
    /\ Get(c)
    /\ Goto(c, IF ~cm.exists THEN "create" ELSE IF cm.envoyKey THEN "ready" ELSE "patch")
    /\ UNCHANGED lease

\* The merge patch that adds the missing key is not conditional on the
\* resourceVersion; initDHCP returns an error whether or not it succeeds.
InitPatch(c) ==
    /\ pc[c] = "patch"
    /\ Write([cm EXCEPT !.envoyKey = cm.exists])
    /\ Goto(c, "idle")
    /\ UNCHANGED lease

\* Mutant: a Create that replaces an existing object.
InitReplace(c) ==
    /\ pc[c] = "create"
    /\ Write(NewConfigMap)
    /\ Goto(c, "ready")
    /\ UNCHANGED lease

\* Create fails when another client has created the object since the Get.
InitCreate(c) ==
    /\ pc[c] = "create"
    /\ Write(IF cm.exists THEN cm ELSE NewConfigMap)
    /\ Goto(c, IF cm.exists THEN "idle" ELSE "ready")
    /\ UNCHANGED lease

-----------------------------------------------------------------------------
(* RentIPBaseNICAddress, RentIPRandom                                      *)

RentGet(c) ==
    /\ pc[c] = "ready"
    /\ Get(c)
    /\ Goto(c, IF cm.exists THEN "rent" ELSE "idle")
    /\ UNCHANGED lease

\* Mutant: the rented bitmaps are stored without a resourceVersion.
RentPatch(c) ==
    /\ pc[c] = "rent"
    /\ cm.exists
    /\ \E nic \in Nics :
        /\ ~PoolFull(snap[c], nic)
        /\ Write(AfterRent(snap[c], nic))
        /\ lease' = [lease EXCEPT ![c] = RentedLease(snap[c], nic)]
    /\ Goto(c, "held")

RentUpdate(c) ==
    /\ pc[c] = "rent"
    /\ CanUpdate(c)
    /\ \E nic \in Nics :
        /\ ~PoolFull(snap[c], nic)
        /\ Write(AfterRent(snap[c], nic))
        /\ lease' = [lease EXCEPT ![c] = RentedLease(snap[c], nic)]
    /\ Goto(c, "held")

\* The API server carries out the Update but the answer is lost: the caller
\* sees an error and uses no address.
RentAnswerLost(c) ==
    /\ pc[c] = "rent"
    /\ CanUpdate(c)
    /\ \E nic \in Nics :
        /\ ~PoolFull(snap[c], nic)
        /\ Write(AfterRent(snap[c], nic))
    /\ Goto(c, "idle")
    /\ UNCHANGED lease

\* The pool is full or the Update is refused.
RentRefused(c) ==
    /\ pc[c] = "rent"
    /\ ~CanUpdate(c) \/ \E nic \in Nics : PoolFull(snap[c], nic)
    /\ Goto(c, "idle")
    /\ UNCHANGED <<cm, fresh, snap, lease>>

-----------------------------------------------------------------------------
(* Set, with which a connected client stores the cluster's CIDRs           *)

SetGet(c) ==
    /\ pc[c] = "held"
    /\ Get(c)
    /\ Goto(c, "set")
    /\ UNCHANGED lease

\* Mutant: Set stores its copy with a Patch of the whole data.
SetPatch(c) ==
    /\ pc[c] = "set"
    /\ cm' = snap[c]
    /\ fresh' = {}
    /\ Goto(c, "held")
    /\ UNCHANGED <<snap, lease>>

\* The value of the key is not modelled: the write changes the
\* resourceVersion and stores the rest of the copy again.
SetUpdate(c) ==
    /\ pc[c] = "set"
    /\ CanUpdate(c)
    /\ cm' = snap[c]
    /\ fresh' = {}
    /\ Goto(c, "held")
    /\ UNCHANGED <<snap, lease>>

SetRefused(c) ==
    /\ pc[c] = "set"
    /\ ~CanUpdate(c)
    /\ Goto(c, "held")
    /\ UNCHANGED <<cm, fresh, snap, lease>>

-----------------------------------------------------------------------------
(* ReleaseIP, called once for every lease                                  *)

ReleaseGet(c) ==
    /\ pc[c] = "held"
    /\ Get(c)
    /\ Goto(c, "release")
    /\ UNCHANGED lease

ReleaseUpdate(c) ==
    /\ pc[c] = "release"
    /\ CanUpdate(c)
    /\ Write(AfterRelease(snap[c], lease[c]))
    /\ lease' = [lease EXCEPT ![c] = NoLease]
    /\ Goto(c, "idle")

\* The callers log the error and shut the tunnel down all the same.
ReleaseRefused(c) ==
    /\ pc[c] = "release"
    /\ ~CanUpdate(c)
    /\ lease' = [lease EXCEPT ![c] = NoLease]
    /\ Goto(c, "idle")
    /\ UNCHANGED <<cm, fresh, snap>>

-----------------------------------------------------------------------------
(* Failures                                                                *)

\* A call to the API server fails; the operation it belongs to returns the
\* error and changes nothing.
ApiError(c) ==
    /\ pc[c] \in {"patch", "create", "ready", "rent", "set", "release"}
    /\ Goto(c, IF pc[c] = "set" THEN "held" ELSE "idle")
    /\ lease' = IF pc[c] = "release" THEN [lease EXCEPT ![c] = NoLease] ELSE lease
    /\ UNCHANGED <<cm, fresh, snap>>

\* The process is killed: the addresses stay marked, with nobody to return them.
Crash(c) ==
    /\ pc[c] \in {"held", "set"}
    /\ lease' = [lease EXCEPT ![c] = NoLease]
    /\ Goto(c, "idle")
    /\ UNCHANGED <<cm, fresh, snap>>

-----------------------------------------------------------------------------
Operation(c) ==
    \/ InitGet(c) \/ InitPatch(c) \/ InitCreate(c)
    \/ RentGet(c) \/ RentUpdate(c) \/ RentRefused(c)
    \/ SetGet(c) \/ SetUpdate(c) \/ SetRefused(c)
    \/ ReleaseGet(c) \/ ReleaseUpdate(c) \/ ReleaseRefused(c)

Failure(c) == RentAnswerLost(c) \/ ApiError(c) \/ Crash(c)

Next == \E c \in Client : Operation(c) \/ Failure(c)

Spec == Init /\ [][Next]_vars

-----------------------------------------------------------------------------
Leased(c) == lease[c] # NoLease

\* Two clients never use the same IPv4 or the same IPv6 address, however the
\* Get and Update calls of RentIP, ReleaseIP and Set interleave.
UniqueLease ==
    \A c, d \in Client :
        c # d /\ Leased(c) /\ Leased(d) => /\ lease[c].v4 # lease[d].v4
                                           /\ lease[c].v6 # lease[d].v6

\* An address in use stays marked in the stored bitmaps until its own user
\* releases it: neither a stale Set nor a stale rent writes an older bitmap back.
LeaseMarked ==
    \A c \in Client : Leased(c) => /\ lease[c].v4 \in cm.dhcp4
                                   /\ lease[c].v6 \in cm.dhcp6

\* A step takes a mark off the bitmaps only for the addresses that the client
\* taking the step gives up in that very step.
OnlyOwnMarksRemoved ==
    [][/\ \A o \in cm.dhcp4 \ cm'.dhcp4 :
            \E c \in Client : lease[c].v4 = o /\ lease'[c] = NoLease
       /\ \A o \in cm.dhcp6 \ cm'.dhcp6 :
            \E c \in Client : lease[c].v6 = o /\ lease'[c] = NoLease]_vars

\* The addresses the allocators may still hand out.
spare4 == Pool4 \ cm.dhcp4
spare6 == Pool6 \ cm.dhcp6

\* The promise of the DHCP manager: it implements an atomic lease service.
LeaseService == INSTANCE Lease WITH Addr4 <- Pool4, Addr6 <- Pool6

Abstract == LeaseService!Spec
=============================================================================
