-------------------------------- MODULE Cidr --------------------------------
(***************************************************************************)
(* getCIDR: the address ranges of a cluster, found out by the first        *)
(* connection and kept in the ConfigMap for all others.  The ranges come   *)
(* from several sources, two of them read by a shell in a pod that all     *)
(* machines create and delete under one name.                              *)
(***************************************************************************)
EXTENDS Integers, Sequences, SequencesExt

CONSTANTS
    Machine,
    Block,         \* address ranges
    Finds(_),      \* what a source finds when it does not fail
    ApiIPs,        \* addresses of the API server, as ParseIP and LookupIP give them
    Has(_, _)      \* Has(r, ip): the range r contains ip

VARIABLES
    pools,    \* KeyClusterIPv4POOLS of the ConfigMap, a set of ranges
    cni,      \* the pod config.CniNetName
    pc,       \* where getCIDR of a machine is
    raw,      \* c.cidrs before the deferred function
    cidrs     \* c.cidrs of a connection

vars == <<pools, cni, pc, raw, cidrs>>

Discovery == {"dump", "get", "create", "wait", "cmdline", "conflist", "svc", "pods", "delete"}

NoDuplicates(s) == IsInjective(s)

TypeOK ==
    /\ pools \subseteq Block /\ cni \in {"none", "pending", "running"}
    /\ pc \in [Machine -> Discovery \cup {"off", "cache", "resource", "set", "done", "dead"}]
    /\ raw \in [Machine -> Seq(Block)] /\ cidrs \in [Machine -> Seq(Block)]
    \* From the cache or from the sources, no range is there twice in the end.
    /\ \A m \in Machine : pc[m] \in {"set", "done"} => NoDuplicates(raw[m])

Init ==
    /\ pools = {} /\ cni = "none" /\ pc = [m \in Machine |-> "off"]
    /\ raw = [m \in Machine |-> << >>] /\ cidrs = [m \in Machine |-> << >>]

\* The first of equal ranges stays.
RECURSIVE Deduplicate(_)
Deduplicate(s) ==
    IF s = << >> THEN << >>
    ELSE LET d == Deduplicate(Front(s))
         IN  IF Last(s) \in ToSet(d) THEN d ELSE Append(d, Last(s))

-----------------------------------------------------------------------------
(* The deferred function: ranges that contain the API server are dropped.  *)

\* The inner loop, over the addresses: a match deletes at i and decrements i,
\* and the next address is compared with the range before it.  An index before
\* the first range panics.
RECURSIVE Match(_, _, _)
Match(s, i, ips) ==
    IF ips = << >> THEN [s |-> s, i |-> i, dead |-> FALSE]
    ELSE IF i = 0 THEN [s |-> s, i |-> i, dead |-> TRUE]
    ELSE IF Has(s[i], Head(ips)) THEN Match(RemoveAt(s, i), i - 1, Tail(ips))
    ELSE Match(s, i, Tail(ips))

\* Mutant: the index goes on after a deletion.
RECURSIVE ExcludeSkipping(_, _)
ExcludeSkipping(s, i) ==
    IF i > Len(s) THEN [s |-> s, dead |-> FALSE]
    ELSE ExcludeSkipping(IF \E k \in DOMAIN ApiIPs : Has(s[i], ApiIPs[k])
                         THEN RemoveAt(s, i) ELSE s, i + 1)

RECURSIVE Exclude(_, _)
Exclude(s, i) ==
    IF i > Len(s) THEN [s |-> s, dead |-> FALSE]
    ELSE LET st == Match(s, i, ApiIPs)
         IN  IF st.dead THEN [s |-> st.s, dead |-> TRUE] ELSE Exclude(st.s, st.i + 1)

\* getCIDR returns, with the ranges s.
Return(m, s) ==
    LET e == Exclude(s, 1) IN
    /\ raw' = [raw EXCEPT ![m] = s] /\ cidrs' = [cidrs EXCEPT ![m] = e.s]
    /\ pc' = [pc EXCEPT ![m] = IF e.dead THEN "dead" ELSE "done"]

-----------------------------------------------------------------------------

GetCIDR(m) ==
    /\ pc[m] = "off" /\ pc' = [pc EXCEPT ![m] = "cache"]
    /\ UNCHANGED <<pools, cni, raw, cidrs>>

\* The cached ranges come in any order; without one, or when the ConfigMap
\* cannot be read, they are searched for.
FromCache(m) ==
    /\ pc[m] = "cache"
    /\ \/ pools # {} /\ \E s \in SetToSeqs(pools) : Return(m, s)
       \/ pc' = [pc EXCEPT ![m] = "dump"] /\ UNCHANGED <<raw, cidrs>>
    /\ UNCHANGED <<pools, cni>>

\* A source appends what it finds, or fails and is passed over.
Source(m, at, next, works) ==
    /\ pc[m] = at /\ pc' = [pc EXCEPT ![m] = next]
    /\ \/ works /\ \E s \in SetToSeqs(Finds(at)) : raw' = [raw EXCEPT ![m] = @ \o s]
       \/ UNCHANGED raw
    /\ UNCHANGED <<pools, cni, cidrs>>

GetCIDRByDumpClusterInfo(m) == Source(m, "dump", "get", TRUE)

\* createCIDRPod: a pod that runs is used; one that does not is deleted,
\* whosever it is.
GetCIDRPod(m) ==
    /\ pc[m] = "get"
    /\ IF cni = "running" THEN pc' = [pc EXCEPT ![m] = "cmdline"] /\ UNCHANGED cni
                          ELSE pc' = [pc EXCEPT ![m] = "create"] /\ cni' = "none"
    /\ UNCHANGED <<pools, raw, cidrs>>

\* Create fails if another machine has created the pod meanwhile.
CreateCIDRPod(m) ==
    /\ pc[m] = "create"
    /\ IF cni = "none" THEN pc' = [pc EXCEPT ![m] = "wait"] /\ cni' = "pending"
                       ELSE pc' = [pc EXCEPT ![m] = "conflist"] /\ UNCHANGED cni
    /\ UNCHANGED <<pools, raw, cidrs>>

\* Mutant: the wait for the pod has no time-out.
WaitPodForever(m) ==
    /\ pc[m] = "wait" /\ cni = "running" /\ pc' = [pc EXCEPT ![m] = "cmdline"]
    /\ UNCHANGED <<pools, cni, raw, cidrs>>

\* The pod runs, or the time is over.
WaitPod(m) ==
    /\ pc[m] = "wait"
    /\ \/ cni = "running" /\ pc' = [pc EXCEPT ![m] = "cmdline"]
       \/ pc' = [pc EXCEPT ![m] = "conflist"]
    /\ UNCHANGED <<pools, cni, raw, cidrs>>

GetCIDRFromCNI(m) == Source(m, "cmdline", "conflist", cni = "running")
GetPodCIDRFromCNI(m) == Source(m, "conflist", "svc", cni = "running")
GetServiceCIDRByCreateSvc(m) == Source(m, "svc", "pods", TRUE)
GetPodCIDRFromPod(m) == Source(m, "pods", "delete", TRUE)

\* The end of GetCIDRElegant.  The pod is deleted, whosever it is.  The error
\* of an empty result is not the named result of the function: it never fails,
\* and step (3) of getCIDR is never reached.
EndDiscovery(m) ==
    /\ pc[m] = "delete" /\ pc' = [pc EXCEPT ![m] = "resource"]
    /\ cni' = "none" /\ raw' = [raw EXCEPT ![m] = Deduplicate(@)]
    /\ UNCHANGED <<pools, cidrs>>

\* The ranges around the pods and services of the namespace are added.
GetCIDRFromResourceUgly(m) ==
    /\ pc[m] = "resource" /\ pc' = [pc EXCEPT ![m] = "set"]
    /\ \E s \in SetToSeqs(Finds("resource")) :
           raw' = [raw EXCEPT ![m] = Deduplicate(@ \o s)]
    /\ UNCHANGED <<pools, cni, cidrs>>

\* All are written to the ConfigMap, over what is there, unless another update
\* comes between Get and Update; the error is ignored.
SetPools(m) ==
    /\ pc[m] = "set" /\ Return(m, raw[m])
    /\ pools' = ToSet(raw[m]) \/ UNCHANGED pools
    /\ UNCHANGED cni

\* The connection ends.
Disconnect(m) ==
    /\ pc[m] = "done" /\ pc' = [pc EXCEPT ![m] = "off"]
    /\ raw' = [raw EXCEPT ![m] = << >>] /\ cidrs' = [cidrs EXCEPT ![m] = << >>]
    /\ UNCHANGED <<pools, cni>>

PodRuns ==
    /\ cni = "pending" /\ cni' = "running"
    /\ UNCHANGED <<pools, pc, raw, cidrs>>

\* Calls to the API server and to the pod, and the steps between them.
Ask(m) ==
    \/ GetCIDRByDumpClusterInfo(m) \/ GetCIDRPod(m) \/ CreateCIDRPod(m) \/ WaitPod(m)
    \/ GetCIDRFromCNI(m) \/ GetPodCIDRFromCNI(m) \/ GetServiceCIDRByCreateSvc(m)
    \/ GetPodCIDRFromPod(m)
Collect(m) == FromCache(m) \/ EndDiscovery(m) \/ GetCIDRFromResourceUgly(m) \/ SetPools(m)

Next == PodRuns \/ \E m \in Machine : GetCIDR(m) \/ Ask(m) \/ Collect(m) \/ Disconnect(m)

\* Calls return: the requests of the discovery have time-outs.  The second
\* conjunct is weak fairness of Collect(m), which is enabled at its labels.
Fairness ==
    \A m \in Machine :
        /\ WF_vars(Ask(m))
        /\ \/ []<>(pc[m] \notin {"cache", "delete", "resource", "set"})
           \/ []<><<Collect(m)>>_vars

Spec == Init /\ [][Next]_vars /\ Fairness

-----------------------------------------------------------------------------
(* Properties.                                                             *)

\* The ranges of a connection are those that were found, in their order,
\* without the ones that contain an address of the API server: the loop with
\* the decremented index deletes neither too few nor too many
\* (connect.go:1095-1102).
ApiServerExcluded ==
    \A m \in Machine : pc[m] = "done" =>
        cidrs[m] = SelectSeq(raw[m], LAMBDA r : \A k \in DOMAIN ApiIPs : ~Has(r, ApiIPs[k]))

\* When no machine is looking for ranges, the pod they share is gone, although
\* each deletes and creates it at its own time (cidr.go:24-26, getcidr.go:255-263).
CniPodGone == (\A m \in Machine : pc[m] \notin Discovery) => cni = "none"

\* Every getCIDR ends, although another machine may delete the pod that it waits
\* for or runs its shell in (getcidr.go:258-277).
DiscoveryEnds == \A m \in Machine : []<>(pc[m] \in {"off", "done", "dead"})
=============================================================================
