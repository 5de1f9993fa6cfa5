---------------------------- MODULE ControlPlane ----------------------------
(***************************************************************************)
(* The control plane of the mesh (pkg/controlplane): one process in the    *)
(* traffic-manager pod.  It reads the list of Virtuals that the machines   *)
(* write into the ConfigMap, mounted as a file, turns each of them into an *)
(* Envoy snapshot and keeps that snapshot for the Envoy sidecar whose node *)
(* id is the Virtual's Uid.                                                *)
(*                                                                         *)
(* Watch and the main loop are two goroutines joined by notifyCh.  The     *)
(* kubelet replaces a mounted ConfigMap by swapping a symbolic link: the   *)
(* file that inotify watches is removed, so after the first change no      *)
(* event arrives any more and only the ticker is left.                     *)
(***************************************************************************)
EXTENDS Naturals, Sequences, FiniteSets

CONSTANTS
    Uid,            \* node ids of the Envoy sidecars
    Contents,       \* what the file may hold: sequences of [Uid, Ports, Rules]
    Headers,        \* header sets a request may carry
    StartVersion,   \* the versions a process may start from: rand.Int63n(1000)
    Capacity,       \* capacity of notifyCh (100)
    MaxWrite,       \* bound: changes of the file
    MaxExpire,      \* bound: entries of expireCache that expire
    MaxRestart,     \* bound: exits of the process (log.Fatal) and restarts
    Broken,         \* a file that cannot be read or parsed
    NoEntry            \* no entry

NoUid == "no uid"       \* Virtual.Uid == ""
Origin == <<"origin_cluster">>

VARIABLES
    file,        \* the mounted file: Broken or a member of Contents
    watched,     \* inotify still watches the file that the path names
    events,      \* the number of fsnotify events not yet read
    notifyCh,    \* the number of messages in the channel: all name the file
    configList,  \* the Virtuals ProcessFile has still to look at
    expireCache, \* [Uid -> None or the Virtual that was last served]
    version,     \* Processor.version
    snapshots,   \* [Uid -> None or [version, resources]]: the SnapshotCache
    envoy,       \* [Uid -> None or [version, resources]]: what the sidecar runs
    writes, expires, restarts

controlVars == <<file, watched, events, notifyCh, configList, expireCache, version,
          snapshots, envoy, writes, expires, restarts>>

-----------------------------------------------------------------------------
(* Virtual.To: the resources of one Virtual.  Resources are indexed by     *)
(* name, so two equal ones are one.                                        *)

ToEndPoint(clusterName, localTunIP, port) ==
    [ClusterName |-> clusterName, Address |-> <<localTunIP, port>>]

ToCluster(clusterName) == [Name |-> clusterName, Type |-> "EDS"]

OriginCluster == [Name |-> Origin, Type |-> "ORIGINAL_DST"]

ToRoute(clusterName, headers) == [Headers |-> headers, Cluster |-> clusterName]

DefaultRoute == [Headers |-> {}, Cluster |-> Origin]

(* HTTP traffic is routed by the route configuration of that name, all     *)
(* other traffic goes to the original destination.                         *)
ToListener(listenerName, routeName, port) ==
    [Name |-> listenerName, Port |-> port, Rds |-> routeName,
     TcpProxy |-> Origin]

\* Mutant: clusters are named after the address alone.
NameOfAddress(ip, port) == <<ip>>

ClusterName(ip, port) == <<ip, port.ContainerPort>>

ListenerName(virtual, port) == <<virtual.Uid, port.ContainerPort, port.Protocol>>

(* The targets of a Virtual in the order of its routes: IPv4 then IPv6 of  *)
(* every rule.                                                             *)
Targets(virtual) ==
    [n \in 1..2 * Len(virtual.Rules) |->
        LET rule == virtual.Rules[(n + 1) \div 2]
        IN  [Headers |-> rule.Headers,
             IP |-> IF n % 2 = 1 THEN rule.LocalTunIPv4 ELSE rule.LocalTunIPv6]]

RoutesOf(virtual, port) ==
    [n \in DOMAIN Targets(virtual) |->
        ToRoute(ClusterName(Targets(virtual)[n].IP, port),
                Targets(virtual)[n].Headers)]
    \o <<DefaultRoute>>

To(virtual) ==
    LET pairs == {<<p, n>> : p \in virtual.Ports, n \in DOMAIN Targets(virtual)}
        TargetIp(n) == Targets(virtual)[n].IP
    IN  [Listeners |-> {ToListener(ListenerName(virtual, p),
                                   ListenerName(virtual, p), p.ContainerPort) :
                            p \in virtual.Ports},
         Clusters  |-> {ToCluster(ClusterName(TargetIp(x[2]), x[1])) : x \in pairs}
                       \cup {OriginCluster : p \in virtual.Ports},
         Routes    |-> {[Name |-> ListenerName(virtual, p),
                         Routes |-> RoutesOf(virtual, p)] : p \in virtual.Ports},
         Endpoints |-> {ToEndPoint(ClusterName(TargetIp(x[2]), x[1]), TargetIp(x[2]),
                                   x[1].ContainerPort) : x \in pairs}]

(* Snapshot.Consistent of go-control-plane: the routes that the listeners  *)
(* name are the routes of the snapshot, the endpoints that the EDS         *)
(* clusters name are its endpoints.                                        *)
Consistent(resources) ==
    /\ {l.Rds : l \in resources.Listeners} = {r.Name : r \in resources.Routes}
    /\ {c.Name : c \in {c \in resources.Clusters : c.Type = "EDS"}}
           = {e.ClusterName : e \in resources.Endpoints}

-----------------------------------------------------------------------------

ControlInit ==
    /\ file \in Contents \cup {Broken}
    /\ watched = TRUE
    /\ events = 0
    /\ notifyCh = 1
    /\ configList = <<>>
    /\ expireCache = [u \in Uid |-> NoEntry]
    /\ version \in StartVersion
    /\ snapshots = [u \in Uid |-> NoEntry]
    /\ envoy = [u \in Uid |-> NoEntry]
    /\ writes = 0 /\ expires = 0 /\ restarts = 0

(* The kubelet projects a new ConfigMap into the volume.  The link is      *)
(* swapped, inotify reports the removal of the file it watched and stops.  *)
WriteFile ==
    /\ writes < MaxWrite
    /\ writes' = writes + 1
    /\ \E c \in Contents \cup {Broken} : c # file /\ file' = c
    /\ events' = IF watched THEN events + 1 ELSE events
    /\ watched' = FALSE
    /\ UNCHANGED <<notifyCh, configList, expireCache, version, snapshots,
                   envoy, expires, restarts>>

(* Watch reads an event; the send blocks while notifyCh is full.           *)
WatchEvent ==
    /\ events > 0
    /\ notifyCh < Capacity
    /\ events' = events - 1
    /\ notifyCh' = notifyCh + 1
    /\ UNCHANGED <<file, watched, configList, expireCache, version, snapshots,
                   envoy, writes, expires, restarts>>

(* The ticker of Watch: every 5 seconds the file is looked at again.       *)
WatchTick ==
    /\ notifyCh < Capacity
    /\ notifyCh' = notifyCh + 1
    /\ UNCHANGED <<file, watched, events, configList, expireCache, version,
                   snapshots, envoy, writes, expires, restarts>>

(* The main loop takes a message and ProcessFile parses the file: the list *)
(* is that of this moment, or nothing when the file cannot be parsed.      *)
ParseYaml ==
    /\ configList = <<>>
    /\ notifyCh > 0
    /\ notifyCh' = notifyCh - 1
    /\ configList' = IF file = Broken THEN <<>> ELSE file
    /\ UNCHANGED <<file, watched, events, expireCache, version, snapshots,
                   envoy, writes, expires, restarts>>

(* The reset at math.MaxInt64 is out of reach.                             *)
NewVersion == version + 1

\* Mutant: a Uid that is in the cache is taken to be served already.
SameUid(virtual) == expireCache[virtual.Uid] # NoEntry

Same(virtual) == expireCache[virtual.Uid] = virtual

(* One pass of ProcessFile's loop over the head of the list.  An error     *)
(* returns, so the Virtuals behind it are not looked at.                   *)
ProcessFile ==
    /\ configList # <<>>
    /\ LET virtual == Head(configList)
           resources == To(virtual)
       IN  \/ /\ \/ virtual.Uid = NoUid
                 \/ virtual.Uid # NoUid /\ Same(virtual)
              /\ configList' = Tail(configList)
              /\ UNCHANGED <<expireCache, version, snapshots>>
           \/ /\ virtual.Uid # NoUid /\ ~Same(virtual)
              /\ version' = NewVersion
              /\ IF Consistent(resources)
                 THEN /\ snapshots' = [snapshots EXCEPT ![virtual.Uid] =
                             [version |-> NewVersion, resources |-> resources]]
                      /\ expireCache' = [expireCache EXCEPT ![virtual.Uid] = virtual]
                      /\ configList' = Tail(configList)
                 ELSE /\ configList' = <<>>
                      /\ UNCHANGED <<snapshots, expireCache>>
    /\ UNCHANGED <<file, watched, events, notifyCh, envoy, writes, expires,
                   restarts>>

(* An entry of expireCache is 5 minutes old.                               *)
Expire(u) ==
    /\ expires < MaxExpire
    /\ expireCache[u] # NoEntry
    /\ expires' = expires + 1
    /\ expireCache' = [expireCache EXCEPT ![u] = NoEntry]
    /\ UNCHANGED <<file, watched, events, notifyCh, configList, version,
                   snapshots, envoy, writes, restarts>>

(* log.Fatal: the watcher failed, or the listener of the server did.  The  *)
(* container is restarted and Main starts with empty caches; the sidecars  *)
(* keep what they run.                                                     *)
Main ==
    /\ restarts < MaxRestart
    /\ restarts' = restarts + 1
    /\ watched' = TRUE /\ events' = 0 /\ notifyCh' = 1 /\ configList' = <<>>
    /\ expireCache' = [u \in Uid |-> NoEntry]
    /\ snapshots' = [u \in Uid |-> NoEntry]
    /\ version' \in StartVersion
    /\ UNCHANGED <<file, envoy, writes, expires>>

(* The server answers a sidecar whose version is another one.              *)
Respond(u) ==
    /\ snapshots[u] # NoEntry
    /\ envoy[u] # NoEntry => envoy[u].version # snapshots[u].version
    /\ envoy' = [envoy EXCEPT ![u] = snapshots[u]]
    /\ UNCHANGED <<file, watched, events, notifyCh, configList, expireCache,
                   version, snapshots, writes, expires, restarts>>

ControlNext ==
    \/ WriteFile \/ WatchEvent \/ WatchTick \/ ParseYaml \/ ProcessFile \/ Main
    \/ \E u \in Uid : Expire(u) \/ Respond(u)

(* The ticker fires and the goroutines run; the sidecars hold a stream     *)
(* open.  Nothing else has to happen.                                      *)
ControlFairness ==
    /\ WF_controlVars(WatchTick) /\ WF_controlVars(ParseYaml) /\ WF_controlVars(ProcessFile)
    /\ \A u \in Uid : WF_controlVars(Respond(u))

ControlSpec == ControlInit /\ [][ControlNext]_controlVars /\ ControlFairness

-----------------------------------------------------------------------------
(* Properties *)

Virtuals == UNION {{c[n] : n \in DOMAIN c} : c \in Contents}

ControlTypeOK ==
    /\ file \in Contents \cup {Broken}
    /\ watched \in BOOLEAN
    /\ events \in 0..1
    /\ notifyCh \in 0..Capacity
    /\ \A n \in DOMAIN configList : configList[n] \in Virtuals
    /\ \A u \in Uid : expireCache[u] = NoEntry \/ expireCache[u] \in Virtuals
    /\ version \in Nat

(* Where a sidecar sends a request (Envoy's rules): an HTTP request goes   *)
(* to the cluster of the first route whose headers it carries, another     *)
(* connection to the listener's TCP proxy.                                 *)
Goes(resources, port, http, headers) ==
    LET l  == CHOOSE x \in resources.Listeners : x.Port = port
        rs == (CHOOSE x \in resources.Routes : x.Name = l.Rds).Routes
        n  == CHOOSE i \in DOMAIN rs :
                  /\ rs[i].Headers \subseteq headers
                  /\ \A k \in 1..(i - 1) : ~(rs[k].Headers \subseteq headers)
        c  == IF http THEN rs[n].Cluster ELSE l.TcpProxy
    IN  IF c = Origin THEN {c}
        ELSE {e.Address : e \in {e \in resources.Endpoints : e.ClusterName = c}}

(* Where the Virtual says it should go: to the machine of the first rule   *)
(* whose headers the request carries, on the port it came in on, and to    *)
(* the workload itself when there is none.                                 *)
Wanted(virtual, port, http, headers) ==
    LET hits == {i \in DOMAIN virtual.Rules :
                     virtual.Rules[i].Headers \subseteq headers}
    IN  IF ~http \/ hits = {} THEN {Origin}
        ELSE LET first == CHOOSE i \in hits : \A k \in hits : i <= k
             IN  {<<virtual.Rules[first].LocalTunIPv4, port>>}

(* A sidecar that runs the resources of a Virtual sends every request to   *)
(* the machine whose rule it matches, port by port, and everything else to *)
(* the workload: the names that Virtual.To gives the clusters and the      *)
(* order of its routes keep rules and ports apart.                         *)
RequestsReachOwner ==
    \A u \in Uid : envoy[u] # NoEntry =>
        \E virtual \in Virtuals :
            /\ virtual.Uid = u
            /\ To(virtual) = envoy[u].resources
            /\ \A p \in virtual.Ports, http \in BOOLEAN, h \in Headers :
                   Goes(envoy[u].resources, p.ContainerPort, http, h)
                       = Wanted(virtual, p.ContainerPort, http, h)

(* ProcessFile gives up the whole list when a snapshot is not consistent.  *)
(* What Virtual.To makes of the Virtual it is working on always is, so no  *)
(* workload's rules keep those of the workloads behind it from being       *)
(* served.                                                                 *)
AlwaysConsistent ==
    configList # <<>> => Consistent(To(Head(configList)))

(* The version a sidecar has is that of other resources: a restarted       *)
(* process started from a number that leads to the same one.               *)
SameVersion ==
    \E u \in Uid : /\ envoy[u] # NoEntry /\ snapshots[u] # NoEntry
                   /\ envoy[u].version = snapshots[u].version
                   /\ envoy[u] # snapshots[u]

(* Once the file no longer changes, every sidecar it names ends up with    *)
(* the resources of the file's Virtual, although the events of all changes *)
(* but the first are lost, entries expire, the process is restarted and    *)
(* the file was unreadable in between; except when a version number that   *)
(* is drawn at a restart meets, for good, the one a sidecar has.           *)
EnvoyFollows ==
    (<>[](file # Broken) /\ <>[]~SameVersion) =>
        <>[](file # Broken /\ \A n \in DOMAIN file :
                file[n].Uid # NoUid =>
                    /\ envoy[file[n].Uid] # NoEntry
                    /\ envoy[file[n].Uid].resources = To(file[n]))
=============================================================================
