------------------------------- MODULE Routes -------------------------------
(***************************************************************************)
(* The routes of a connection: those the tun device is created with, one   *)
(* for every pod and service outside of them, which two watches look for   *)
(* (addRouteDynamic), and those of the extra domains (addExtraRoute).      *)
(***************************************************************************)
EXTENDS Integers, Sequences

CONSTANTS
    IP,
    Api,           \* addresses of the API server
    Node,          \* addresses of the nodes
    ApiServerIPs,  \* those that getCIDR knows: none when the URL has no port
    Cidrs,         \* c.cidrs and ExtraCIDR, as sets of addresses
    Pod, Service,  \* names of objects
    HostNetwork,   \* pods in the network of their node
    AddressOf(_),  \* the addresses that an object may get
    MayFail,       \* addresses for which a route may not be added
    DnsIPs,        \* addresses of the DNS pods
    ExtraDomain,   \* a sequence of domains
    DomainIP(_),
    MaxEvent       \* bound on the events of each watch

NoIP == "none"
Kind == {"pod", "service"}
Object == Pod \cup Service
KindOf(o) == IF o \in Pod THEN "pod" ELSE "service"

VARIABLES
    phase,      \* DoConnect
    ctx,        \* its context is not cancelled
    routes,     \* routes of the tun device, as sets of addresses
    objs,       \* the address of each object, NoIP without one
    log,        \* events since the first list of each kind
    w,          \* the watch goroutines
    pos,        \* events that the watch has delivered
    adding,     \* addresses for which addRouteFunc runs
    failed,     \* addresses whose route could not be added
    expired,    \* the version of the first lists is compacted
    dom,        \* index of the loops over ExtraDomain
    extraHost   \* domains in c.extraHost

routesVars == <<phase, ctx, routes, objs, log, w, pos, adding, failed, expired, dom, extraHost>>

Covered(ip) == \E r \in routes : ip \in r

RoutesTypeOK ==
    /\ phase \in {"off", "pods", "services", "extra", "dig", "query", "up"} /\ ctx \in BOOLEAN
    /\ routes \subseteq Cidrs \cup {{ip} : ip \in IP}
    /\ objs \in [Object -> IP \cup {NoIP}]
    /\ log \in [Kind -> Seq(Object \X (IP \cup {NoIP}))]
    /\ w \in [Kind -> {"off", "watch", "recv"}] /\ expired \in BOOLEAN
    /\ adding \subseteq IP /\ failed \subseteq IP
    /\ dom \in 1 .. Len(ExtraDomain) + 1 /\ extraHost \subseteq {ExtraDomain[i] : i \in DOMAIN ExtraDomain}
    /\ \A k \in Kind : pos[k] \in 0 .. Len(log[k])
    \* A connection is in use only with its watches.
    /\ phase = "up" => \A k \in Kind : w[k] # "off"

RoutesInit ==
    /\ phase = "off" /\ ctx = FALSE /\ routes = {}
    /\ objs \in {f \in [Object -> IP \cup {NoIP}] : \A o \in Object : f[o] \in AddressOf(o) \cup {NoIP}}
    /\ log = [k \in Kind |-> << >>] /\ pos = [k \in Kind |-> 0]
    /\ w = [k \in Kind |-> "off"] /\ adding = {} /\ failed = {} /\ expired = FALSE
    /\ dom = 1 /\ extraHost = {}

cluster == <<objs, log, expired>>
watches == <<w, pos>>

-----------------------------------------------------------------------------
(* DoConnect.                                                              *)

\* The error of a step, or the end of the connection: Cleanup cancels the
\* context and the device is gone with its routes.
Cleanup ==
    /\ phase' = "off" /\ ctx' = FALSE /\ routes' = {}
    /\ UNCHANGED <<cluster, watches, adding, failed, dom, extraHost>>

StartLocalTunServe ==
    /\ phase = "off" /\ adding = {} /\ \A k \in Kind : w[k] = "off"
    /\ phase' = "pods" /\ ctx' = TRUE /\ routes' = Cidrs
    /\ dom' = 1 /\ extraHost' = {} /\ failed' = {}
    /\ UNCHANGED <<cluster, watches, adding>>

\* Which addresses of the objects addRouteFunc is called for.
Wanted(o, ip) == ip # NoIP /\ o \notin HostNetwork

\* The objects are listed, and the watch starts.
List(k, next) ==
    /\ adding' = adding \cup {objs[o] : o \in {x \in Object : KindOf(x) = k /\ Wanted(x, objs[x])}}
    /\ log' = [log EXCEPT ![k] = << >>] /\ pos' = [pos EXCEPT ![k] = 0]
    /\ w' = [w EXCEPT ![k] = "watch"] /\ phase' = next
    /\ UNCHANGED <<ctx, routes, objs, failed, expired, dom, extraHost>>

AddPodRoutes == phase = "pods" /\ (List("pod", "services") \/ Cleanup)
AddServiceRoutes == phase = "services" /\ (List("service", "extra") \/ Cleanup)

\* The route of an address is added where it is not right, or cannot be added.
Add(ip) ==
    IF Covered(ip) \/ ~ctx THEN UNCHANGED <<routes, failed>>
    ELSE \/ routes' = routes \cup {{ip}} /\ failed' = failed \ {ip}
         \/ ip \in MayFail /\ UNCHANGED routes /\ failed' = failed \cup {ip}


\* addRouteFunc of addRouteDynamic, in a goroutine.
AddRouteFunc(ip) ==
    /\ ip \in adding /\ adding' = adding \ {ip}
    /\ IF ip \in ApiServerIPs THEN UNCHANGED <<routes, failed>> ELSE Add(ip)
    /\ UNCHANGED <<phase, ctx, cluster, watches, dom, extraHost>>

-----------------------------------------------------------------------------
(* addExtraRoute.                                                          *)

\* The routes of the DNS pods; without an extra domain there is nothing to do.
AddExtraRoute ==
    /\ phase = "extra"
    /\ \/ /\ \/ ExtraDomain = << >> /\ phase' = "up" /\ UNCHANGED <<routes, failed>>
             \/ /\ ExtraDomain # << >> /\ phase' = "dig"
                /\ routes' = routes \cup {{ip} : ip \in {i \in DnsIPs : ~Covered(i)}}
                /\ UNCHANGED failed
          /\ UNCHANGED <<ctx, cluster, watches, adding, dom, extraHost>>
       \/ Cleanup

\* A domain has an answer: the route and the entry for the hosts file.
Resolved ==
    /\ dom <= Len(ExtraDomain)
    /\ LET d == ExtraDomain[dom] IN Add(DomainIP(d)) /\ extraHost' = extraHost \cup {d}
    /\ dom' = dom + 1
    /\ UNCHANGED <<phase, ctx, cluster, watches, adding>>

AllResolved ==
    /\ dom > Len(ExtraDomain) /\ phase' = "up"
    /\ UNCHANGED <<ctx, routes, cluster, watches, adding, failed, dom, extraHost>>

\* `dig` in the traffic manager; the first failure goes on to the DNS client,
\* with all domains.
Dig ==
    /\ phase = "dig"
    /\ \/ Resolved \/ AllResolved
       \/ /\ dom <= Len(ExtraDomain) /\ phase' = "query" /\ dom' = 1
          /\ UNCHANGED <<ctx, routes, cluster, watches, adding, failed, extraHost>>

\* The DNS client asks until it has an answer, or gives up.
Query == phase = "query" /\ (Resolved \/ AllResolved \/ (dom <= Len(ExtraDomain) /\ Cleanup))

-----------------------------------------------------------------------------
(* The watches.                                                            *)

\* Mutant: a new watch starts at the current version.
WatchFromNow(k) ==
    /\ w[k] = "watch"
    /\ IF ~ctx THEN w' = [w EXCEPT ![k] = "off"] /\ UNCHANGED pos
       ELSE /\ ~expired
            /\ w' = [w EXCEPT ![k] = "recv"] /\ pos' = [pos EXCEPT ![k] = Len(log[k])]
    /\ UNCHANGED <<phase, ctx, routes, cluster, adding, failed, dom, extraHost>>

\* A watch starts at the version of the first list, and delivers all events
\* since.  When that version is gone the server answers with an error, and the
\* loop asks for the same again.
Watch(k) ==
    /\ w[k] = "watch"
    /\ IF ~ctx THEN w' = [w EXCEPT ![k] = "off"] /\ UNCHANGED pos
       ELSE ~expired /\ w' = [w EXCEPT ![k] = "recv"] /\ pos' = [pos EXCEPT ![k] = 0]
    /\ UNCHANGED <<phase, ctx, routes, cluster, adding, failed, dom, extraHost>>

WatchCloses(k) ==
    /\ w[k] = "recv" /\ w' = [w EXCEPT ![k] = "watch"]
    /\ UNCHANGED <<phase, ctx, routes, cluster, pos, adding, failed, dom, extraHost>>

WatchEvent(k) ==
    /\ w[k] = "recv" /\ ctx /\ pos[k] < Len(log[k])
    /\ LET e == log[k][pos[k] + 1] IN
       adding' = adding \cup (IF Wanted(e[1], e[2]) THEN {e[2]} ELSE {})
    /\ pos' = [pos EXCEPT ![k] = @ + 1]
    /\ UNCHANGED <<phase, ctx, routes, cluster, w, failed, dom, extraHost>>

-----------------------------------------------------------------------------
(* The cluster.                                                            *)

\* An object is created without an address, gets one, or is deleted: the last
\* event of an object carries the address that it had.
ObjectChanges(o) ==
    LET k == KindOf(o) IN
    /\ w[k] # "off" /\ ctx /\ Len(log[k]) < MaxEvent
    /\ \E ip \in AddressOf(o) \cup {NoIP} :
          /\ objs[o] = NoIP \/ ip = NoIP
          /\ objs' = [objs EXCEPT ![o] = ip]
          /\ log' = [log EXCEPT ![k] = Append(@, <<o, IF ip = NoIP THEN objs[o] ELSE ip>>)]
    /\ UNCHANGED <<phase, ctx, routes, watches, adding, failed, expired, dom, extraHost>>

Compact ==
    /\ ~expired /\ phase = "up" /\ expired' = TRUE
    /\ UNCHANGED <<phase, ctx, routes, objs, log, watches, adding, failed, dom, extraHost>>

Disconnect == phase = "up" /\ Cleanup

-----------------------------------------------------------------------------

ConnectStep == AddPodRoutes \/ AddServiceRoutes \/ AddExtraRoute \/ Dig \/ Query

RoutesNext ==
    \/ StartLocalTunServe \/ ConnectStep \/ Disconnect \/ Compact
    \/ \E ip \in IP : AddRouteFunc(ip)
    \/ \E k \in Kind : Watch(k) \/ WatchCloses(k) \/ WatchEvent(k)
    \/ \E o \in Object : ObjectChanges(o)

\* Goroutines run.  A watch may close again and again, but not for ever before
\* one and the same event.
RoutesFairness ==
    /\ \A ip \in IP : WF_routesVars(AddRouteFunc(ip))
    /\ \A k \in Kind : /\ WF_routesVars(Watch(k))
                       /\ \A p \in 0 .. MaxEvent - 1 : SF_routesVars(WatchEvent(k) /\ pos[k] = p)

RoutesSpec == RoutesInit /\ [][RoutesNext]_routesVars /\ RoutesFairness

-----------------------------------------------------------------------------
(* Properties.                                                             *)


\* A connection that is up has a host entry for every extra domain, and a route
\* to its address unless that could not be added: the second loop starts over
\* where dig has failed (connect.go:1200-1207, 1247-1306).
ExtraDomainsResolved ==
    phase = "up" => \A i \in DOMAIN ExtraDomain :
                    LET d == ExtraDomain[i] IN
                    d \in extraHost /\ (Covered(DomainIP(d)) \/ DomainIP(d) \in failed)

\* As long as the version of the first lists is not compacted, every pod and
\* service gets its route, in spite of closed watches and of addresses that come
\* later than the pod ("Listen all pod, add route if needed", connect.go:426).
RoutesFollow ==
    <>[](~expired /\ phase = "up") =>
        <>[](\A o \in Object \ HostNetwork :
                objs[o] \in IP \ ApiServerIPs => Covered(objs[o]) \/ objs[o] \in failed)
=============================================================================
