------------------------------- MODULE Daemon -------------------------------
(***************************************************************************)
(* The pair of daemons on every machine and the primary connection that    *)
(* they manage: Connect and Disconnect (pkg/daemon/action), RentInnerIP,   *)
(* DoConnect and Cleanup (pkg/handler), composed with the ConfigMap of the *)
(* cluster that they all use.                                              *)
(*                                                                         *)
(* A command of the user is a request to the user daemon, which rents the  *)
(* address and passes the request on to the sudo daemon, which owns the    *)
(* tunnel.  Both daemons keep a ConnectOptions in svr.connect and both run *)
(* Cleanup on it.  The handlers take no lock: what they read of the        *)
(* daemon's state may have changed at their next step.  The steps are the  *)
(* calls to the cluster and to the other daemon.                           *)
(*                                                                         *)
(* A rent or a release of an address is one step here: Dhcp shows that the *)
(* managers implement that.  Only the IPv4 address is modelled, the IPv6   *)
(* address is rented and released together with it.                        *)
(***************************************************************************)
EXTENDS ConfigMap

CONSTANTS
    Machine,
    Requests,   \* requests that a machine can work on at the same time
    MaxRef      \* bound on the reference count

ASSUME DaemonAssumption == Requests \in Nat /\ MaxRef \in Nat

Thread == Machine \X (1 .. Requests)

\* A nil pointer to a ConnectOptions.
Nil == << >>

VARIABLES
    marked,     \* DHCP: the addresses marked in the ConfigMap
    ref,        \* REF_COUNT in the ConfigMap
    manager,    \* the deployment of the traffic manager
    user,       \* svr.connect of the user daemon: its address, or NoIP for nil
    sudo,       \* svr.t and svr.connect (the thread that created it) of the sudo daemon
    opt,        \* the ConnectOptions that the sudo daemon created for a request
    tun,        \* the addresses of the tunnels that are up on a machine
    th          \* where every request is

vars == <<marked, ref, manager, user, sudo, opt, tun, th>>

ConnectSteps == {"rent", "sudo", "init", "ensure", "create", "wait",
                 "get", "put", "newget", "newput", "tunnel", "serve"}
CleanupSteps == {"release", "cget", "cput", "check", "cancel"}

TypeOK ==
    /\ marked \subseteq Pool4
    /\ ref \in 0 .. MaxRef
    /\ manager \in {"absent", "unready", "ready"}
    /\ user \in [Machine -> Pool4 \cup {NoIP}]
    /\ sudo \in [Machine -> [t : BOOLEAN, connect : Thread \cup {Nil}]]
    /\ opt \in [Thread -> [client : BOOLEAN, ip : Pool4 \cup {NoIP},
                        ctx : {"none", "live", "cancelled"}]]
    /\ tun \in [Machine -> SUBSET Pool4]
    /\ th \in [Thread -> [pc : {"idle", "already", "start", "end"} \cup ConnectSteps \cup CleanupSteps,
                          op : {"connect", "disconnect"}, side : {"user", "sudo"},
                          obj : Thread \cup {Nil}, ip : Pool4 \cup {NoIP},
                          count : 0 .. MaxRef, caller : BOOLEAN]]

NewOptions == [client |-> FALSE, ip |-> NoIP, ctx |-> "none"]

\* A thread without a request.
Idle == [pc |-> "idle", op |-> "connect", side |-> "user", obj |-> Nil,
         ip |-> NoIP, count |-> 0, caller |-> TRUE]

Init ==
    /\ marked = {}
    /\ ref = 0
    /\ manager = "absent"
    /\ user = [m \in Machine |-> NoIP]
    /\ sudo = [m \in Machine |-> [t |-> FALSE, connect |-> Nil]]
    /\ opt = [r \in Thread |-> NewOptions]
    /\ tun = [m \in Machine |-> {}]
    /\ th = [r \in Thread |-> Idle]

At(r, label) == th[r].pc = label

Goto(r, label) == th' = [th EXCEPT ![r].pc = label]

\* The request is answered.
Return(r) == th' = [th EXCEPT ![r] = Idle]

-----------------------------------------------------------------------------
(* Connect in the user daemon: redirectToSudoDaemon                        *)

Connect(r) ==
    /\ At(r, "idle")
    /\ Goto(r, IF user[r[1]] # NoIP THEN "already" ELSE "rent")
    /\ UNCHANGED <<marked, ref, manager, user, sudo, opt, tun>>

\* "already connect to cluster"
AlreadyConnected(r) ==
    /\ At(r, "already")
    /\ Return(r)
    /\ UNCHANGED <<marked, ref, manager, user, sudo, opt, tun>>

\* RentInnerIP finds no address in the request and rents one.
UserRent(r) ==
    /\ At(r, "rent")
    /\ Usable(marked, Max4, {}) # {}
    /\ LET ip == Chosen(marked, Max4, {})
       IN  /\ marked' = MarkedUpTo(marked, ip)
           /\ th' = [th EXCEPT ![r].pc = "sudo", ![r].ip = ip]
    /\ UNCHANGED <<ref, manager, user, sudo, opt, tun>>

UserRentError(r) ==
    /\ At(r, "rent")
    /\ Return(r)
    /\ UNCHANGED <<marked, ref, manager, user, sudo, opt, tun>>

-----------------------------------------------------------------------------
(* Connect in the sudo daemon                                              *)

\* AlreadyExists: the user daemon returns the error and keeps no record of
\* the address it has rented.
SudoRefuse(r) ==
    /\ At(r, "sudo")
    /\ sudo[r[1]].t
    /\ Return(r)
    /\ UNCHANGED <<marked, ref, manager, user, sudo, opt, tun>>

SudoAccept(r) ==
    /\ At(r, "sudo")
    /\ ~sudo[r[1]].t
    /\ sudo' = [sudo EXCEPT ![r[1]] = [t |-> TRUE, connect |-> r]]
    /\ opt' = [opt EXCEPT ![r] = NewOptions]
    /\ th' = [th EXCEPT ![r].pc = "init", ![r].side = "sudo"]
    /\ UNCHANGED <<marked, ref, manager, user, tun>>

\* InitClient, PreCheckResource, RentInnerIP (the address of the request) and
\* the head of DoConnect, all on what svr.connect is now.
SudoInit(r) ==
    /\ At(r, "init")
    /\ sudo[r[1]].connect # Nil
    /\ opt' = [opt EXCEPT ![sudo[r[1]].connect] = [client |-> TRUE, ip |-> th[r].ip, ctx |-> "live"]]
    /\ th' = [th EXCEPT ![r].pc = "ensure", ![r].obj = sudo[r[1]].connect]
    /\ UNCHANGED <<marked, ref, manager, user, sudo, tun>>

\* An error before DoConnect is returned at once: svr.t and svr.connect stay
\* set, with no client yet, with a client, or with a client and the address.
SudoInitError(r) ==
    /\ At(r, "init")
    /\ sudo[r[1]].connect # Nil
    /\ LET c == sudo[r[1]].connect
       IN  opt' \in {opt, [opt EXCEPT ![c].client = TRUE],
                     [opt EXCEPT ![c].client = TRUE, ![c].ip = th[r].ip]}
    /\ Return(r)
    /\ UNCHANGED <<marked, ref, manager, user, sudo, tun>>

\* svr.connect was set to nil by another handler: the daemon panics, and the
\* next command starts a new one.
SudoPanic(r) ==
    /\ At(r, "init")
    /\ sudo[r[1]].connect = Nil
    /\ sudo' = [sudo EXCEPT ![r[1]] = [t |-> FALSE, connect |-> Nil]]
    /\ tun' = [tun EXCEPT ![r[1]] = {}]
    /\ th' = [q \in Thread |-> IF q[1] = r[1] /\ th[q].side = "sudo"
                               THEN Idle
                               ELSE th[q]]
    /\ UNCHANGED <<marked, ref, manager, user, opt>>

\* createOutboundPod finds a pod of the manager and uses it.
ReuseManager(r) ==
    /\ At(r, "ensure")
    /\ opt[th[r].obj].ctx = "live"
    /\ manager # "absent"
    /\ Goto(r, "get")
    /\ UNCHANGED <<marked, ref, manager, user, sudo, opt, tun>>

\* It finds none in two seconds, or its Get fails for whatever reason: it
\* deletes what there is (deleteResource, not under the handler's context).
NoManager(r) ==
    /\ At(r, "ensure")
    /\ manager' = "absent"
    /\ Goto(r, "create")
    /\ UNCHANGED <<marked, ref, user, sudo, opt, tun>>

\* The creation fails if another machine has created the manager since: see CreateError.
CreateManager(r) ==
    /\ At(r, "create")
    /\ opt[th[r].obj].ctx = "live"
    /\ manager = "absent"
    /\ manager' = "unready"
    /\ Goto(r, "wait")
    /\ UNCHANGED <<marked, ref, user, sudo, opt, tun>>

\* The watch sees the pod ready.
ManagerReady(r) ==
    /\ At(r, "wait")
    /\ opt[th[r].obj].ctx = "live"
    /\ manager # "absent"
    /\ manager' = "ready"
    /\ Goto(r, "newget")
    /\ UNCHANGED <<marked, ref, user, sudo, opt, tun>>

\* updateRefCount(+1): a Get and an unconditional Patch.
ConnectRefGet(r) ==
    /\ th[r].pc \in {"get", "newget"}
    /\ opt[th[r].obj].ctx = "live"
    /\ th' = [th EXCEPT ![r].pc = IF @ = "get" THEN "put" ELSE "newput", ![r].count = ref]
    /\ UNCHANGED <<marked, ref, manager, user, sudo, opt, tun>>

ConnectRefPut(r) ==
    /\ th[r].pc \in {"put", "newput"}
    /\ opt[th[r].obj].ctx = "live"
    /\ th[r].count < MaxRef
    /\ ref' = th[r].count + 1
    /\ th' = [th EXCEPT ![r].pc = "tunnel", ![r].count = 0]
    /\ UNCHANGED <<marked, manager, user, sudo, opt, tun>>

\* portForward, startLocalTunServe, routes and DNS.
StartTunnel(r) ==
    /\ At(r, "tunnel")
    /\ opt[th[r].obj].ctx = "live"
    /\ tun' = [tun EXCEPT ![r[1]] = @ \cup {opt[th[r].obj].ip}]
    /\ Goto(r, "serve")
    /\ UNCHANGED <<marked, ref, manager, user, sudo, opt>>


\* A step of the creation fails (the objects exist, the pod does not get ready
\* in time, the count cannot be written): the deferred deleteResource deletes
\* the manager, whoever created it.
CreateError(r) ==
    /\ th[r].pc \in {"create", "wait", "newget", "newput"}
    /\ manager' = "absent"
    /\ Goto(r, IF sudo[r[1]].connect = Nil THEN "end" ELSE "release")
    /\ UNCHANGED <<marked, ref, user, sudo, opt, tun>>

\* Another step of DoConnect fails, or its context is cancelled: the handler runs
\* Cleanup on what svr.connect is now.
DoConnectError(r) ==
    /\ th[r].pc \in {"ensure", "get", "put", "tunnel", "serve"}
    /\ Goto(r, IF sudo[r[1]].connect = Nil THEN "end" ELSE "release")
    /\ UNCHANGED <<marked, ref, manager, user, sudo, opt, tun>>

\* The sudo daemon answers; a user daemon whose caller is gone has returned before.
ConnectDone(r) ==
    /\ At(r, "serve")
    /\ user' = IF th[r].caller THEN [user EXCEPT ![r[1]] = th[r].ip] ELSE user
    /\ Return(r)
    /\ UNCHANGED <<marked, ref, manager, sudo, opt, tun>>

-----------------------------------------------------------------------------
(* Disconnect with ID 0, first in the sudo daemon, then in the user daemon *)

Disconnect(r) ==
    /\ At(r, "idle")
    /\ th' = [th EXCEPT ![r].pc = "start", ![r].op = "disconnect", ![r].side = "sudo"]
    /\ UNCHANGED <<marked, ref, manager, user, sudo, opt, tun>>

HasConnect(r) ==
    IF th[r].side = "sudo" THEN sudo[r[1]].connect # Nil ELSE user[r[1]] # NoIP

BeginDisconnect(r) ==
    /\ At(r, "start")
    /\ Goto(r, IF HasConnect(r) THEN "release" ELSE "end")
    /\ UNCHANGED <<marked, ref, manager, user, sudo, opt, tun>>

-----------------------------------------------------------------------------
(* Cleanup of what svr.connect is when it is called                        *)

CleanupOptions(r) ==
    IF th[r].side = "user" THEN [client |-> user[r[1]] # NoIP, ip |-> user[r[1]], ctx |-> "none"]
    ELSE IF sudo[r[1]].connect = Nil THEN NewOptions
    ELSE opt[sudo[r[1]].connect]

\* ReleaseIP, done or refused, if there is an address.
ReleaseIP(r) ==
    /\ At(r, "release")
    /\ LET c == CleanupOptions(r)
       IN  /\ marked' \in IF c.ip = NoIP THEN {marked} ELSE {marked, Released(marked, c.ip, Net4)}
           /\ th' = [th EXCEPT ![r].pc = IF c.client THEN "cget" ELSE "cancel",
                               ![r].obj = sudo[r[1]].connect, ![r].ip = c.ip]
    /\ UNCHANGED <<ref, manager, user, sudo, opt, tun>>

\* updateRefCount(-1)
CleanupRefGet(r) ==
    /\ At(r, "cget")
    /\ th' = [th EXCEPT ![r].pc = "cput", ![r].count = ref]
    /\ UNCHANGED <<marked, ref, manager, user, sudo, opt, tun>>

CleanupRefPut(r) ==
    /\ At(r, "cput")
    /\ ref' = IF th[r].count = 0 THEN 0 ELSE th[r].count - 1
    /\ th' = [th EXCEPT ![r].pc = "check", ![r].count = 0]
    /\ UNCHANGED <<marked, manager, user, sudo, opt, tun>>

CleanupRefError(r) ==
    /\ th[r].pc \in {"cget", "cput"}
    /\ Goto(r, "cancel")
    /\ UNCHANGED <<marked, ref, manager, user, sudo, opt, tun>>

\* cleanup(keepCIDR): removes both DHCP keys, resets the count, deletes the manager.
TearDown(r) ==
    /\ At(r, "check")
    /\ ref = 0 /\ manager = "unready"
    /\ marked' = {}
    /\ ref' = 0
    /\ manager' = "absent"
    /\ Goto(r, "cancel")
    /\ UNCHANGED <<user, sudo, opt, tun>>

\* Mutant: the handler waits for the other machines to leave.
KeepManagerWaits(r) ==
    /\ At(r, "check")
    /\ ref = 0 /\ manager # "unready"
    /\ Goto(r, "cancel")
    /\ UNCHANGED <<marked, ref, manager, user, sudo, opt, tun>>

KeepManager(r) ==
    /\ At(r, "check")
    /\ ref # 0 \/ manager # "unready"
    /\ Goto(r, "cancel")
    /\ UNCHANGED <<marked, ref, manager, user, sudo, opt, tun>>

\* Mutant: the context is not cancelled when the caller is gone.
CancelTunnelForCaller(r) ==
    /\ At(r, "cancel")
    /\ IF th[r].side = "sudo" /\ th[r].obj # Nil /\ th[r].caller
       THEN /\ tun' = [tun EXCEPT ![r[1]] = @ \ {th[r].ip}]
            /\ opt' = [opt EXCEPT ![th[r].obj].ctx = "cancelled"]
       ELSE UNCHANGED <<tun, opt>>
    /\ Goto(r, "end")
    /\ UNCHANGED <<marked, ref, manager, user, sudo>>

\* Only the sudo daemon has a tunnel to stop.
CancelTunnel(r) ==
    /\ At(r, "cancel")
    /\ IF th[r].side = "sudo" /\ th[r].obj # Nil
       THEN /\ tun' = [tun EXCEPT ![r[1]] = @ \ {th[r].ip}]
            /\ opt' = [opt EXCEPT ![th[r].obj].ctx = "cancelled"]
       ELSE UNCHANGED <<tun, opt>>
    /\ Goto(r, "end")
    /\ UNCHANGED <<marked, ref, manager, user, sudo>>

\* svr.connect = nil, svr.t = 0.  After Disconnect in the sudo daemon it is the
\* user daemon's turn, unless its caller is gone.
EndSudo(r) ==
    /\ At(r, "end") /\ th[r].side = "sudo"
    /\ sudo' = [sudo EXCEPT ![r[1]] = [t |-> FALSE, connect |-> Nil]]
    /\ IF th[r].op = "disconnect" /\ th[r].caller
       THEN th' = [th EXCEPT ![r].pc = "start", ![r].side = "user", ![r].obj = Nil,
                                ![r].ip = NoIP, ![r].count = 0]
       ELSE Return(r)
    /\ UNCHANGED <<marked, ref, manager, user, opt, tun>>


EndUser(r) ==
    /\ At(r, "end") /\ th[r].side = "user"
    /\ user' = [user EXCEPT ![r[1]] = NoIP]
    /\ Return(r)
    /\ UNCHANGED <<marked, ref, manager, sudo, opt, tun>>

-----------------------------------------------------------------------------
(* Environment                                                             *)

\* The command is interrupted: the user daemon's stream breaks and its handler
\* returns, while the handler of the sudo daemon goes on.
CallerGone(r) ==
    /\ th[r].side = "sudo" /\ th[r].caller
    /\ th' = [th EXCEPT ![r].caller = FALSE]
    /\ UNCHANGED <<marked, ref, manager, user, sudo, opt, tun>>

\* The pod of the traffic manager fails its readiness check, or passes it again.
ManagerFlaps ==
    /\ manager # "absent"
    /\ manager' = IF manager = "ready" THEN "unready" ELSE "ready"
    /\ UNCHANGED <<marked, ref, user, sudo, opt, tun, th>>

-----------------------------------------------------------------------------
Handle(r) ==
    \/ AlreadyConnected(r) \/ UserRent(r) \/ UserRentError(r)
    \/ SudoRefuse(r) \/ SudoAccept(r) \/ SudoInit(r) \/ SudoInitError(r) \/ SudoPanic(r)
    \/ ReuseManager(r) \/ NoManager(r) \/ CreateManager(r) \/ ManagerReady(r)
    \/ ConnectRefGet(r) \/ ConnectRefPut(r) \/ StartTunnel(r)
    \/ CreateError(r) \/ DoConnectError(r) \/ ConnectDone(r)
    \/ BeginDisconnect(r)
    \/ ReleaseIP(r) \/ CleanupRefGet(r) \/ CleanupRefPut(r) \/ CleanupRefError(r)
    \/ TearDown(r) \/ KeepManager(r) \/ CancelTunnel(r) \/ EndSudo(r) \/ EndUser(r)

Next ==
    \/ \E r \in Thread : Connect(r) \/ Disconnect(r) \/ Handle(r) \/ CallerGone(r)
    \/ ManagerFlaps

\* The Go scheduler runs every handler, and every wait in a handler has a timeout.
Fairness == \A r \in Thread : WF_vars(Handle(r))

Spec == Init /\ [][Next]_vars /\ Fairness

-----------------------------------------------------------------------------
Quiet(m) == \A k \in 1 .. Requests : At(<<m, k>>, "idle")

\* Machine m has begun to give its connection up.
InCleanup(m) == \E k \in 1 .. Requests : th[<<m, k>>].pc \in CleanupSteps \cup {"end"}



\* A Disconnect that has reached the sudo daemon takes the tunnel down, even if
\* the command is interrupted and whatever call to the cluster fails.
DisconnectStops ==
    \A r \in Thread : th[r].op = "disconnect" /\ At(r, "start") ~> tun[r[1]] = {}

\* Every command is answered, however the handlers of the two daemons interleave.
RequestsEnd == \A r \in Thread : []<>At(r, "idle")

\* "needs to give it back to dhcp": the address of a tunnel stays marked until
\* its own machine gives it back.
TunnelAddressMarked ==
    \A m \in Machine : ~InCleanup(m) => tun[m] \subseteq marked

\* "only if ref is zero and deployment is not ready, needs to clean up": the
\* manager is not deleted under the tunnel of a machine that does not disconnect.
TearDownOnlyUnused ==
    [][\A r \in Thread :
        At(r, "check") /\ manager # "absent" /\ manager' = "absent" =>
            \A m \in Machine : tun[m] = {} \/ InCleanup(m)]_vars
=============================================================================
