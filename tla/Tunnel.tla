------------------------------- MODULE Tunnel -------------------------------
(***************************************************************************)
(* SSH tunnels: SshJump (the API server of a cluster reached through a     *)
(* bastion, requested by ConfigAdd) and the session of `kubevpn ssh`       *)
(* (wsHandler), which maps a port, starts a server on the remote machine   *)
(* (SshStart, under a mutex) and opens a terminal.  Both run util.Main in  *)
(* a retry loop: dial, listen, accept, and one goroutine per client.       *)
(***************************************************************************)
EXTENDS Naturals

CONSTANTS Jump,      \* tunnels of ConfigAdd
          Ssh,       \* tunnels of `kubevpn ssh`
          Client     \* slots for the clients of a tunnel

Tunnel == Jump \cup Ssh

VARIABLES
    pc,          \* the handler: SshJump or wsHandler.handle
    ctx,         \* the tunnel's context is not cancelled
    loop,        \* the retry goroutine and util.Main within it
    mctx,        \* the context of the current Main is not cancelled
    link,        \* the ssh client of the current Main works
    readyChan,   \* buffer of readyChan
    errChan,     \* buffer of errChan
    conn,        \* the clients of each tunnel
    reach,       \* the ssh server is reachable
    cancelFunc,  \* tunnels with an entry in CancelFunc
    serverIP,    \* sshdaemon.go: serverIP is set
    server,      \* the tun server of the remote machine runs
    mux          \* holder of the mutex of SshStart, {} if free

vars == <<pc, ctx, loop, mctx, link, readyChan, errChan, conn, reach,
          cancelFunc, serverIP, server, mux>>
chans == <<readyChan, errChan>>
remote == <<serverIP, server, mux>>

Listening == {"signal", "check", "accept"}
Starting == {"check", "parse", "ping", "route"}   \* inside SshStart
Over == {"done", "failed", "closed"}

TypeOK ==
    /\ pc \in [Tunnel -> {"idle", "dial", "wait", "ready", "add", "lock", "local", "terminal"}
                            \cup Starting \cup Over]
    /\ ctx \in [Tunnel -> BOOLEAN] /\ mctx \in [Tunnel -> BOOLEAN]
    /\ loop \in [Tunnel -> {"off", "top", "dial", "listen", "over"} \cup Listening]
    /\ link \in [Tunnel -> BOOLEAN]
    /\ readyChan \in [Tunnel -> BOOLEAN] /\ errChan \in [Tunnel -> BOOLEAN]
    /\ conn \in [Tunnel -> [Client -> {"free", "queued", "dialing", "stale", "relay"}]]
    /\ reach \in BOOLEAN /\ cancelFunc \subseteq Jump
    /\ serverIP \in BOOLEAN /\ server \in BOOLEAN /\ mux \in SUBSET Ssh
    /\ \A t \in Tunnel, c \in Client :
           conn[t][c] = "queued" => loop[t] \in Listening

Init ==
    /\ pc = [t \in Tunnel |-> "idle"]
    /\ ctx = [t \in Tunnel |-> TRUE] /\ mctx = [t \in Tunnel |-> FALSE]
    /\ loop = [t \in Tunnel |-> "off"] /\ link = [t \in Tunnel |-> FALSE]
    /\ readyChan = [t \in Tunnel |-> FALSE] /\ errChan = [t \in Tunnel |-> FALSE]
    /\ conn = [t \in Tunnel |-> [c \in Client |-> "free"]]
    /\ reach = TRUE /\ cancelFunc = {}
    /\ serverIP = FALSE /\ server = FALSE /\ mux = {}

-----------------------------------------------------------------------------
(* util.Main and the loop around it.                                       *)

\* Main returns an error: the listener is closed, its context cancelled, the
\* error goes to errChan if there is room.  Clients that are still being
\* dialled stay with the old ssh client and its context.
EndMain(t) ==
    /\ errChan' = [errChan EXCEPT ![t] = TRUE]
    /\ loop' = [loop EXCEPT ![t] = "top"]
    /\ mctx' = [mctx EXCEPT ![t] = FALSE]
    /\ link' = [link EXCEPT ![t] = FALSE]
    /\ conn' = [conn EXCEPT ![t] = [c \in Client |->
                   CASE @[c] = "queued" -> "free"
                     [] @[c] = "dialing" -> "stale"
                     [] OTHER -> @[c]]]

\* The head of the retry loop.
Retry(t) ==
    /\ loop[t] = "top"
    /\ loop' = [loop EXCEPT ![t] = IF ctx[t] THEN "dial" ELSE "over"]
    /\ UNCHANGED <<pc, ctx, mctx, link, chans, conn, reach, cancelFunc, remote>>

\* DialSshRemote: directly, or through the chain of jump hosts.
DialSshRemote(t) ==
    /\ loop[t] = "dial"
    /\ \/ /\ reach
          /\ loop' = [loop EXCEPT ![t] = "listen"]
          /\ mctx' = [mctx EXCEPT ![t] = ctx[t]]
          /\ link' = [link EXCEPT ![t] = TRUE]
          /\ UNCHANGED <<errChan, conn>>
       \/ ~reach /\ EndMain(t)
    /\ UNCHANGED <<pc, ctx, readyChan, reach, cancelFunc, remote>>

\* The local listener.  Its port was free when it was chosen, and may be taken
\* by another program now and then.
Listen(t) ==
    /\ loop[t] = "listen"
    /\ loop' = [loop EXCEPT ![t] = "signal"]
    /\ UNCHANGED <<pc, ctx, mctx, link, chans, conn, reach, cancelFunc, remote>>

ListenFails(t) ==
    /\ loop[t] = "listen" /\ EndMain(t)
    /\ UNCHANGED <<pc, ctx, readyChan, reach, cancelFunc, remote>>

\* Without room in `done` the signal is dropped.
Signal(t) ==
    /\ loop[t] = "signal"
    /\ readyChan' = [readyChan EXCEPT ![t] = TRUE]
    /\ loop' = [loop EXCEPT ![t] = "check"]
    /\ UNCHANGED <<pc, ctx, mctx, link, errChan, conn, reach, cancelFunc, remote>>

\* The context is looked at between two calls of Accept only.
Check(t) ==
    /\ loop[t] = "check"
    /\ IF ctx[t] /\ mctx[t]
       THEN /\ loop' = [loop EXCEPT ![t] = "accept"]
            /\ UNCHANGED <<errChan, mctx, link, conn>>
       ELSE EndMain(t)
    /\ UNCHANGED <<pc, ctx, readyChan, reach, cancelFunc, remote>>

Accept(t) ==
    /\ loop[t] = "accept"
    /\ \E c \in Client : /\ conn[t][c] = "queued"
                         /\ conn' = [conn EXCEPT ![t][c] = "dialing"]
    /\ loop' = [loop EXCEPT ![t] = "check"]
    /\ UNCHANGED <<pc, ctx, mctx, link, chans, reach, cancelFunc, remote>>

\* Mutant: a client that cannot be dialled does not end Main.
ServeAndStay(t, c) ==
    /\ \/ /\ conn[t][c] = "dialing" /\ link[t]
          /\ conn' = [conn EXCEPT ![t][c] = "relay"]
       \/ /\ (conn[t][c] = "dialing" /\ ~link[t]) \/ conn[t][c] = "stale"
          /\ conn' = [conn EXCEPT ![t][c] = "free"]
    /\ UNCHANGED <<pc, ctx, loop, mctx, link, chans, reach, cancelFunc, remote>>

\* The goroutine of a client: through the ssh client of its Main, or, when
\* that fails, the client is closed and Main's context cancelled.
Serve(t, c) ==
    /\ \/ /\ conn[t][c] = "dialing" /\ link[t]
          /\ conn' = [conn EXCEPT ![t][c] = "relay"] /\ UNCHANGED mctx
       \/ /\ conn[t][c] = "dialing" /\ ~link[t]
          /\ conn' = [conn EXCEPT ![t][c] = "free"]
          /\ mctx' = [mctx EXCEPT ![t] = FALSE]
       \/ /\ conn[t][c] = "stale" /\ UNCHANGED mctx
          /\ \/ conn' = [conn EXCEPT ![t][c] = "free"]
             \/ reach /\ conn' = [conn EXCEPT ![t][c] = "relay"]
    /\ UNCHANGED <<pc, ctx, loop, link, chans, reach, cancelFunc, remote>>

\* handleClient: either copy ends.
HandleClient(t, c) ==
    /\ conn[t][c] = "relay"
    /\ conn' = [conn EXCEPT ![t][c] = "free"]
    /\ UNCHANGED <<pc, ctx, loop, mctx, link, chans, reach, cancelFunc, remote>>

-----------------------------------------------------------------------------
(* SshJump and portMap.                                                    *)

\* The first error of a session ends it and cancels its context.  SshJump leaves
\* that to its caller, and ConfigAdd keeps the cancel function of a failed call
\* under the empty path, which no client is given.
Fail(t) ==
    /\ pc' = [pc EXCEPT ![t] = "failed"]
    /\ ctx' = [ctx EXCEPT ![t] = @ /\ t \in Jump]

\* SshJump reads the kubeconfig, perhaps from the remote machine, and chooses
\* the end points of the tunnel.
Configure(t) ==
    /\ pc[t] = "idle" /\ t \in Jump
    /\ \/ pc' = [pc EXCEPT ![t] = "dial"] /\ UNCHANGED ctx
       \/ Fail(t)
    /\ UNCHANGED <<loop, mctx, link, chans, conn, reach, cancelFunc, remote>>

\* wsHandler installs kubevpn on the remote machine when it is not there.
Install(t) ==
    /\ pc[t] = "idle" /\ t \in Ssh
    /\ \/ pc' = [pc EXCEPT ![t] = "dial"] /\ UNCHANGED ctx
       \/ Fail(t)
    /\ UNCHANGED <<loop, mctx, link, chans, conn, reach, cancelFunc, remote>>

\* The pre-check dials once; then the loop is started.
PreCheck(t) ==
    /\ pc[t] = "dial"
    /\ \/ /\ reach
          /\ pc' = [pc EXCEPT ![t] = "wait"]
          /\ loop' = [loop EXCEPT ![t] = "top"] /\ UNCHANGED ctx
       \/ ~reach /\ Fail(t) /\ UNCHANGED loop
    /\ UNCHANGED <<mctx, link, chans, conn, reach, cancelFunc, remote>>

\* The select on readyChan and errChan.
Wait(t) ==
    /\ pc[t] = "wait"
    /\ \/ /\ readyChan[t] /\ readyChan' = [readyChan EXCEPT ![t] = FALSE]
          /\ pc' = [pc EXCEPT ![t] = IF t \in Jump THEN "ready" ELSE "lock"]
          /\ UNCHANGED <<ctx, errChan>>
       \/ /\ errChan[t] /\ errChan' = [errChan EXCEPT ![t] = FALSE]
          /\ Fail(t) /\ UNCHANGED readyChan
    /\ UNCHANGED <<loop, mctx, link, conn, reach, cancelFunc, remote>>

\* SshJump writes the kubeconfig that leads through the tunnel.
WriteKubeconfig(t) ==
    /\ pc[t] = "ready"
    /\ \/ pc' = [pc EXCEPT ![t] = "add"] /\ UNCHANGED ctx
       \/ Fail(t)
    /\ UNCHANGED <<loop, mctx, link, chans, conn, reach, cancelFunc, remote>>

\* ConfigAdd stores the cancel function under the path of that kubeconfig.
ConfigAdd(t) ==
    /\ pc[t] = "add"
    /\ pc' = [pc EXCEPT ![t] = "done"]
    /\ cancelFunc' = cancelFunc \cup {t}
    /\ UNCHANGED <<ctx, loop, mctx, link, chans, conn, reach, remote>>

ConfigRemove(t) ==
    /\ pc[t] = "done" /\ t \in cancelFunc
    /\ pc' = [pc EXCEPT ![t] = "closed"]
    /\ ctx' = [ctx EXCEPT ![t] = FALSE] /\ mctx' = [mctx EXCEPT ![t] = FALSE]
    /\ UNCHANGED <<loop, link, chans, conn, reach, cancelFunc, remote>>

-----------------------------------------------------------------------------
(* wsHandler.handle after the port is mapped.                              *)

\* Mutant: SshStart without its mutex.
LockNothing(t) ==
    /\ pc[t] = "lock" /\ pc' = [pc EXCEPT ![t] = "check"]
    /\ UNCHANGED <<ctx, loop, mctx, link, chans, conn, reach, cancelFunc, remote>>

\* `kubevpn ssh-daemon` on the remote machine calls SshStart.
Lock(t) ==
    /\ pc[t] = "lock" /\ mux = {}
    /\ mux' = {t} /\ pc' = [pc EXCEPT ![t] = "check"]
    /\ UNCHANGED <<ctx, loop, mctx, link, chans, conn, reach, cancelFunc,
                   serverIP, server>>

\* A server is started when none was started before.
SshStart(t) ==
    /\ pc[t] = "check"
    /\ pc' = [pc EXCEPT ![t] = IF serverIP THEN "route" ELSE "parse"]
    /\ UNCHANGED <<ctx, loop, mctx, link, chans, conn, reach, cancelFunc, remote>>

\* handler.Parse opens the device and the port; an error answers the call.
ParseServer(t) ==
    /\ pc[t] = "parse"
    /\ \/ /\ server' = TRUE /\ pc' = [pc EXCEPT ![t] = "ping"]
          /\ UNCHANGED <<ctx, mux>>
       \/ Fail(t) /\ mux' = {} /\ UNCHANGED server
    /\ UNCHANGED <<loop, mctx, link, chans, conn, reach, cancelFunc, serverIP>>

\* The first ping that returns, answered or not.
Ping(t) ==
    /\ pc[t] = "ping"
    /\ serverIP' = TRUE /\ pc' = [pc EXCEPT ![t] = "route"]
    /\ UNCHANGED <<ctx, loop, mctx, link, chans, conn, reach, cancelFunc, server, mux>>

\* GetTunDevice fails without a running server; then the route is added.
AddRoute(t) ==
    /\ pc[t] = "route" /\ mux' = {}
    /\ IF server THEN pc' = [pc EXCEPT ![t] = "local"] /\ UNCHANGED ctx ELSE Fail(t)
    /\ UNCHANGED <<loop, mctx, link, chans, conn, reach, cancelFunc, serverIP, server>>

\* SshStop, or the end of handler.Run.
SshStop ==
    /\ server /\ server' = FALSE
    /\ UNCHANGED <<pc, ctx, loop, mctx, link, chans, conn, reach, cancelFunc,
                   serverIP, mux>>

\* The local tun device comes up (or not), then the terminal opens.
OpenTerminal(t) ==
    /\ pc[t] = "local"
    /\ \/ pc' = [pc EXCEPT ![t] = "terminal"] /\ UNCHANGED ctx
       \/ Fail(t)
    /\ UNCHANGED <<loop, mctx, link, chans, conn, reach, cancelFunc, remote>>

\* enterTerminal returns; the deferred cancelFunc.
CloseTerminal(t) ==
    /\ pc[t] = "terminal"
    /\ pc' = [pc EXCEPT ![t] = "closed"]
    /\ ctx' = [ctx EXCEPT ![t] = FALSE] /\ mctx' = [mctx EXCEPT ![t] = FALSE]
    /\ UNCHANGED <<loop, link, chans, conn, reach, cancelFunc, remote>>

-----------------------------------------------------------------------------
(* The network and the clients.                                            *)

Arrive(t, c) ==
    /\ loop[t] \in Listening /\ conn[t][c] = "free"
    /\ conn' = [conn EXCEPT ![t][c] = "queued"]
    /\ UNCHANGED <<pc, ctx, loop, mctx, link, chans, reach, cancelFunc, remote>>

\* The server is gone, and with it every ssh connection.
Outage ==
    /\ reach /\ reach' = FALSE
    /\ link' = [t \in Tunnel |-> FALSE]
    /\ conn' = [t \in Tunnel |-> [c \in Client |->
                   IF conn[t][c] = "relay" THEN "free" ELSE conn[t][c]]]
    /\ UNCHANGED <<pc, ctx, loop, mctx, chans, cancelFunc, remote>>

Restore ==
    /\ ~reach /\ reach' = TRUE
    /\ UNCHANGED <<pc, ctx, loop, mctx, link, chans, conn, cancelFunc, remote>>

-----------------------------------------------------------------------------

RunMain(t) == Retry(t) \/ DialSshRemote(t) \/ Listen(t) \/ ListenFails(t)
                \/ Signal(t) \/ Check(t) \/ Accept(t)

Handle(t) ==
    \/ PreCheck(t) \/ Wait(t)
    \/ WriteKubeconfig(t) \/ ConfigAdd(t)
    \/ Lock(t) \/ SshStart(t) \/ ParseServer(t) \/ Ping(t) \/ AddRoute(t)
    \/ OpenTerminal(t)

Next ==
    \/ \E t \in Tunnel : \/ Configure(t) \/ Install(t) \/ RunMain(t) \/ Handle(t)
                         \/ ConfigRemove(t) \/ CloseTerminal(t)
                         \/ \E c \in Client : Serve(t, c) \/ HandleClient(t, c)
                                                \/ Arrive(t, c)
    \/ SshStop \/ Outage \/ Restore

Spec == Init /\ [][Next]_vars

-----------------------------------------------------------------------------
(* Properties.                                                             *)

\* The server of the remote machine is set up by one SshStart at a time, and
\* never while one runs, so no session fails on the port or the device of
\* another (sshdaemon.go:29-75).
ParsedAlone ==
    \A t \in Ssh : pc[t] = "parse" =>
        /\ ~server
        /\ \A u \in Ssh \ {t} : pc[u] \notin Starting

\* Every caller of SshJump and portMap gets readiness or an error: the
\* non-blocking sends never lose both (connect.go:881-911, ssh.go:89-92).  Once the
\* ssh server stays reachable, a tunnel whose clients keep coming relays again: the
\* client that meets the dead link ends Main, and the loop dials anew
\* (ssh.go:95-119, connect.go:883-902).  A cancelled tunnel ends with the next
\* client at the latest (ssh.go:95-104, config.go:37-42).
TunnelFollows ==
    \A t \in Tunnel :
        /\ (pc[t] = "wait") ~> (pc[t] # "wait")
        /\ (<>[](reach /\ ctx[t] /\ loop[t] # "off")
               /\ []<>(\E c \in Client : conn[t][c] = "queued"))
           => []<>(\E c \in Client : conn[t][c] = "relay")
        /\ (~ctx[t] /\ \E c \in Client : conn[t][c] = "queued") ~> (loop[t] = "over")
=============================================================================
