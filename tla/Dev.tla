-------------------------------- MODULE Dev --------------------------------
(***************************************************************************)
(* Development mode: `kubevpn dev` starts the containers of a workload in  *)
(* the local docker engine.  Several commands ("sessions") run on one      *)
(* machine; they share the docker engine, the docker network               *)
(* kubevpn-traffic-manager and the one connection of the local daemon.     *)
(*                                                                         *)
(* A session has three containers: "conn" connects to the cluster in       *)
(* container mode (main.go: createConnectContainer), "peer" is the last    *)
(* container of the pod, whose network the others join, and "first" is the *)
(* one the user develops in, attached to the terminal by three goroutines  *)
(* (hijack.go).                                                            *)
(***************************************************************************)
EXTENDS Naturals, Sequences, SequencesExt

CONSTANTS
    Session,     \* the dev commands started on the machine
    Flags        \* the command lines: records of the set FlagSet below

\* --connect-mode, --rm, an attached terminal (-it), --network, and whether
\* the pod mounts a volume with a SubPath.
FlagSet == [mode : {"host", "container"}, rm : BOOLEAN, attach : BOOLEAN,
            net : BOOLEAN, sub : BOOLEAN]

VARIABLES
    opt,      \* the flags of each session
    pc,       \* where the session is
    retry,    \* the second attempt of ConfigList.Run is under way
    ctxDone,  \* the command's context was cancelled by a signal
    rollback, \* rollbackFuncList
    rolled,   \* how many of its functions RunE has called
    netMode,  \* Copts.netMode: "none", "conn" (container:<conn>), "user"
    ctr,      \* state of the session's containers in the engine
    killed,   \* the connect container was sent SIGTERM
    dirs,     \* a temporary volume directory exists
    net,      \* the network kubevpn-traffic-manager exists
    holds,    \* the network id the session read is the current one
    conn,     \* the daemon has a connection (one per machine)
    raw,      \* the terminal is in raw mode
    stream,   \* hijackedIOStreamer.stream
    out,      \* its output goroutine
    inp,      \* its input goroutine
    errCh,    \* what attachContainer's goroutine sent
    status,   \* goroutine of waitExitOrRemoved
    runCtx    \* runFirst's own context is still live

session == <<opt, pc, retry, ctxDone, rollback, rolled, netMode>>
engine == <<ctr, killed, dirs, net, holds, conn>>
attach == <<raw, stream, out, inp, errCh, status, runCtx>>
vars == <<session, engine, attach>>

Container == {"conn", "peer", "first"}

PC == {"start", "proxy", "connNet", "connNetCreate", "connNetRelist",
       "connCreate", "connStart", "connWait", "logs", "main", "volume", "net",
       "netCreate", "netRelist", "register", "peerCreate", "peerStart",
       "peerWait", "copy", "folder", "firstCreate", "firstAttach", "firstStart",
       "startErr", "startErrRm", "streaming", "waitStatus", "terminal",
       "cancel", "roll", "closing", "removeNet", "done"}

TypeOK ==
    /\ opt \in [Session -> FlagSet] /\ pc \in [Session -> PC]
    /\ retry \in [Session -> BOOLEAN] /\ ctxDone \in [Session -> BOOLEAN]
    /\ \A s \in Session : /\ rollback[s] \in Seq({"close", "dir", "remove"})
                           /\ rolled[s] \in 0..Len(rollback[s])
    /\ netMode \in [Session -> {"none", "conn", "user"}]
    /\ ctr \in [Session -> [Container ->
                            {"none", "created", "running", "exited"}]]
    /\ killed \in [Session -> BOOLEAN] /\ dirs \in [Session -> BOOLEAN]
    /\ net \in BOOLEAN /\ holds \in [Session -> BOOLEAN]
    /\ \A s \in Session : holds[s] => net
    /\ conn \in BOOLEAN /\ raw \in [Session -> BOOLEAN]
    /\ stream \in [Session -> {"off", "setup", "select", "outOnly", "over"}]
    /\ out \in [Session -> {"off", "copy", "send", "over"}]
    /\ inp \in [Session -> {"off", "copy", "detach", "closed", "over"}]
    /\ errCh \in [Session -> {"none", "nil", "escape", "err"}]
    /\ status \in [Session -> {"off", "wait", "zero", "nonzero", "over"}]
    /\ runCtx \in [Session -> BOOLEAN]

Init ==
    /\ opt \in [Session -> Flags]
    /\ pc = [s \in Session |-> "start"]
    /\ retry = [s \in Session |-> FALSE]
    /\ ctxDone = [s \in Session |-> FALSE]
    /\ rollback = [s \in Session |-> <<>>]
    /\ rolled = [s \in Session |-> 0]
    /\ netMode = [s \in Session |-> IF opt[s].net THEN "user" ELSE "none"]
    /\ ctr = [s \in Session |-> [c \in Container |-> "none"]]
    /\ killed = [s \in Session |-> FALSE]
    /\ dirs = [s \in Session |-> FALSE]
    /\ net = FALSE /\ conn = FALSE
    /\ holds = [s \in Session |-> FALSE]
    /\ raw = [s \in Session |-> FALSE]
    /\ stream = [s \in Session |-> "off"]
    /\ out = [s \in Session |-> "off"]
    /\ inp = [s \in Session |-> "off"]
    /\ errCh = [s \in Session |-> "none"]
    /\ status = [s \in Session |-> "off"]
    /\ runCtx = [s \in Session |-> TRUE]

-----------------------------------------------------------------------------
(* Helpers.                                                                *)

Goto(s, l) == pc' = [pc EXCEPT ![s] = l]
At(s, l) == pc[s] = l
Set(s, c, v) == ctr' = [ctr EXCEPT ![s][c] = v]
KeepSession == UNCHANGED <<opt, retry, ctxDone, rollback, rolled, netMode>>

\* Where a session goes when DoDev returns: the deferred cancel() of host
\* mode exists only once doConnect has returned without an error.
Leave(s) == IF opt[s].mode = "host" THEN "cancel" ELSE "roll"

\* The engine starts a container only if the network it joins is there.
Joinable(s, c) ==
    CASE c = "conn" -> holds[s]
      [] netMode[s] = "user" -> TRUE
      [] netMode[s] = "conn" -> ctr[s]["conn"] = "running"
      [] c = "peer" -> holds[s]
      [] OTHER -> ctr[s]["peer"] = "running"

\* The containers with an endpoint in the shared network.
Attached == {s \in Session : \/ ctr[s]["conn"] = "running"
                             \/ /\ ctr[s]["peer"] = "running"
                                /\ netMode[s] = "none"}

-----------------------------------------------------------------------------
(* DoDev and doConnect.                                                    *)

\* The checks of DoDev and of the head of doConnect; any of them may fail.
Begin(s) ==
    /\ At(s, "start")
    /\ \/ Goto(s, IF opt[s].mode = "host" THEN "proxy" ELSE "connNet")
       \/ Goto(s, "roll")
    /\ KeepSession /\ UNCHANGED <<engine, attach>>

\* doConnect in host mode: the Proxy request to the daemon.  When it fails
\* doConnect returns the cancel function with the error, and DoDev drops it.
ConnectHost(s) ==
    /\ At(s, "proxy")
    /\ \/ /\ ~ctxDone[s] /\ conn' = TRUE /\ Goto(s, "main")
       \/ /\ conn' \in {conn, TRUE} /\ Goto(s, "roll")
    /\ KeepSession /\ UNCHANGED <<ctr, killed, dirs, net, holds, attach>>

\* createKubevpnNetwork, called at label l: list the networks, create one if
\* none has the label, list again when the engine answers "forbidden" because
\* another session has created it meanwhile.  `over`: the context it was given
\* is cancelled (createConnectContainer gives it one that never is).
NetworkAt(s, over, l, lc, lr, next, fail) ==
    /\ \/ /\ At(s, l) /\ net /\ ~over
          /\ holds' = [holds EXCEPT ![s] = TRUE]
          /\ UNCHANGED net /\ Goto(s, next)
       \/ /\ At(s, l) /\ (~net \/ over)
          /\ UNCHANGED <<net, holds>> /\ Goto(s, lc)
       \/ /\ At(s, lc) /\ ~net /\ ~over
          /\ net' = TRUE /\ holds' = [holds EXCEPT ![s] = TRUE]
          /\ Goto(s, next)
       \/ /\ At(s, lc) /\ UNCHANGED <<net, holds>>
          /\ \/ net /\ ~over /\ Goto(s, lr)
             \/ Goto(s, fail)
       \/ /\ At(s, lr)
          /\ IF net /\ ~over
             THEN holds' = [holds EXCEPT ![s] = TRUE] /\ Goto(s, next)
             ELSE UNCHANGED holds /\ Goto(s, fail)
          /\ UNCHANGED net
    /\ KeepSession /\ UNCHANGED <<ctr, killed, dirs, conn, attach>>

ConnectNetwork(s) ==
    NetworkAt(s, FALSE, "connNet", "connNetCreate", "connNetRelist",
              "connCreate", "roll")

MainNetwork(s) ==
    NetworkAt(s, ctxDone[s], "net", "netCreate", "netRelist", "register",
              Leave(s))

\* run(): create the container, start it, wait until the engine reports it
\* as running.  `good` is the label after a success and `bad` after an error.
\* Neither container has AutoRemove, so an error leaves what was created.
RunAt(s, c, create, start, wait, good, bad) ==
    \/ /\ At(s, create)
       /\ \/ /\ ~ctxDone[s] /\ ctr[s][c] = "none"
             /\ Set(s, c, "created") /\ Goto(s, start)
          \/ UNCHANGED ctr /\ Goto(s, bad)
    \/ /\ At(s, start)
       /\ \/ /\ ~ctxDone[s] /\ Joinable(s, c) /\ ctr[s][c] = "created"
             /\ Set(s, c, "running") /\ Goto(s, wait)
          \/ UNCHANGED ctr /\ Goto(s, bad)
    \/ /\ At(s, wait)
       /\ \/ (ctr[s][c] = "running" \/ ctxDone[s]) /\ Goto(s, good)
          \/ (ctr[s][c] # "running" \/ ctxDone[s]) /\ Goto(s, bad)
       /\ UNCHANGED ctr

\* doConnect in container mode runs the connect container.  The function that
\* kills it is registered after run() has returned.
RunConnect(s) ==
    /\ RunAt(s, "conn", "connCreate", "connStart", "connWait", "logs", "roll")
    /\ rollback' = IF pc'[s] = "logs"
                   THEN [rollback EXCEPT ![s] = Append(@, "close")]
                   ELSE rollback
    /\ UNCHANGED <<opt, retry, ctxDone, rolled, netMode, killed, dirs, net,
                   holds, conn, attach>>

\* runLogsWaitRunning returns on "enjoy it" in the log or on an error of the
\* log stream; a log that just ends leaves it waiting.
LogsAnswer(s) ==
    /\ At(s, "logs") /\ ~ctxDone[s]
    /\ \/ /\ ctr[s]["conn"] = "running" /\ Goto(s, "main")
          /\ netMode' = [netMode EXCEPT ![s] = "conn"]
       \/ Goto(s, "roll") /\ UNCHANGED netMode
    /\ UNCHANGED <<opt, retry, ctxDone, rollback, rolled, engine, attach>>

\* It also returns when the context is cancelled, and the command goes on as
\* after a success: the network mode is set or, when the error of the log
\* stream is seen first, left unset.
LogsCancelled(s) ==
    /\ At(s, "logs") /\ ctxDone[s] /\ Goto(s, "main")
    /\ netMode' \in {netMode, [netMode EXCEPT ![s] = "conn"]}
    /\ UNCHANGED <<opt, retry, ctxDone, rollback, rolled, engine, attach>>

-----------------------------------------------------------------------------
(* Main and ConfigList.Run.                                                *)

\* The option checks of DoDev and the first part of Main, which reads the
\* workload and its pod.
Prepare(s) ==
    /\ At(s, "main")
    /\ Goto(s, Leave(s)) \/ Goto(s, "volume")
    /\ KeepSession /\ UNCHANGED <<engine, attach>>

\* GetVolume makes a temporary directory and registers its removal before it
\* copies the volume, and the rest of Main up to the network.
GetVolume(s) ==
    /\ At(s, "volume")
    /\ \/ Goto(s, Leave(s)) /\ UNCHANGED <<dirs, rollback>>
       \/ /\ ~ctxDone[s]
          /\ dirs' = [dirs EXCEPT ![s] = TRUE]
          /\ rollback' = [rollback EXCEPT ![s] = Append(@, "dir")]
          /\ \/ Goto(s, Leave(s))
             \/ Goto(s, IF netMode[s] = "none" THEN "net" ELSE "register")
    /\ UNCHANGED <<opt, retry, ctxDone, rolled, netMode, ctr, killed, net,
                   holds, conn, attach>>


\* Main registers the removal of the containers before it runs any of them.
Register(s) ==
    /\ At(s, "register")
    /\ rollback' = [rollback EXCEPT ![s] = Append(@, "remove")]
    /\ Goto(s, "peerCreate")
    /\ UNCHANGED <<opt, retry, ctxDone, rolled, netMode, engine, attach>>

\* ConfigList.Run for the containers other than the first: a failure of run()
\* is retried once without mounts, under the same name.
RunPeer(s) ==
    /\ RunAt(s, "peer", "peerCreate", "peerStart", "peerWait",
             IF retry[s] THEN "copy" ELSE "firstCreate",
             IF retry[s] THEN Leave(s) ELSE "peerCreate")
    /\ retry' = [retry EXCEPT ![s] = @ \/ pc'[s] = "peerCreate"]
    /\ UNCHANGED <<opt, ctxDone, rollback, rolled, netMode, killed, dirs, net,
                   holds, conn, attach>>

\* copyToContainer after a retry: only the local errors count, those of the
\* engine are ignored.
CopyVolumes(s) ==
    /\ At(s, "copy")
    /\ \/ ~ctxDone[s] /\ Goto(s, "folder")
       \/ Goto(s, "firstCreate") \/ Goto(s, Leave(s))
    /\ KeepSession /\ UNCHANGED <<engine, attach>>

\* createFolder asks the engine until the mkdir has ended; when the question
\* fails, because the context is cancelled, it goes on asking.
CreateFolder(s) ==
    /\ At(s, "folder") /\ ~ctxDone[s]
    /\ Goto(s, "firstCreate") \/ Goto(s, Leave(s))
    /\ KeepSession /\ UNCHANGED <<engine, attach>>

-----------------------------------------------------------------------------
(* runFirst.  It uses a context of its own: a signal does not reach it.    *)

\* createContainer: the name may be taken, and an error of the container id
\* file is reported after the container was created.
CreateContainer(s, ok) ==
    \/ ctr[s]["first"] = "none" /\ Set(s, "first", "created")
    \/ ~ok /\ UNCHANGED ctr

\* runFirst up to there; any check of the terminal and of the options may fail.
FirstCreate(s) ==
    /\ At(s, "firstCreate")
    /\ \/ /\ CreateContainer(s, TRUE)
          /\ Goto(s, IF opt[s].attach THEN "firstAttach" ELSE "firstStart")
       \/ CreateContainer(s, FALSE) /\ Goto(s, Leave(s))
    /\ status' = [status EXCEPT ![s] =
                      IF pc'[s] = "firstStart" THEN "wait" ELSE @]
    /\ KeepSession
    /\ UNCHANGED <<killed, dirs, net, holds, conn, raw, stream, out, inp,
                   errCh, runCtx>>

\* attachContainer starts the streaming goroutine, then waitExitOrRemoved
\* starts the one that waits for the exit of the container.
FirstAttach(s) ==
    /\ At(s, "firstAttach")
    /\ \/ /\ stream' = [stream EXCEPT ![s] = "setup"]
          /\ status' = [status EXCEPT ![s] = "wait"]
          /\ Goto(s, "firstStart")
       \/ UNCHANGED <<stream, status>> /\ Goto(s, Leave(s))
    /\ KeepSession /\ UNCHANGED <<engine, raw, out, inp, errCh, runCtx>>


\* ContainerStart.  When it fails the engine removes a container with --rm,
\* and an attached runFirst cancels its context.
FirstStart(s) ==
    /\ At(s, "firstStart")
    /\ \/ /\ Joinable(s, "first") /\ ctr[s]["first"] = "created"
          /\ Set(s, "first", "running") /\ UNCHANGED runCtx
          /\ Goto(s, IF opt[s].attach THEN "streaming" ELSE "terminal")
       \/ /\ IF opt[s].rm THEN Set(s, "first", "none") ELSE UNCHANGED ctr
          /\ runCtx' = [runCtx EXCEPT ![s] = ~opt[s].attach]
          /\ Goto(s, IF opt[s].attach THEN "startErr" ELSE "startErrRm")
    /\ KeepSession
    /\ UNCHANGED <<killed, dirs, net, holds, conn, raw, stream, out, inp,
                   errCh, status>>

\* The container could not be started: "we should notify hijackedIOStreamer we
\* are going to exit and wait to avoid the terminal are not restored", then
\* with --rm wait for the status.
StartFailed(s) ==
    /\ \/ At(s, "startErr") /\ errCh[s] # "none" /\ Goto(s, "startErrRm")
          /\ UNCHANGED status
       \/ /\ At(s, "startErrRm") /\ Goto(s, Leave(s))
          /\ IF opt[s].rm
             THEN /\ status[s] \in {"zero", "nonzero"}
                  /\ status' = [status EXCEPT ![s] = "over"]
             ELSE UNCHANGED status
    /\ KeepSession
    /\ UNCHANGED <<engine, raw, stream, out, inp, errCh, runCtx>>

\* runFirst receives the result of the stream, then the exit status.  When it
\* returns, its deferred calls end its context and close the connection.
Streamed(s) ==
    /\ At(s, "streaming") /\ errCh[s] # "none"
    /\ Goto(s, CASE errCh[s] = "nil" -> "waitStatus"
                 [] errCh[s] = "escape" -> "terminal"
                 [] OTHER -> Leave(s))
    /\ runCtx' = [runCtx EXCEPT ![s] = errCh[s] = "nil"]
    /\ KeepSession
    /\ UNCHANGED <<engine, raw, stream, out, inp, errCh, status>>

ExitStatus(s) ==
    /\ At(s, "waitStatus") /\ status[s] \in {"zero", "nonzero"}
    /\ Goto(s, IF status[s] = "zero" THEN "terminal" ELSE Leave(s))
    /\ status' = [status EXCEPT ![s] = "over"]
    /\ runCtx' = [runCtx EXCEPT ![s] = FALSE]
    /\ KeepSession /\ UNCHANGED <<engine, raw, stream, out, inp, errCh>>

\* waitExitOrRemoved: with --rm it waits for the removal, otherwise for the
\* exit; an error, a cancelled context included, gives the status 125.
AwaitExit(s) ==
    /\ status[s] = "wait"
    /\ \/ /\ ctr[s]["first"] = IF opt[s].rm THEN "none" ELSE "exited"
          /\ status' \in {[status EXCEPT ![s] = "zero"],
                          [status EXCEPT ![s] = "nonzero"]}
       \/ /\ ~runCtx[s] /\ status' = [status EXCEPT ![s] = "nonzero"]
    /\ UNCHANGED <<session, engine, raw, stream, out, inp, errCh, runCtx>>

-----------------------------------------------------------------------------
(* hijackedIOStreamer.                                                     *)

\* restoreTerminal, called through a sync.Once.
Restore(s) == raw' = [raw EXCEPT ![s] = FALSE]

\* setupInput puts the terminal in raw mode; the two goroutines start.
StreamSetup(s) ==
    /\ stream[s] = "setup"
    /\ \/ /\ raw' = [raw EXCEPT ![s] = TRUE]
          /\ stream' = [stream EXCEPT ![s] = "select"]
          /\ out' = [out EXCEPT ![s] = "copy"]
          /\ inp' = [inp EXCEPT ![s] = "copy"]
          /\ UNCHANGED errCh
       \/ /\ stream' = [stream EXCEPT ![s] = "over"]
          /\ errCh' = [errCh EXCEPT ![s] = "err"]
          /\ UNCHANGED <<raw, out, inp>>
    /\ UNCHANGED <<session, engine, status, runCtx>>

\* The output ends with the container or with the connection; the goroutine
\* restores the terminal before it offers its result.
OutputEnds(s) ==
    /\ out[s] = "copy"
    /\ ctr[s]["first"] \in {"exited", "none"} \/ ~runCtx[s]
    /\ Restore(s)
    /\ out' = [out EXCEPT ![s] = "send"]
    /\ UNCHANGED <<session, engine, stream, inp, errCh, status, runCtx>>

\* The input ends: end of file, an error, or the detach keys.
InputEnds(s) ==
    /\ inp[s] = "copy"
    /\ Restore(s)
    /\ inp' \in {[inp EXCEPT ![s] = "detach"], [inp EXCEPT ![s] = "closed"]}
    /\ UNCHANGED <<session, engine, stream, out, errCh, status, runCtx>>

\* stream() returns r: its deferred restore runs, attachContainer sends r.
StreamReturns(s, r) ==
    /\ Restore(s)
    /\ stream' = [stream EXCEPT ![s] = "over"]
    /\ errCh' = [errCh EXCEPT ![s] = r]

\* The select statements of stream().
StreamSelect(s) ==
    /\ \/ /\ stream[s] \in {"select", "outOnly"} /\ out[s] = "send"
          /\ out' = [out EXCEPT ![s] = "over"] /\ UNCHANGED inp
          /\ \E r \in {"nil", "err"} : StreamReturns(s, r)
       \/ /\ stream[s] = "select" /\ inp[s] = "closed"
          /\ stream' = [stream EXCEPT ![s] = "outOnly"]
          /\ UNCHANGED <<raw, out, inp, errCh>>
       \/ /\ stream[s] = "select" /\ inp[s] = "detach"
          /\ inp' = [inp EXCEPT ![s] = "over"] /\ UNCHANGED out
          /\ StreamReturns(s, "escape")
       \/ /\ stream[s] \in {"select", "outOnly"} /\ ~runCtx[s]
          /\ UNCHANGED <<out, inp>> /\ StreamReturns(s, "err")
    /\ UNCHANGED <<session, engine, status, runCtx>>

-----------------------------------------------------------------------------
(* The end of the command.                                                 *)

\* terminal(): a shell in the first container, until the user leaves it, or
\* an error when the container does not run.
Terminal(s) ==
    /\ At(s, "terminal") /\ Goto(s, Leave(s))
    /\ runCtx' = [runCtx EXCEPT ![s] = FALSE]
    /\ KeepSession
    /\ UNCHANGED <<engine, raw, stream, out, inp, errCh, status>>

\* DoDev's deferred cancel: Disconnect of connection 0, the daemon's only one,
\* with the context of the command.
CancelHost(s) ==
    /\ At(s, "cancel") /\ Goto(s, "roll")
    /\ conn' = (conn /\ ctxDone[s])
    /\ KeepSession /\ UNCHANGED <<ctr, killed, dirs, net, holds, attach>>

\* RunE calls the rollback functions in the order of their registration.
Current(s) == rollback[s][rolled[s] + 1]

RollNext(s, f) ==
    /\ At(s, "roll") /\ rolled[s] < Len(rollback[s]) /\ Current(s) = f
    /\ rolled' = [rolled EXCEPT ![s] = @ + 1]
    /\ UNCHANGED <<opt, retry, ctxDone, rollback, netMode>>

\* The interrupt handler of the connect container, at most once: SIGTERM, then
\* follow the log until the container has stopped.  It does not use the
\* command's context.
RollClose(s) ==
    /\ \/ /\ RollNext(s, "close")
          /\ killed' = [killed EXCEPT ![s] = TRUE] /\ Goto(s, "closing")
       \/ /\ At(s, "closing") /\ ctr[s]["conn"] # "running"
          /\ Goto(s, "roll") /\ UNCHANGED killed /\ KeepSession
    /\ UNCHANGED <<ctr, dirs, net, holds, conn, attach>>

\* os.RemoveAll of the directory, or of the SubPath below it.
RollDir(s) ==
    /\ RollNext(s, "dir") /\ UNCHANGED pc
    /\ dirs' = [dirs EXCEPT ![s] = opt[s].sub]
    /\ UNCHANGED <<ctr, killed, net, holds, conn, attach>>

\* ConfigList.Remove: nothing without --rm; with it every container of the
\* list is removed, then the network if no container is in it any more.  The
\* calls use the command's context.
RollRemove(s) ==
    /\ RollNext(s, "remove")
    /\ IF opt[s].rm /\ ~ctxDone[s]
       THEN /\ ctr' = [ctr EXCEPT ![s]["peer"] = "none", ![s]["first"] = "none"]
            /\ Goto(s, "removeNet")
       ELSE UNCHANGED <<ctr, pc>>
    /\ UNCHANGED <<killed, dirs, net, holds, conn, attach>>

\* The end of Remove: the inspection, and the removal of the network, which
\* the engine refuses while a container is in it.
RemoveNetwork(s) ==
    /\ At(s, "removeNet") /\ Goto(s, "roll")
    /\ IF net /\ Attached = {} /\ ~ctxDone[s]
       THEN net' = FALSE /\ holds' = [t \in Session |-> FALSE]
       ELSE UNCHANGED <<net, holds>>
    /\ KeepSession /\ UNCHANGED <<ctr, killed, dirs, conn, attach>>

\* RunE returns: the process ends and its goroutines with it.
Finish(s) ==
    /\ At(s, "roll") /\ rolled[s] = Len(rollback[s]) /\ Goto(s, "done")
    /\ stream' = [stream EXCEPT ![s] = "off"]
    /\ out' = [out EXCEPT ![s] = "off"]
    /\ inp' = [inp EXCEPT ![s] = "off"]
    /\ errCh' = [errCh EXCEPT ![s] = "none"]
    /\ status' = [status EXCEPT ![s] = "off"]
    /\ runCtx' = [runCtx EXCEPT ![s] = TRUE]
    /\ KeepSession /\ UNCHANGED <<engine, raw>>

-----------------------------------------------------------------------------
(* The user and the engine.                                                *)

\* The first signal cancels the command's context; the interrupt handler, once
\* it is registered, kills the connect container.
Interrupt(s) ==
    /\ pc[s] # "done" /\ ~ctxDone[s]
    /\ ctxDone' = [ctxDone EXCEPT ![s] = TRUE]
    /\ killed' = [killed EXCEPT ![s] =
                      @ \/ "close" \in ToSet(rollback[s])]
    /\ UNCHANGED <<opt, pc, retry, rollback, rolled, netMode, ctr, dirs, net,
                   holds, conn, attach>>

\* A container ends by itself; the engine removes the first one with --rm.
Exit(s, c) ==
    /\ ctr[s][c] = "running"
    /\ Set(s, c, IF c = "first" /\ opt[s].rm THEN "none" ELSE "exited")
    /\ UNCHANGED <<session, killed, dirs, net, holds, conn, attach>>

Command(s) ==
    \/ Begin(s) \/ ConnectHost(s) \/ ConnectNetwork(s) \/ RunConnect(s)
    \/ LogsCancelled(s) \/ Prepare(s) \/ GetVolume(s) \/ MainNetwork(s)
    \/ Register(s) \/ RunPeer(s) \/ CopyVolumes(s) \/ CreateFolder(s)
    \/ FirstCreate(s) \/ FirstAttach(s)
    \/ FirstStart(s) \/ StartFailed(s) \/ Streamed(s) \/ ExitStatus(s)
    \/ CancelHost(s) \/ RollClose(s) \/ RollDir(s)
    \/ RollRemove(s) \/ RemoveNetwork(s) \/ Finish(s)

Streamer(s) ==
    AwaitExit(s) \/ StreamSetup(s) \/ OutputEnds(s) \/ StreamSelect(s)

Step(s) ==
    \/ Command(s) \/ Streamer(s) \/ LogsAnswer(s) \/ Terminal(s)
    \/ InputEnds(s) \/ Interrupt(s)
    \/ \E c \in Container : Exit(s, c)

Next == \E s \in Session : Step(s)

Spec == Init /\ [][Next]_vars

\* The command and its goroutines keep running, the shell of terminal() ends
\* with its container, and the engine stops a container that was sent SIGTERM.
\* Nothing is assumed of the user or of the cluster.
Fairness ==
    \A s \in Session :
        /\ WF_vars(Command(s))
        /\ WF_vars(ctr[s]["first"] # "running" /\ Terminal(s))
        /\ WF_vars(AwaitExit(s)) /\ WF_vars(StreamSetup(s))
        /\ WF_vars(OutputEnds(s)) /\ WF_vars(StreamSelect(s))
        /\ WF_vars(killed[s] /\ Exit(s, "conn"))

FairSpec == Spec /\ Fairness

-----------------------------------------------------------------------------
(* Properties.                                                             *)


\* Once started, a command waits for nothing but the cluster (before "enjoy
\* it"), its running first container, and a mkdir whose end it can no longer
\* ask for because it was interrupted (createFolder): otherwise it ends, no goroutine of the stream and
\* no channel of runFirst keeps it (run.go:196-240, hijack.go:51-71).
Waiting(s) ==
    \/ At(s, "start")
    \/ At(s, "logs") /\ ~ctxDone[s]
    \/ At(s, "folder") /\ ctxDone[s]
    \/ ctr[s]["first"] = "running"

=============================================================================
