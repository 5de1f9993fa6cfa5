------------------------------ MODULE Startup ------------------------------
(***************************************************************************)
(* How a command finds or starts a daemon (pkg/daemon/client.go), and how  *)
(* the daemon process begins and ends (cmd/kubevpn/cmds/daemon.go,         *)
(* pkg/daemon/daemon.go).  Everything is done through two files of the     *)
(* user's directory, the socket and the pid file, without a lock.          *)
(*                                                                         *)
(* One kind of daemon is modelled: StartupDaemon goes through the same     *)
(* steps for the user's daemon and then for the sudo daemon, each with     *)
(* files of its own.  The command may signal the daemon: it is the user's, *)
(* or the command runs as root.  (Of a sudo daemon that another user's     *)
(* command cannot kill, only the pid file is removed.)                     *)
(***************************************************************************)
EXTENDS Naturals, FiniteSets

CONSTANTS
    Command,  \* processes that call StartupDaemon
    Daemon,   \* daemon processes, each is started at most once
    NoDaemon  \* no file

ASSUME NoDaemonAssumption == NoDaemon \notin Daemon

VARIABLES
    sock,     \* NoDaemon or the daemon that bound the socket file
    pidFile,  \* NoDaemon or the daemon whose pid the file holds
    pc,       \* [Command -> its step]
    state,    \* [Daemon -> its step]
    overlap,  \* history: a command began while something was starting
    early     \* history: a daemon ended while a command waited for it

startupVars == <<sock, pidFile, pc, state, overlap, early>>

Starting == {"rmSock", "rmPid", "writePid", "listen", "listenErr"}
Alive    == Starting \cup {"serve", "closed", "served"}
AtWork   == {"get", "remove", "kill", "unpid", "run", "wait", "client"}

StartupInit ==
    /\ sock = NoDaemon /\ pidFile = NoDaemon
    /\ pc = [c \in Command |-> "idle"]
    /\ state = [d \in Daemon |-> "new"]
    /\ overlap = FALSE /\ early = FALSE

Goto(c, l) == pc' = [pc EXCEPT ![c] = l]
Step(d, l) == state' = [state EXCEPT ![d] = l]

-----------------------------------------------------------------------------
(* The command *)

Begin(c) ==
    /\ pc[c] \in {"idle", "ok", "failed"}
    /\ Goto(c, "get")
    /\ overlap' = (overlap \/ (\E o \in Command : pc[o] \in AtWork)
                           \/ (\E d \in Daemon : state[d] \in Starting))
    /\ UNCHANGED <<sock, pidFile, state, early>>

(* The socket file exists and who bound it answers.                        *)
GetClient == sock # NoDaemon /\ state[sock] = "serve"

StartupDaemon(c) ==
    /\ pc[c] = "get"
    /\ Goto(c, IF GetClient THEN "ok" ELSE "remove")
    /\ UNCHANGED <<sock, pidFile, state, overlap, early>>

RemoveSock(c) ==
    /\ pc[c] = "remove"
    /\ sock' = NoDaemon
    /\ Goto(c, "kill")
    /\ UNCHANGED <<pidFile, state, overlap, early>>

\* Mutant: the process that the pid file names is not killed.
ForgetPid(c) ==
    /\ pc[c] = "kill"
    /\ Goto(c, IF pidFile = NoDaemon THEN "run" ELSE "unpid")
    /\ UNCHANGED <<sock, pidFile, state, overlap, early>>

(* The process in the pid file is killed, whatever it is doing.            *)
KillPid(c) ==
    /\ pc[c] = "kill"
    /\ IF pidFile = NoDaemon
       THEN Goto(c, "run") /\ UNCHANGED state
       ELSE /\ Goto(c, "unpid")
            /\ state' = [state EXCEPT ![pidFile] = IF @ \in Alive THEN "dead" ELSE @]
    /\ UNCHANGED <<sock, pidFile, overlap, early>>

(* The pid file is removed; it is an error if it is gone by now.           *)
RemovePid(c) ==
    /\ pc[c] = "unpid"
    /\ pidFile' = NoDaemon
    /\ Goto(c, IF pidFile = NoDaemon THEN "failed" ELSE "run")
    /\ UNCHANGED <<sock, state, overlap, early>>

RunCmd(c) ==
    /\ pc[c] = "run"
    /\ \E d \in Daemon : state[d] = "new" /\ Step(d, "rmSock")
    /\ Goto(c, "wait")
    /\ UNCHANGED <<sock, pidFile, overlap, early>>

(* The executable cannot be started, or not with elevated rights.          *)
RunError(c) ==
    /\ pc[c] = "run"
    /\ Goto(c, "failed")
    /\ UNCHANGED <<sock, pidFile, state, overlap, early>>

(* The command waits for the file to appear ...                            *)
SockExists(c) ==
    /\ pc[c] = "wait"
    /\ sock # NoDaemon
    /\ Goto(c, "client")
    /\ UNCHANGED <<sock, pidFile, state, overlap, early>>

(* ... or for its context to end.                                          *)
ContextDone(c) ==
    /\ pc[c] = "wait"
    /\ Goto(c, "client")
    /\ UNCHANGED <<sock, pidFile, state, overlap, early>>

CheckClient(c) ==
    /\ pc[c] = "client"
    /\ Goto(c, IF GetClient THEN "ok" ELSE "failed")
    /\ UNCHANGED <<sock, pidFile, state, overlap, early>>

-----------------------------------------------------------------------------
(* The daemon: PreRunE removes both files and writes its pid *)

PreRunSock(d) ==
    /\ state[d] = "rmSock"
    /\ sock' = NoDaemon
    /\ Step(d, "rmPid")
    /\ UNCHANGED <<pidFile, pc, overlap, early>>

PreRunPid(d) ==
    /\ state[d] = "rmPid"
    /\ pidFile' = NoDaemon
    /\ Step(d, "writePid")
    /\ UNCHANGED <<sock, pc, overlap, early>>

WritePid(d) ==
    /\ state[d] = "writePid"
    /\ pidFile' = d
    /\ Step(d, "listen")
    /\ UNCHANGED <<sock, pc, overlap, early>>

(* Start: a file that exists cannot be bound, and Start returns.           *)
Listen(d) ==
    /\ state[d] = "listen"
    /\ IF sock = NoDaemon
       THEN sock' = d /\ Step(d, "serve")
       ELSE Step(d, "listenErr") /\ UNCHANGED sock
    /\ UNCHANGED <<pidFile, pc, overlap, early>>

(* The deferred Stop removes the file, also the one of another daemon.     *)
ListenError(d) ==
    /\ state[d] = "listenErr"
    /\ sock' = NoDaemon
    /\ Step(d, "dead")
    /\ UNCHANGED <<pidFile, pc, overlap, early>>

Awaited == \E c \in Command : pc[c] = "wait"

(* Quit closes the HTTP server, which unlinks the file; an error of Start  *)
(* after Listen goes through the same steps.                               *)
Quit(d) ==
    /\ state[d] = "serve"
    /\ sock' = NoDaemon
    /\ Step(d, "closed")
    /\ early' = (early \/ Awaited)
    /\ UNCHANGED <<pidFile, pc, overlap>>

(* Quit's own Stop ...                                                     *)
Stop(d) ==
    /\ state[d] = "closed"
    /\ sock' = NoDaemon
    /\ Step(d, "served")
    /\ UNCHANGED <<pidFile, pc, overlap, early>>

(* ... and the one that RunE deferred.  Serve has returned ErrServerClosed *)
(* and PostRun is not reached: the pid file stays.                         *)
RunEnds(d) ==
    /\ state[d] = "served"
    /\ sock' = NoDaemon
    /\ Step(d, "dead")
    /\ UNCHANGED <<pidFile, pc, overlap, early>>

(* The daemon panics or is killed; its files stay.                         *)
Crash(d) ==
    /\ state[d] \in Alive
    /\ Step(d, "dead")
    /\ early' = (early \/ Awaited)
    /\ UNCHANGED <<sock, pidFile, pc, overlap>>

CommandStep(c) ==
    \/ StartupDaemon(c) \/ RemoveSock(c) \/ KillPid(c) \/ RemovePid(c)
    \/ RunCmd(c) \/ SockExists(c) \/ CheckClient(c)

DaemonStep(d) ==
    \/ PreRunSock(d) \/ PreRunPid(d) \/ WritePid(d) \/ Listen(d)
    \/ ListenError(d) \/ Stop(d) \/ RunEnds(d)

StartupNext ==
    \/ \E c \in Command : Begin(c) \/ CommandStep(c) \/ RunError(c) \/ ContextDone(c)
    \/ \E d \in Daemon : DaemonStep(d) \/ Quit(d) \/ Crash(d)

(* Processes run.  Nothing has to fail; nobody has to end a context, quit  *)
(* or crash.                                                               *)
StartupFairness ==
    /\ \A c \in Command : WF_startupVars(CommandStep(c))
    /\ \A d \in Daemon : WF_startupVars(DaemonStep(d))

StartupSpec == StartupInit /\ [][StartupNext]_startupVars /\ StartupFairness

-----------------------------------------------------------------------------
(* Properties *)

StartupTypeOK ==
    /\ sock \in Daemon \cup {NoDaemon}
    /\ pidFile \in Daemon \cup {NoDaemon}
    /\ pc \in [Command -> AtWork \cup {"idle", "ok", "failed"}]
    /\ state \in [Daemon -> Alive \cup {"new", "dead"}]
    /\ overlap \in BOOLEAN /\ early \in BOOLEAN

(* As long as no command begins while another one, or a daemon, is still   *)
(* starting, there is one daemon process at most: what was there before is *)
(* answered by the client or killed through the pid file, also after a     *)
(* crash and in the middle of a quit.  A daemon that serves is the one the *)
(* two files lead to: a later command reaches it, or can kill it, because  *)
(* no other process removes the files from under it                        *)
(* (pkg/daemon/client.go:83-161, cmds/daemon.go:21-39).                    *)
OneDaemon ==
    ~overlap =>
        /\ \A d, e \in Daemon : state[d] \in Alive /\ state[e] \in Alive => d = e
        /\ \A d \in Daemon : state[d] = "serve" => sock = d /\ pidFile = d

(* Under the same condition, and when the daemon does not end on the way,  *)
(* a command does not wait for the socket file for ever (or until all the  *)
(* daemon processes of the model are used up).                             *)
StartEnds ==
    \A c \in Command :
        []<>(\/ pc[c] \notin AtWork
             \/ overlap \/ early
             \/ pc[c] = "run" /\ "new" \notin {state[d] : d \in Daemon})
=============================================================================
