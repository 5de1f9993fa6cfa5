--------------------------- MODULE StartupProofs ---------------------------
(***************************************************************************)
(* Commands that come one after the other start one daemon at most and     *)
(* leave the files of the one that serves alone, for any number of         *)
(* commands and of daemons, crashed or quit at any time.                   *)
(***************************************************************************)
EXTENDS Startup, TLAPS

\* Why one daemon at most is there when a command runs the next: it found no daemon
\* starting; the one that serves would have answered; and what is still alive has
\* its pid in the file, so that it is killed.
Alone ==
    /\ \A c, e \in Command : pc[c] \in AtWork /\ pc[e] \in AtWork => c = e
    /\ \A d, e \in Daemon : state[d] \in Alive /\ state[e] \in Alive => d = e
    /\ \A d \in Daemon : state[d] \in {"listen", "serve", "closed", "served"} => pidFile = d
    /\ \A d \in Daemon : state[d] = "serve" => sock = d
    /\ \A c \in Command : pc[c] \in {"get", "remove", "kill"} =>
          \A d \in Daemon : state[d] \notin Starting
    /\ \A c \in Command : pc[c] \in {"remove", "kill"} => \A d \in Daemon : state[d] # "serve"
    /\ \A c \in Command : pc[c] \in {"unpid", "run"} => \A d \in Daemon : state[d] \notin Alive

IInv == StartupTypeOK /\ (~overlap => Alone)

LEMMA InitIInv == StartupInit => IInv
<1> SUFFICES ASSUME StartupInit PROVE IInv
  OBVIOUS
<1>1. StartupTypeOK
  BY DEF StartupInit, StartupTypeOK
<1>2. Alone
  BY DEF StartupInit, Alone, AtWork, Alive, Starting
<1> QED
  BY <1>1, <1>2 DEF IInv

LEMMA TypeInv == StartupTypeOK /\ [StartupNext]_startupVars => StartupTypeOK'
<1> SUFFICES ASSUME StartupTypeOK, [StartupNext]_startupVars PROVE StartupTypeOK'
  OBVIOUS
<1> USE DEF StartupTypeOK, AtWork, Alive, Starting
<1>1. ASSUME NEW c \in Command, Begin(c) PROVE StartupTypeOK'
  BY <1>1 DEF Begin, Goto
<1>2. ASSUME NEW c \in Command, StartupDaemon(c) PROVE StartupTypeOK'
  BY <1>2 DEF StartupDaemon, Goto, GetClient
<1>3. ASSUME NEW c \in Command, RemoveSock(c) PROVE StartupTypeOK'
  BY <1>3 DEF RemoveSock, Goto
<1>4. ASSUME NEW c \in Command, KillPid(c) PROVE StartupTypeOK'
  BY <1>4 DEF KillPid, Goto
<1>5. ASSUME NEW c \in Command, RemovePid(c) PROVE StartupTypeOK'
  BY <1>5 DEF RemovePid, Goto
<1>6. ASSUME NEW c \in Command, RunCmd(c) PROVE StartupTypeOK'
  BY <1>6 DEF RunCmd, Goto, Step
<1>7. ASSUME NEW c \in Command, RunError(c) PROVE StartupTypeOK'
  BY <1>7 DEF RunError, Goto
<1>8. ASSUME NEW c \in Command, SockExists(c) PROVE StartupTypeOK'
  BY <1>8 DEF SockExists, Goto
<1>9. ASSUME NEW c \in Command, ContextDone(c) PROVE StartupTypeOK'
  BY <1>9 DEF ContextDone, Goto
<1>10. ASSUME NEW c \in Command, CheckClient(c) PROVE StartupTypeOK'
  BY <1>10 DEF CheckClient, Goto, GetClient
<1>11. ASSUME NEW d \in Daemon, PreRunSock(d) PROVE StartupTypeOK'
  BY <1>11 DEF PreRunSock, Step
<1>12. ASSUME NEW d \in Daemon, PreRunPid(d) PROVE StartupTypeOK'
  BY <1>12 DEF PreRunPid, Step
<1>13. ASSUME NEW d \in Daemon, WritePid(d) PROVE StartupTypeOK'
  BY <1>13 DEF WritePid, Step
<1>14. ASSUME NEW d \in Daemon, Listen(d) PROVE StartupTypeOK'
  BY <1>14 DEF Listen, Step
<1>15. ASSUME NEW d \in Daemon, ListenError(d) PROVE StartupTypeOK'
  BY <1>15 DEF ListenError, Step
<1>16. ASSUME NEW d \in Daemon, Quit(d) PROVE StartupTypeOK'
  BY <1>16 DEF Quit, Step, Awaited
<1>17. ASSUME NEW d \in Daemon, Stop(d) PROVE StartupTypeOK'
  BY <1>17 DEF Stop, Step
<1>18. ASSUME NEW d \in Daemon, RunEnds(d) PROVE StartupTypeOK'
  BY <1>18 DEF RunEnds, Step
<1>19. ASSUME NEW d \in Daemon, Crash(d) PROVE StartupTypeOK'
  BY <1>19 DEF Crash, Step, Awaited
<1>20. CASE UNCHANGED startupVars
  BY <1>20 DEF startupVars
<1> QED
  BY <1>1, <1>2, <1>3, <1>4, <1>5, <1>6, <1>7, <1>8, <1>9, <1>10, <1>11, <1>12, <1>13, <1>14, <1>15, <1>16, <1>17, <1>18, <1>19, <1>20 DEF StartupNext, CommandStep, DaemonStep

LEMMA AloneInv == IInv /\ [StartupNext]_startupVars => (~overlap' => Alone')
<1> SUFFICES ASSUME IInv, [StartupNext]_startupVars, ~overlap' PROVE Alone'
  OBVIOUS
<1> USE NoDaemonAssumption DEF IInv, Alone, StartupTypeOK, AtWork, Alive, Starting
<1>1. ASSUME NEW c \in Command, Begin(c) PROVE Alone'
  BY <1>1 DEF Begin, Goto
<1>2. ASSUME NEW c \in Command, StartupDaemon(c) PROVE Alone'
  BY <1>2 DEF StartupDaemon, Goto, GetClient
<1>3. ASSUME NEW c \in Command, RemoveSock(c) PROVE Alone'
  BY <1>3 DEF RemoveSock, Goto
<1>4. ASSUME NEW c \in Command, KillPid(c) PROVE Alone'
  BY <1>4 DEF KillPid, Goto
<1>5. ASSUME NEW c \in Command, RemovePid(c) PROVE Alone'
  BY <1>5 DEF RemovePid, Goto
<1>6. ASSUME NEW c \in Command, RunCmd(c) PROVE Alone'
  BY <1>6 DEF RunCmd, Goto, Step
<1>7. ASSUME NEW c \in Command, RunError(c) PROVE Alone'
  BY <1>7 DEF RunError, Goto
<1>8. ASSUME NEW c \in Command, SockExists(c) PROVE Alone'
  BY <1>8 DEF SockExists, Goto
<1>9. ASSUME NEW c \in Command, ContextDone(c) PROVE Alone'
  BY <1>9 DEF ContextDone, Goto
<1>10. ASSUME NEW c \in Command, CheckClient(c) PROVE Alone'
  BY <1>10 DEF CheckClient, Goto, GetClient
<1>11. ASSUME NEW d \in Daemon, PreRunSock(d) PROVE Alone'
  BY <1>11 DEF PreRunSock, Step
<1>12. ASSUME NEW d \in Daemon, PreRunPid(d) PROVE Alone'
  BY <1>12 DEF PreRunPid, Step
<1>13. ASSUME NEW d \in Daemon, WritePid(d) PROVE Alone'
  BY <1>13 DEF WritePid, Step
<1>14. ASSUME NEW d \in Daemon, Listen(d) PROVE Alone'
  BY <1>14 DEF Listen, Step
<1>15. ASSUME NEW d \in Daemon, ListenError(d) PROVE Alone'
  BY <1>15 DEF ListenError, Step
<1>16. ASSUME NEW d \in Daemon, Quit(d) PROVE Alone'
  BY <1>16 DEF Quit, Step, Awaited
<1>17. ASSUME NEW d \in Daemon, Stop(d) PROVE Alone'
  BY <1>17 DEF Stop, Step
<1>18. ASSUME NEW d \in Daemon, RunEnds(d) PROVE Alone'
  BY <1>18 DEF RunEnds, Step
<1>19. ASSUME NEW d \in Daemon, Crash(d) PROVE Alone'
  BY <1>19 DEF Crash, Step, Awaited
<1>20. CASE UNCHANGED startupVars
  BY <1>20 DEF startupVars
<1> QED
  BY <1>1, <1>2, <1>3, <1>4, <1>5, <1>6, <1>7, <1>8, <1>9, <1>10, <1>11, <1>12, <1>13, <1>14, <1>15, <1>16, <1>17, <1>18, <1>19, <1>20 DEF StartupNext, CommandStep, DaemonStep

LEMMA NextIInv == IInv /\ [StartupNext]_startupVars => IInv'
BY TypeInv, AloneInv DEF IInv

\* There is never more than one daemon process, and the socket and the pid file are
\* those of the daemon that serves, as long as no command begins while another one
\* or a daemon is starting (pkg/daemon/client.go:83-161, cmds/daemon.go:21-39).
THEOREM OneDaemonAlways == StartupSpec => []OneDaemon
<1>1. IInv /\ [StartupNext]_startupVars => IInv'
  BY NextIInv
<1>2. IInv => OneDaemon
  BY DEF IInv, Alone, OneDaemon
<1> QED
  BY InitIInv, <1>1, <1>2, PTL DEF StartupSpec
============================================================================
