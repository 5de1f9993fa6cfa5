-------------------------------- MODULE Fork --------------------------------
(***************************************************************************)
(* Connections to further clusters (`connect --lite`): ConnectFork, and    *)
(* Disconnect by number or of all, in the two daemons of one machine.      *)
(* Each daemon keeps its ConnectOptions in the slice secondaryConnect,     *)
(* without a lock; the number of a connection is its place in the slice.   *)
(* The connection with number 0 is that of Daemon.                         *)
(***************************************************************************)
EXTENDS Integers, Sequences, SequencesExt

CONSTANTS
    Caller,     \* who may have a request at work
    Cluster,    \* clusters to connect to
    MaxConnect  \* bound on the number of connections made

Number == 1 .. MaxConnect
DaemonSide == {"sudo", "user"}

VARIABLES
    made,       \* the cluster of every connection made so far
    up,         \* connections whose tunnel is up in the sudo daemon
    list,       \* secondaryConnect of each daemon
    forks,      \* the requests
    answerLost, \* history: an answer of the sudo daemon did not arrive
    mixed       \* history: the kinds of the requests that overlapped another

forkVars == <<made, up, list, forks, answerLost, mixed>>

NoFork == [pc |-> "idle", id |-> 0, num |-> 0, side |-> "sudo", snap |-> << >>,
         fg |-> FALSE]
All == MaxConnect + 1   \* the number that stands for --all

ForkTypeOK ==
    /\ made \in Seq(Cluster) /\ Len(made) <= MaxConnect
    /\ up \subseteq 1 .. Len(made)
    /\ list \in [DaemonSide -> Seq(Number)]
    /\ forks \in [Caller -> [pc : {"idle", "sudo", "do", "append", "answer", "hang",
                                "begin", "clean", "drop", "end"},
                          id : 0 .. MaxConnect, num : 0 .. All, side : DaemonSide,
                          snap : Seq(Number), fg : BOOLEAN]]
    /\ answerLost \in BOOLEAN /\ mixed \subseteq {"connect", "number", "all"}
    \* No connection is in a list twice.
    /\ \A s \in DaemonSide : IsInjective(list[s])

ForkInit ==
    /\ made = << >> /\ up = {} /\ answerLost = FALSE /\ mixed = {}
    /\ list = [s \in DaemonSide |-> << >>] /\ forks = [t \in Caller |-> NoFork]

ForkGoto(t, label) == forks' = [forks EXCEPT ![t].pc = label]
ForkReturn(t) == forks' = [forks EXCEPT ![t] = NoFork]

Resting == {"idle", "hang"}
Disconnecting == {"begin", "clean", "drop", "end"}

\* The kind of a request that is at work.
Kind(q) == IF q.pc \notin Disconnecting THEN "connect"
           ELSE IF q.num = All THEN "all" ELSE "number"

\* Request t goes on as q, which the requests at work overlap from now on.
Start(t, q) ==
    /\ forks' = [forks EXCEPT ![t] = q]
    /\ LET others == {u \in Caller \ {t} : forks[u].pc \notin Resting} IN
       mixed' = IF others = {} \/ q.pc = "idle" THEN mixed
                ELSE mixed \cup {Kind(q)} \cup {Kind(forks[u]) : u \in others}

-----------------------------------------------------------------------------
(* ConnectFork.                                                            *)

\* The user daemon does nothing for a cluster it is connected to; otherwise it
\* rents an address and calls the sudo daemon.
ConnectFork(t) ==
    /\ forks[t].pc = "idle" /\ Len(made) < MaxConnect
    /\ \E c \in Cluster, fg \in BOOLEAN :
          /\ \A i \in DOMAIN list["user"] : made[list["user"][i]] # c
          /\ made' = Append(made, c)
          /\ Start(t, [NoFork EXCEPT !.pc = "sudo", !.id = Len(made) + 1, !.fg = fg])
    /\ UNCHANGED <<up, list, answerLost>>

\* The sudo daemon fails before DoConnect, and nothing is undone; or goes on.
SudoFork(t) ==
    /\ forks[t].pc = "sudo"
    /\ ForkGoto(t, "do") \/ ForkReturn(t)
    /\ UNCHANGED <<made, up, list, answerLost, mixed>>

\* Mutant: the tunnel of a failed DoConnect stays.
DoConnectNoCleanup(t) ==
    /\ forks[t].pc = "do" /\ up' = up \cup {forks[t].id}
    /\ ForkGoto(t, "append") \/ ForkReturn(t)
    /\ UNCHANGED <<made, list, answerLost, mixed>>

\* The tunnel is up, or Cleanup has taken down what there was of it.
DoConnect(t) ==
    /\ forks[t].pc = "do"
    /\ \/ up' = up \cup {forks[t].id} /\ ForkGoto(t, "append")
       \/ ForkReturn(t) /\ UNCHANGED up
    /\ UNCHANGED <<made, list, answerLost, mixed>>

AppendSudo(t) ==
    /\ forks[t].pc = "append"
    /\ list' = [list EXCEPT !["sudo"] = Append(@, forks[t].id)]
    /\ ForkGoto(t, "answer")
    /\ UNCHANGED <<made, up, answerLost, mixed>>

\* The user daemon appends too, unless the stream to its caller is broken.  A
\* command in the foreground waits for its end.
ForkAnswer(t) ==
    /\ forks[t].pc = "answer"
    /\ \/ /\ list' = [list EXCEPT !["user"] = Append(@, forks[t].id)]
          /\ IF forks[t].fg THEN ForkGoto(t, "hang") ELSE ForkReturn(t)
          /\ UNCHANGED answerLost
       \/ ForkReturn(t) /\ answerLost' = TRUE /\ UNCHANGED list
    /\ UNCHANGED <<made, up, mixed>>

\* No other Disconnect is at work: two at the same time are left out.
OneDisconnect(t) == \A u \in Caller \ {t} : forks[u].pc \notin Disconnecting

\* The end of a command in the foreground: the user daemon disconnects the
\* number i of the connection with the index i, if it still has it.
HangUp(t) ==
    /\ forks[t].pc = "hang" /\ OneDisconnect(t)
    /\ LET i == SelectInSeq(list["user"], LAMBDA k : k = forks[t].id) IN
       Start(t, IF i = 0 THEN NoFork ELSE [NoFork EXCEPT !.pc = "begin", !.num = i - 1])
    /\ UNCHANGED <<made, up, list, answerLost>>

-----------------------------------------------------------------------------
(* Disconnect, first in the sudo daemon and then in the user daemon.       *)

DisconnectFork(t) ==
    /\ forks[t].pc = "idle" /\ OneDisconnect(t)
    /\ \E n \in {0, All} \cup {i \in Number : i <= Len(list["user"]) + 1} :
           Start(t, [NoFork EXCEPT !.pc = "begin", !.num = n])
    /\ UNCHANGED <<made, up, list, answerLost>>

\* What is to be cleaned up: the range expression of --all is evaluated once, and
\* a number without a connection, as number 0 here, is the end.
TakeList(t) ==
    /\ forks[t].pc = "begin"
    /\ LET s == forks[t].side  n == forks[t].num IN
       forks' = IF n = All THEN [forks EXCEPT ![t].pc = "clean", ![t].snap = list[s]]
             ELSE IF n \in DOMAIN list[s]
                  THEN [forks EXCEPT ![t].pc = "clean", ![t].snap = <<list[s][n]>>]
             ELSE [forks EXCEPT ![t].pc = "end"]
    /\ UNCHANGED <<made, up, list, answerLost, mixed>>

\* Cleanup of one connection after the other.
Clean(t) ==
    /\ forks[t].pc = "clean"
    /\ IF forks[t].snap = << >> THEN ForkGoto(t, "drop") /\ UNCHANGED up
       ELSE /\ forks' = [forks EXCEPT ![t].snap = Tail(@)]
            /\ up' = IF forks[t].side = "sudo" THEN up \ {Head(forks[t].snap)} ELSE up
    /\ UNCHANGED <<made, list, answerLost, mixed>>

\* The slice is emptied, or cut at the index.
Drop(t) ==
    /\ forks[t].pc = "drop"
    /\ LET s == forks[t].side  n == forks[t].num IN
       list' = [list EXCEPT ![s] = IF n = All THEN << >>
                                   ELSE RemoveAt(@, n)]
    /\ ForkGoto(t, "end")
    /\ UNCHANGED <<made, up, answerLost, mixed>>

\* The user daemon goes on with its side when the sudo daemon has answered,
\* unless the stream to its caller is broken.
End(t) ==
    /\ forks[t].pc = "end"
    /\ IF forks[t].side = "sudo"
       THEN \/ forks' = [forks EXCEPT ![t].side = "user", ![t].pc = "begin"] /\ UNCHANGED answerLost
            \/ ForkReturn(t) /\ answerLost' = TRUE
       ELSE ForkReturn(t) /\ UNCHANGED answerLost
    /\ UNCHANGED <<made, up, list, mixed>>

-----------------------------------------------------------------------------

ForkStep(t) == SudoFork(t) \/ DoConnect(t) \/ AppendSudo(t) \/ ForkAnswer(t)
             \/ TakeList(t) \/ Clean(t) \/ Drop(t) \/ End(t)

ForkNext == \E t \in Caller : ConnectFork(t) \/ HangUp(t) \/ DisconnectFork(t) \/ ForkStep(t)

ForkSpec == ForkInit /\ [][ForkNext]_forkVars

-----------------------------------------------------------------------------
(* Properties.                                                             *)

\* When no request is at work, the tunnels that are up are those in the list of
\* the sudo daemon, so that Disconnect and Quit can end them, whatever failed,
\* whoever hung up and whichever requests overlapped, save a `--all` another one
\* (connect-fork.go:86-93, disconnect.go:47-80).  As long as none overlapped and no
\* answer was lost, a number means the same connection in both daemons: Status of
\* the one shows what Disconnect of the other will end (status.go:23-25,
\* connect-fork.go:93, 177, disconnect.go:72-80).
TunnelsHeld ==
    (\A t \in Caller : forks[t].pc \in Resting) =>
        /\ "all" \notin mixed => up = ToSet(list["sudo"])
        /\ mixed = {} /\ ~answerLost => list["user"] = list["sudo"]
=============================================================================
