------------------------------ MODULE MCLinks -------------------------------
(***************************************************************************)
(* The links of a client machine, checked side by side: the ssh tunnels,   *)
(* the port forwards, and the connection to a command in a pod over which  *)
(* files are copied.  They share no state; a behaviour belongs to one of   *)
(* them.                                                                   *)
(***************************************************************************)
EXTENDS Tunnel, Forward, Copy, FiniteSets

VARIABLE part

mcvars == <<part, vars, forwardVars, copyvars>>

\* The archive holds a file, a link to it, an empty file and another file.
MCEntry == <<[size |-> 2, link |-> 0], [size |-> 0, link |-> 1],
             [size |-> 0, link |-> 0], [size |-> 1, link |-> 0]>>

TunnelStep(A) == part = "tunnel" /\ A /\ UNCHANGED <<part, forwardVars, copyvars>>
ForwardStep(A) == part = "forward" /\ A /\ UNCHANGED <<part, vars, copyvars>>
CopyStep(A) == part = "copy" /\ A /\ UNCHANGED <<part, vars, forwardVars>>

MCInit == Init /\ ForwardInit /\ CopyInit /\ part \in {"tunnel", "forward", "copy"}

\* The bounds: outages, clients and errors of Main are explored with a tunnel of
\* ConfigAdd, the sessions (which meet in SshStart only) without them; two links
\* meet in the error handler, when at most one of them is not established.
Bound ==
    \/ \A t \in Ssh : pc[t] = "idle"
    \/ /\ reach /\ \A t \in Jump : pc[t] = "idle"
       /\ \A t \in Ssh : (errChan[t] => ~ctx[t]) /\ \A c \in Client : conn[t][c] = "free"

FBound ==
    Cardinality({l \in Link : caller[l] # "off" /\ ~(caller[l] = "ok" /\ live[l])}) <= 1

MCNext == TunnelStep(Next /\ Bound') \/ ForwardStep(ForwardNext /\ FBound')
          \/ CopyStep(CopyNext)

\* The goroutines of the code are scheduled, the timer of portForward fires, a
\* silent connection is found dead, and the local port is not taken for ever.
\* What the user, the cluster and the network do is not fair.
MCFairness ==
    /\ \A t \in Tunnel :
           /\ WF_mcvars(TunnelStep(RunMain(t)))
           /\ SF_mcvars(TunnelStep(Listen(t)))
           /\ WF_mcvars(TunnelStep(Handle(t)))
           /\ \A c \in Client : WF_mcvars(TunnelStep(Serve(t, c)))
    /\ \A l \in Link :
           /\ WF_mcvars(ForwardStep(Loop(l)))
           /\ SF_mcvars(ForwardStep(Dial(l) /\ looping'[l] = "up"))
           /\ WF_mcvars(ForwardStep(Answer(l)))
           /\ WF_mcvars(ForwardStep(KeepAlive(l)))
    /\ WF_mcvars(CopyStep(Unpack)) /\ WF_mcvars(CopyStep(CommandDone))

MCSpec == MCInit /\ [][MCNext]_mcvars /\ MCFairness
=============================================================================
