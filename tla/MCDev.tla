------------------------------- MODULE MCDev -------------------------------
(* Dev with two commands on one machine.  A command with an attached       *)
(* terminal does not overlap another one: its goroutines share nothing     *)
(* with the other command, and their interleavings would only multiply.    *)
EXTENDS Dev

CONSTANTS s1, s2

Flag(m, r, a, n, u) == [mode |-> m, rm |-> r, attach |-> a, net |-> n, sub |-> u]

Container1 == Flag("container", TRUE, FALSE, FALSE, FALSE)
Attached1 == Flag("host", TRUE, TRUE, FALSE, TRUE)
Host1 == Flag("host", TRUE, FALSE, FALSE, FALSE)
UserNet1 == Flag("host", FALSE, TRUE, TRUE, FALSE)

MCFlags == {Container1, Attached1, Host1, UserNet1}

Alone(s) ==
    \A t \in Session \ {s} :
        opt[s].attach \/ opt[t].attach => pc[t] \in {"start", "done"}

MCInit == Init /\ opt[s1] = Container1 /\ opt[s2] # Container1
MCNext == \E s \in Session : Alone(s) /\ Step(s)

\* The fairness of Dev, for the steps MCNext allows.
MCFairness ==
    \A s \in Session :
        /\ WF_vars(Alone(s) /\ Command(s))
        /\ WF_vars(ctr[s]["first"] # "running" /\ Terminal(s))
        /\ WF_vars(AwaitExit(s)) /\ WF_vars(StreamSetup(s))
        /\ WF_vars(OutputEnds(s)) /\ WF_vars(StreamSelect(s))
        /\ WF_vars(Alone(s) /\ killed[s] /\ Exit(s, "conn"))

MCSpec == MCInit /\ [][MCNext]_vars /\ MCFairness
=============================================================================
