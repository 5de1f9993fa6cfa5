------------------------------ MODULE MCHosts -------------------------------
(* Hosts with model values for the instances that TLC checks.              *)
EXTENDS Hosts

CONSTANTS Short, Long, Lite

\* The user has a line for a name that is also that of a service.
MCUserLines == <<Localhost, [own |-> FALSE, dom |-> Short, ip |-> "192.168.0.2"]>>

\* Names that are not contained in each other.
Apart(d, e) == d = e

\* The name Short is a part of the name Long.
Contained(d, e) == d = e \/ (d = Short /\ e = Long)

\* The namespace of the lite connection has no services; its updates read and
\* write the file all the same.
MCNamesOf(c) == IF c = Lite THEN {} ELSE Domain

\* All properties speak of behaviours without a clash.
MCNext == ~clash /\ Next

Fairness ==
    \A c \in Conn :
        /\ WF_vars(MCNext /\ Handler(c)) /\ WF_vars(MCNext /\ Watcher(c))
        /\ SF_vars(MCNext /\ Event(c))

MCSpec == Init /\ [][MCNext]_vars /\ Fairness
=============================================================================
