------------------------------ MODULE MCDaemon ------------------------------
(* Model checking of Daemon.                                               *)
EXTENDS Daemon

\* Commands are not interrupted and the manager stays ready.
QuietNext == \E r \in Thread : Connect(r) \/ Disconnect(r) \/ Handle(r)

QuietSpec == Init /\ [][QuietNext]_vars /\ Fairness
=============================================================================
