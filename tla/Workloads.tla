----------------------------- MODULE Workloads -----------------------------
(* Who Proxy and Clone are about.                                          *)

CONSTANTS
    Machine,    \* client machines, with their daemons
    Workload    \* workloads of the cluster
=============================================================================
