------------------------------ MODULE MCProxy ------------------------------
(* Model checking of Proxy.                                                *)
EXTENDS Proxy, TLC

Symmetry == Permutations(Machine) \cup Permutations(Workload)
=============================================================================
