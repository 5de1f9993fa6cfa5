----------------------------- MODULE MCSessions -----------------------------
(***************************************************************************)
(* The connections that daemons keep, side by side: the primary one of two *)
(* machines that share a cluster (Daemon) and those of one machine to      *)
(* further clusters (Fork).  A behaviour belongs to one of them.           *)
(***************************************************************************)
EXTENDS Daemon, Fork, TLC

VARIABLE part

mcvars == <<part, vars, forkVars>>

MachineSymmetry == Permutations(Machine)

MCInit == Init /\ ForkInit /\ part \in {"daemon", "fork"}

DStep(A) == part = "daemon" /\ A /\ UNCHANGED <<part, forkVars>>
FStep(A) == part = "fork" /\ A /\ UNCHANGED <<part, vars>>

MCNext == DStep(Next) \/ FStep(ForkNext)

MCSpec == MCInit /\ [][MCNext]_mcvars
=============================================================================
