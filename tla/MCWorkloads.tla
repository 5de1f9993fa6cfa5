----------------------------- MODULE MCWorkloads ----------------------------
(***************************************************************************)
(* What machines do to the workloads of the cluster, side by side: they    *)
(* proxy them (Proxy) and they clone them (Clone).  A behaviour belongs to *)
(* one part: "all" has every command of Proxy on one workload, "mesh" mesh *)
(* and leave on two, where what exchange mode does to the annotation with  *)
(* the probes does not get in the way, and "clone" the clones.             *)
(***************************************************************************)
EXTENDS Proxy, Clone, TLC

CONSTANTS w1, w2

VARIABLE part

mcvars == <<part, vars, cloneVars>>

-----------------------------------------------------------------------------
x(kind) == [kind |-> kind, name |-> "x"]
y(kind) == [kind |-> kind, name |-> "y"]

\* One workload has every kind of volume and of reference, the other one an
\* init container that fills an emptyDir.
MCShape == [w \in Workload |->
    IF w = w1
    THEN [mounts |-> {"data", "scratch"}, init |-> {"data"},
          env |-> <<x("configmap"), x("secret"), y("secret")>>, from |-> <<y("configmap")>>]
    ELSE [mounts |-> {"scratch"}, init |-> {"data", "scratch"},
          env |-> <<x("secret")>>, from |-> <<x("secret"), x("configmap")>>]]

MCFlags == {[target |-> "none", registry |-> "origin", container |-> TRUE],
            [target |-> "cluster", registry |-> "target", container |-> TRUE],
            [target |-> "namespace", registry |-> "origin", container |-> FALSE]}

MCLists == {<<w1>>, <<w2>>, <<w1, w2>>}

Symmetry == Permutations(Machine) \cup Permutations(Id)

-----------------------------------------------------------------------------
MCInit == Init /\ CloneInit /\ part \in {"all", "mesh", "clone"}

PStep(p, A) == part = p /\ A /\ UNCHANGED <<part, cloneVars>>
CStep(A) == part = "clone" /\ A /\ UNCHANGED <<part, vars>>

All == \E m \in Machine :
    \/ Connect(m) \/ EnvoyGet(m) \/ AddPut(m) \/ Inject(m) \/ InjectVPN(m)
    \/ RemovePut(m) \/ Restore(m) \/ Release(m) \/ List(m) \/ Disconnected(m)
    \/ CallError(m) \/ Mesh(m, w1) \/ Exchange(m, w1) \/ Leave(m, w1)

MeshAndLeave == \E m \in Machine :
    \/ Connect(m) \/ EnvoyGet(m) \/ AddPut(m) \/ Inject(m) \/ RemovePut(m) \/ Restore(m)
    \/ CallError(m) \/ \E w \in Workload : Mesh(m, w) \/ Leave(m, w)

MCNext == PStep("all", All) \/ PStep("mesh", MeshAndLeave) \/ CStep(CloneNext)

MCSpec == MCInit /\ [][MCNext]_mcvars

-----------------------------------------------------------------------------
\* Proxy: with mesh and leave, a machine keeps its rule until it leaves, and a
\* workload without sidecars has its probes (envoy.go: addEnvoyConfig,
\* removeEnvoyConfig, UnPatchContainer).
MeshServedUntilLeft == part = "mesh" => ServedUntilLeft /\ OriginRestored
=============================================================================
