------------------------------ MODULE Sidecars ------------------------------
(* The parameters of module Webhook.                                       *)

CONSTANTS
    Pod,            \* pods with a vpn sidecar
    Manager,        \* the traffic manager's pod, whose address is Router
    Mesh,           \* the pods whose sidecar knows its namespace (pkg/mesh)
    Addr,           \* the addresses of the range
    Router,         \* config.RouterIP
    None            \* no address: the variable is ""

ASSUME AddrAssumption == Router \notin Addr /\ None \notin Addr /\ Router # None
=============================================================================
