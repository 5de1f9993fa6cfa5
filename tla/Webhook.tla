------------------------------ MODULE Webhook ------------------------------
(***************************************************************************)
(* The tun addresses of pods with a vpn sidecar.  The admission webhook of *)
(* the traffic manager (pkg/webhook) rents one when a pod is created and   *)
(* writes it into the sidecar's environment, and releases it when the pod  *)
(* is deleted; a mesh sidecar that starts without one rents it over HTTP   *)
(* and every sidecar that ends in an orderly way gives its own back        *)
(* (pkg/handler/serve.go).  The webhook is registered with FailurePolicy   *)
(* Ignore: an answer that is lost lets the pod in as it was.               *)
(*                                                                         *)
(* An address stands for the pair of an IPv4 and an IPv6 address, which    *)
(* are rented and released together.  RentIPRandom and ReleaseIP are       *)
(* conditional updates of the ConfigMap: each happens as a whole or fails  *)
(* (module Dhcp).                                                          *)
(***************************************************************************)
EXTENDS Sidecars

VARIABLES
    leased,     \* the addresses marked in the ConfigMap
    phase,      \* [Pod -> none | asked | stored | deleted]
    env,        \* [Pod -> TunIPv4/TunIPv6 in the pod object or the request]
    call,       \* [Pod -> step of the handler that admits the pod's creation]
    rented,     \* [Pod -> v4, v6 of that handler]
    use,        \* [Pod -> the address the running sidecar has]
    lost,       \* history: leases that nobody will release
    careless    \* history: an address was released that may have an owner

webhookVars == <<leased, phase, env, call, rented, use, lost, careless>>

WebhookInit ==
    /\ leased = {}
    /\ phase = [p \in Pod |-> "none"]
    /\ env = [p \in Pod |-> None]
    /\ call = [p \in Pod |-> "idle"]
    /\ rented = [p \in Pod |-> None]
    /\ use = [p \in Pod |-> None]
    /\ lost = {}
    /\ careless = FALSE

-----------------------------------------------------------------------------
(* Creation *)

(* A pod is submitted: from a workload's template, where the value is "",  *)
(* or as a copy of a pod that was admitted before.                         *)
CreateRequest(p) ==
    /\ phase[p] = "none" /\ call[p] = "idle"
    /\ phase' = [phase EXCEPT ![p] = "asked"]
    /\ \E v \in {IF p = Manager THEN Router ELSE None}
                \cup (IF p = Manager THEN {} ELSE {env[q] : q \in Pod \ {Manager}}) :
          /\ env' = [env EXCEPT ![p] = v]
          /\ careless' = (careless \/ v \in Addr)
          /\ call' = [call EXCEPT ![p] =
                IF v = Router THEN "answer" ELSE IF v = None THEN "rent" ELSE "release"]
    /\ UNCHANGED <<leased, rented, use, lost>>

(* admitPods removes the old values; an error is ignored.                  *)
RemoveOldValues(p) ==
    /\ call[p] = "release"
    /\ call' = [call EXCEPT ![p] = "rent"]
    /\ leased' \in {leased, leased \ {env[p]}}
    /\ UNCHANGED <<phase, env, rented, use, lost, careless>>

\* Mutant: the address is chosen from the sidecars seen running, not the map.
RentIPUnused(p) ==
    /\ call[p] = "rent"
    /\ \E a \in Addr \ {use[q] : q \in Pod} :
          /\ leased' = leased \cup {a}
          /\ rented' = [rented EXCEPT ![p] = a]
    /\ call' = [call EXCEPT ![p] = "answer"]
    /\ UNCHANGED <<phase, env, use, lost, careless>>

(* ... and rents a new pair.                                               *)
RentIPRandom(p) ==
    /\ call[p] = "rent"
    /\ \E a \in Addr \ leased :
          /\ leased' = leased \cup {a}
          /\ rented' = [rented EXCEPT ![p] = a]
    /\ call' = [call EXCEPT ![p] = "answer"]
    /\ UNCHANGED <<phase, env, use, lost, careless>>

(* The range is used up or the update of the ConfigMap failed: the pod is  *)
(* refused.                                                                *)
RentIPFails(p) ==
    /\ call[p] = "rent"
    /\ call' = [call EXCEPT ![p] = "idle"]
    /\ phase' = [phase EXCEPT ![p] = "none"]
    /\ env' = [env EXCEPT ![p] = None]
    /\ UNCHANGED <<leased, rented, use, lost, careless>>

(* The answer with the patch arrives and the pod is stored.                *)
Patch(p) ==
    /\ call[p] = "answer" /\ phase[p] = "asked"
    /\ phase' = [phase EXCEPT ![p] = "stored"]
    /\ env' = [env EXCEPT ![p] = IF rented[p] = None THEN @ ELSE rented[p]]
    /\ call' = [call EXCEPT ![p] = "idle"]
    /\ rented' = [rented EXCEPT ![p] = None]
    /\ UNCHANGED <<leased, use, lost, careless>>

(* The API server does not use the answer: it came too late and the pod is *)
(* stored as it was submitted, or the request was a dry run or is refused  *)
(* by a later check and there is no pod.                                   *)
AnswerUnused(p) ==
    /\ call[p] = "answer" /\ phase[p] = "asked" /\ p # Manager
    /\ call' = [call EXCEPT ![p] = "idle"]
    /\ rented' = [rented EXCEPT ![p] = None]
    /\ lost' = lost \cup {rented[p]}
    /\ \/ phase' = [phase EXCEPT ![p] = "stored"] /\ UNCHANGED env
       \/ /\ phase' = [phase EXCEPT ![p] = "none"]
          /\ env' = [env EXCEPT ![p] = None]
    /\ UNCHANGED <<leased, use, careless>>

-----------------------------------------------------------------------------
(* The sidecar: kubevpn serve *)

(* RentIPIfNeeded with an address in the environment.                      *)
Serve(p) ==
    /\ phase[p] = "stored" /\ use[p] = None /\ env[p] # None
    /\ use' = [use EXCEPT ![p] = env[p]]
    /\ UNCHANGED <<leased, phase, env, call, rented, lost, careless>>

(* RentIPIfNeeded without one: rentIP of the manager is asked.  A sidecar  *)
(* that does not know its namespace fails and is started again.            *)
RentIPIfNeeded(p) ==
    /\ phase[p] = "stored" /\ use[p] = None /\ env[p] = None
    /\ p \in Mesh
    /\ \E a \in Addr \ leased :
          /\ leased' = leased \cup {a}
          /\ use' = [use EXCEPT ![p] = a]
    /\ UNCHANGED <<phase, env, call, rented, lost, careless>>

(* The answer of rentIP is lost: the sidecar fails and is started again.   *)
RentIPAnswerLost(p) ==
    /\ phase[p] = "stored" /\ use[p] = None /\ env[p] = None
    /\ p \in Mesh
    /\ \E a \in Addr \ leased :
          leased' = leased \cup {a} /\ lost' = lost \cup {a}
    /\ UNCHANGED <<phase, env, call, rented, use, careless>>

(* The server returns and ReleaseIPIfNeeded gives the address back (or     *)
(* fails).  The container is started again, with the environment of the    *)
(* pod object: an address that stands there is used on.                    *)
ReleaseIPIfNeeded(p) ==
    /\ use[p] \in Addr /\ p \in Mesh
    /\ use' = [use EXCEPT ![p] = None]
    /\ \/ /\ leased' = leased \ {use[p]}
          /\ careless' = (careless \/ env[p] # None)
          /\ UNCHANGED lost
       \/ /\ lost' = IF env[p] = None THEN lost \cup {use[p]} ELSE lost
          /\ UNCHANGED <<leased, careless>>
    /\ UNCHANGED <<phase, env, call, rented>>

-----------------------------------------------------------------------------
(* Deletion *)

\* Mutant: a deletion that was admitted does not release anything.
DeleteOnly(p) ==
    /\ phase[p] \in {"stored", "deleted"}
    /\ phase' = [phase EXCEPT ![p] = "deleted"]
    /\ UNCHANGED <<leased, careless, lost, env, call, rented, use>>

(* A deletion is submitted: admitPods releases what the stored object      *)
(* names, before the pod stops, and lets the deletion through even if that *)
(* failed.  A pod that is still terminating may be deleted again.          *)
DeleteRequest(p) ==
    /\ phase[p] \in {"stored", "deleted"}
    /\ phase' = [phase EXCEPT ![p] = "deleted"]
    /\ IF env[p] \in Addr
       THEN \/ /\ leased' = leased \ {env[p]}
               /\ careless' = (careless \/ phase[p] = "deleted")
               /\ UNCHANGED lost
            \/ /\ lost' = lost \cup {env[p]}
               /\ UNCHANGED <<leased, careless>>
       ELSE UNCHANGED <<leased, careless, lost>>
    /\ UNCHANGED <<env, call, rented, use>>

(* The kubelet kills what is left of the pod and the object goes.          *)
Gone(p) ==
    /\ phase[p] = "deleted"
    /\ phase' = [phase EXCEPT ![p] = "none"]
    /\ lost' = IF env[p] = None /\ use[p] # None THEN lost \cup {use[p]} ELSE lost
    /\ env' = [env EXCEPT ![p] = None]
    /\ use' = [use EXCEPT ![p] = None]
    /\ UNCHANGED <<leased, call, rented, careless>>

WebhookNext ==
    \E p \in Pod :
        \/ CreateRequest(p) \/ RemoveOldValues(p) \/ RentIPRandom(p)
        \/ RentIPFails(p) \/ Patch(p) \/ AnswerUnused(p)
        \/ Serve(p) \/ RentIPIfNeeded(p) \/ RentIPAnswerLost(p)
        \/ ReleaseIPIfNeeded(p) \/ DeleteRequest(p) \/ Gone(p)

WebhookSpec == WebhookInit /\ [][WebhookNext]_webhookVars

-----------------------------------------------------------------------------
(* Properties *)

WebhookTypeOK ==
    /\ leased \subseteq Addr
    /\ phase \in [Pod -> {"none", "asked", "stored", "deleted"}]
    /\ env \in [Pod -> Addr \cup {Router, None}]
    /\ call \in [Pod -> {"idle", "release", "rent", "answer"}]
    /\ rented \in [Pod -> Addr \cup {None}]
    /\ use \in [Pod -> Addr \cup {Router, None}]
    /\ lost \subseteq Addr
    /\ careless \in BOOLEAN

(* What a pod that is not being deleted has: the address its object names, *)
(* the one its sidecar rented, the one that is about to be patched in.     *)
Holds(p) ==
    IF phase[p] \notin {"asked", "stored"} THEN {}
    ELSE (({use[p], rented[p]} \cup IF phase[p] = "stored" THEN {env[p]} ELSE {})
             \ {None})

(* Two pods that are not being deleted never have the same address and     *)
(* what they have stays marked, whichever way the address came to them and *)
(* in spite of lost answers, failed updates and killed sidecars; unless a  *)
(* pod's manifest was copied, a deletion was repeated, or a sidecar that   *)
(* goes on with the address of its object had released it.                 *)
HoldersDistinct ==
    ~careless =>
        \A p \in Pod \ {Manager} :
            /\ Holds(p) \subseteq leased
            /\ \A q \in Pod \ {p} : Holds(p) \cap Holds(q) = {}

(* A mark that stays behind without an owner was left by one of: an answer *)
(* the API server did not use, an answer a sidecar did not get, a release  *)
(* that failed, a sidecar killed with an address of its own.  Every other  *)
(* pod that has gone has given its address back.                           *)
NoOtherLeak ==
    \A a \in leased \ lost :
        \E p \in Pod : a \in {use[p], rented[p], env[p]}
=============================================================================
