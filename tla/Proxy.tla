------------------------------- MODULE Proxy -------------------------------
(***************************************************************************)
(* Workloads whose inbound traffic is proxied to connected machines        *)
(* (pkg/handler/envoy.go, remote.go, reset.go).  A machine that proxies a  *)
(* workload in mesh mode adds a rule with its own address to ENVOY_CONFIG  *)
(* and makes sure that the workload's pods have the sidecars; without      *)
(* headers (exchange mode) it only adds the vpn container.  Leaving        *)
(* removes the rule; whoever removes the last one removes the sidecars.    *)
(*                                                                         *)
(* A step is one call to the API server.  ENVOY_CONFIG is written by       *)
(* Update, which is refused if the ConfigMap has changed since the Get;    *)
(* the workload by a Patch of the whole pod template, which is not.        *)
(***************************************************************************)
EXTENDS ConfigMap, Workloads, FiniteSets

CONSTANT
    Commands    \* the commands that users give

ASSUME CommandsAssumption == Commands \subseteq {"mesh", "exchange", "leave", "disconnect"}

VARIABLES
    marked,     \* DHCP: the addresses marked in the ConfigMap
    addr,       \* the address of every machine, NoIP if it is not connected
    rules,      \* ENVOY_CONFIG: the addresses in the rules of every workload
    fresh,      \* machines whose copy of the ConfigMap is current
    template,   \* the pod template of every workload
    job,        \* the command that a machine works on
    served      \* history: the workloads that a machine has proxied and not left

vars == <<marked, addr, rules, fresh, template, job, served>>

Sidecars == {"vpn", "envoy"}

\* The annotation with the probes to restore: the number of containers it was
\* made for and whether they had probes.  Exchange mode stores it as bytes,
\* which json encodes in base64 and nobody can decode as a patch again.
NoPatch == [containers |-> 0, probes |-> FALSE]
Garbled == [containers |-> -1, probes |-> FALSE]

\* A workload has one container with probes.
Origin == [sidecars |-> {}, probes |-> TRUE, saved |-> NoPatch]

Template == [sidecars : SUBSET Sidecars, probes : BOOLEAN,
             saved : [containers : -1 .. 2, probes : BOOLEAN]]

Containers(t) == 1 + Cardinality(t.sidecars)

NoWorkload == "none"

\* No command.  seen is the template and copy the rules that the command has
\* read; todo and round belong to Cleanup, which each of the two daemons runs;
\* said is what the last command reported.
NoJob == [pc |-> "idle", workload |-> NoWorkload, seen |-> Origin,
          copy |-> [w \in Workload |-> {}], todo |-> {}, round |-> 0, said |-> "nothing"]

TypeOK ==
    /\ marked \subseteq Pool4
    /\ addr \in [Machine -> Pool4 \cup {NoIP}]
    /\ rules \in [Workload -> SUBSET Pool4]
    /\ fresh \subseteq Machine
    /\ template \in [Workload -> Template]
    /\ job \in [Machine ->
            [pc : {"idle", "addget", "addput", "inject", "exchange", "remget", "remput",
                   "restore", "list", "next"},
             workload : Workload \cup {NoWorkload}, seen : Template,
             copy : [Workload -> SUBSET Pool4], todo : SUBSET Workload, round : 0 .. 2,
             said : {"nothing", "already", "left"}]]
    /\ served \in [Machine -> SUBSET Workload]

Init ==
    /\ marked = {}
    /\ addr = [m \in Machine |-> NoIP]
    /\ rules = [w \in Workload |-> {}]
    /\ fresh = {}
    /\ template = [w \in Workload |-> Origin]
    /\ job = [m \in Machine |-> NoJob]
    /\ served = [m \in Machine |-> {}]

At(m, label) == job[m].pc = label

Goto(m, label) == job' = [job EXCEPT ![m].pc = label]

\* The command is over; Cleanup goes on with its next workload.
Finish(m, message) ==
    job' = [job EXCEPT ![m] = [NoJob EXCEPT !.pc = IF job[m].round = 0 THEN "idle" ELSE "next",
                                            !.todo = job[m].todo, !.round = job[m].round,
                                            !.said = message]]

\* The ConfigMap is written: every other copy is out of date.
Wrote == fresh' = {}

-----------------------------------------------------------------------------
(* Connecting                                                              *)

Connect(m) ==
    /\ At(m, "idle") /\ addr[m] = NoIP
    /\ Usable(marked, Max4, {}) # {}
    /\ addr' = [addr EXCEPT ![m] = Chosen(marked, Max4, {})]
    /\ marked' = MarkedUpTo(marked, Chosen(marked, Max4, {}))
    /\ Wrote
    /\ UNCHANGED <<rules, template, job, served>>

-----------------------------------------------------------------------------
(* InjectVPNAndEnvoySidecar                                                *)

\* GetUnstructuredObject
Mesh(m, w) ==
    /\ "mesh" \in Commands
    /\ At(m, "idle") /\ addr[m] # NoIP
    /\ job' = [job EXCEPT ![m] = [NoJob EXCEPT !.pc = "addget", !.workload = w, !.seen = template[w]]]
    /\ UNCHANGED <<marked, addr, rules, fresh, template, served>>

\* The Get of addEnvoyConfig or of removeEnvoyConfig.
EnvoyGet(m) ==
    /\ job[m].pc \in {"addget", "remget"}
    /\ job' = [job EXCEPT ![m].pc = IF @ = "addget" THEN "addput" ELSE "remput",
                          ![m].copy = rules]
    /\ fresh' = fresh \cup {m}
    /\ UNCHANGED <<marked, addr, rules, template, served>>

AlreadyInjected(m) == Sidecars \subseteq job[m].seen.sidecars

\* Mutant: the rules are stored without a resourceVersion.
AddPatch(m) ==
    LET w == job[m].workload
    IN  /\ At(m, "addput")
        /\ rules' = [job[m].copy EXCEPT ![w] = @ \cup {addr[m]}]
        /\ fresh' = {}
        /\ served' = [served EXCEPT ![m] = @ \cup {w}]
        /\ IF AlreadyInjected(m) THEN Finish(m, "already") ELSE Goto(m, "inject")
        /\ UNCHANGED <<marked, addr, template>>

\* addEnvoyConfig.  A machine that has a rule already only merges its headers.
AddPut(m) ==
    LET w == job[m].workload
        new == [job[m].copy EXCEPT ![w] = @ \cup {addr[m]}]
    IN  /\ At(m, "addput")
        /\ m \in fresh
        /\ rules' = new
        /\ fresh' \in IF new = job[m].copy THEN {fresh, {}} ELSE {{}}
        /\ served' = [served EXCEPT ![m] = @ \cup {w}]
        /\ IF AlreadyInjected(m) THEN Finish(m, "already") ELSE Goto(m, "inject")
        /\ UNCHANGED <<marked, addr, template>>

\* The Patch replaces the template by the one that was read, with the sidecars
\* and without the probes, and saves the probes of that one.
WithMesh(t) == [sidecars |-> Sidecars, probes |-> FALSE,
                saved |-> [containers |-> Containers(t), probes |-> t.probes]]

Inject(m) ==
    /\ At(m, "inject")
    /\ template' = [template EXCEPT ![job[m].workload] = WithMesh(job[m].seen)]
    /\ Finish(m, "nothing")
    /\ UNCHANGED <<marked, addr, rules, fresh, served>>

-----------------------------------------------------------------------------
(* InjectVPNSidecar                                                        *)

Exchange(m, w) ==
    /\ "exchange" \in Commands
    /\ At(m, "idle") /\ addr[m] # NoIP
    /\ job' = [job EXCEPT ![m] = [NoJob EXCEPT !.pc = "exchange", !.workload = w, !.seen = template[w]]]
    /\ UNCHANGED <<marked, addr, rules, fresh, template, served>>

WithVPN(t) == [sidecars |-> t.sidecars \cup {"vpn"}, probes |-> FALSE, saved |-> Garbled]

InjectVPN(m) ==
    /\ At(m, "exchange")
    /\ template' = [template EXCEPT ![job[m].workload] = WithVPN(job[m].seen)]
    /\ Finish(m, "nothing")
    /\ UNCHANGED <<marked, addr, rules, fresh, served>>

-----------------------------------------------------------------------------
(* UnPatchContainer, for the command leave or for Cleanup                  *)

Leave(m, w) ==
    /\ \/ "leave" \in Commands /\ At(m, "idle") /\ addr[m] # NoIP
       \/ At(m, "next") /\ w \in job[m].todo
    /\ job' = [job EXCEPT ![m] = [@ EXCEPT !.pc = "remget", !.workload = w,
                                           !.seen = template[w], !.todo = @ \ {w},
                                           !.said = "nothing"]]
    /\ served' = [served EXCEPT ![m] = @ \ {w}]
    /\ UNCHANGED <<marked, addr, rules, fresh, template>>

\* Mutant: all rules of the workload are removed.
WithoutRules(copy, w, ip) == [copy EXCEPT ![w] = {}]

\* The rules without those of the machine; a workload without a rule is removed.
WithoutRule(copy, w, ip) == [copy EXCEPT ![w] = @ \ {ip}]

\* removeEnvoyConfig reports that it has removed the last rule of the workload.
Emptied(copy, w, ip) == copy[w] = {ip}

\* removeEnvoyConfig, then the decoding of the annotation, which fails if
\* exchange mode has written it.
RemovePut(m) ==
    LET w == job[m].workload
        new == WithoutRule(job[m].copy, w, addr[m])
    IN  /\ At(m, "remput")
        /\ m \in fresh
        /\ rules' = new
        /\ fresh' = IF new = rules THEN fresh ELSE {}
        /\ IF job[m].seen.saved = Garbled THEN Finish(m, "nothing")
           ELSE IF Emptied(job[m].copy, w, addr[m]) THEN Goto(m, "restore")
           ELSE Finish(m, "left")
        /\ UNCHANGED <<marked, addr, template, served>>

\* RemoveContainers and fromPatchToProbe, which restores the probes if the
\* annotation was made for as many containers as there are now.
Restored(t) ==
    [sidecars |-> {}, saved |-> NoPatch,
     probes |-> IF t.saved.containers = 1 THEN t.saved.probes ELSE t.probes]

Restore(m) ==
    /\ At(m, "restore")
    /\ template' = [template EXCEPT ![job[m].workload] = Restored(job[m].seen)]
    /\ Finish(m, "left")
    /\ UNCHANGED <<marked, addr, rules, fresh, served>>

-----------------------------------------------------------------------------
(* Cleanup, in the sudo daemon (round 1) and in the user daemon (round 2): *)
(* ReleaseIP, done or refused, and then LeaveProxyResources.               *)

Release(m) ==
    /\ \/ "disconnect" \in Commands /\ At(m, "idle") /\ addr[m] # NoIP
       \/ At(m, "next") /\ job[m].todo = {} /\ job[m].round = 1
    /\ marked' \in {marked, Released(marked, addr[m], Net4)}
    /\ fresh' = IF marked' = marked THEN fresh ELSE {}
    /\ job' = [job EXCEPT ![m].pc = "list", ![m].round = @ + 1, ![m].said = "nothing"]
    /\ served' = [served EXCEPT ![m] = {}]
    /\ UNCHANGED <<addr, rules, template>>

\* LeaveProxyResources goes through all workloads that have rules.
List(m) ==
    /\ At(m, "list")
    /\ job' = [job EXCEPT ![m].pc = "next", ![m].todo = {w \in Workload : rules[w] # {}}]
    /\ UNCHANGED <<marked, addr, rules, fresh, template, served>>

Disconnected(m) ==
    /\ At(m, "next") /\ job[m].todo = {} /\ job[m].round = 2
    /\ addr' = [addr EXCEPT ![m] = NoIP]
    /\ job' = [job EXCEPT ![m] = NoJob]
    /\ UNCHANGED <<marked, rules, fresh, template, served>>

-----------------------------------------------------------------------------
\* A call fails, or an Update is refused: the command returns the error and
\* Cleanup goes on with the next workload.
CallError(m) ==
    /\ job[m].pc \notin {"idle", "next"}
    /\ Finish(m, "nothing")
    /\ UNCHANGED <<marked, addr, rules, fresh, template, served>>

Next ==
    \E m \in Machine :
        \/ Connect(m) \/ EnvoyGet(m) \/ AddPut(m) \/ Inject(m) \/ InjectVPN(m)
        \/ RemovePut(m) \/ Restore(m) \/ Release(m) \/ List(m) \/ Disconnected(m)
        \/ CallError(m)
        \/ \E w \in Workload : Mesh(m, w) \/ Exchange(m, w) \/ Leave(m, w)

Spec == Init /\ [][Next]_vars

-----------------------------------------------------------------------------
\* A rule comes and goes only with a completed addEnvoyConfig or
\* removeEnvoyConfig of a machine with the address in the rule, however the
\* Get and Update calls of the machines interleave: no update is lost.
RulesChangeByOwner ==
    [][\A w \in Workload :
        /\ \A ip \in rules[w] \ rules'[w] :
            \E m \in Machine : addr[m] = ip /\ At(m, "remput") /\ job'[m].pc # "remput"
        /\ \A ip \in rules'[w] \ rules[w] :
            \E m \in Machine : addr[m] = ip /\ At(m, "addput") /\ job'[m].pc # "addput"]_vars

\* A machine that has proxied a workload keeps its rule until it leaves the
\* workload or disconnects ("traffic with header a=1, will hit local PC").
ServedUntilLeft ==
    \A m \in Machine : \A w \in served[m] : addr[m] \in rules[w]

\* "leave proxy resource and restore it to origin": a workload without sidecars
\* has its probes back.
OriginRestored ==
    \A w \in Workload : template[w].sidecars = {} => template[w].probes

\* "leave workload %s successfully": if the last machine leaves and no other
\* command works on the workload, its sidecars are gone.
LeaveRestores ==
    [][\A m \in Machine :
        LET w == job[m].workload
        IN  job[m].pc \in {"remput", "restore"} /\ job'[m].said = "left" /\ rules'[w] = {}
                /\ (\A n \in Machine \ {m} : job[n].workload # w)
            => template'[w].sidecars = {}]_vars
=============================================================================
