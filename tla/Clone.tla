------------------------------- MODULE Clone -------------------------------
(***************************************************************************)
(* Clones of workloads (pkg/handler/clone.go, pkg/daemon/action/clone.go,  *)
(* remove.go, quit.go).  The command clone creates a copy of every         *)
(* workload it names, in the same namespace or for another one, waits for  *)
(* its pods and stores the options of the clone in the daemon, which has   *)
(* one place for them.  remove and quit, and a clone that fails, call      *)
(* Cleanup: it looks for the clones of a workload by label, whoever made   *)
(* them, deletes these, and at last runs the rollback functions of the     *)
(* options.                                                                *)
(*                                                                         *)
(* A step is one call to the API server; the handlers of a daemon run      *)
(* concurrently and without locks.                                         *)
(***************************************************************************)
EXTENDS Workloads, Naturals, Sequences, FiniteSets, SequencesExt

CONSTANTS
    Requests,  \* how many requests a daemon works on at once
    Id,        \* the names of clones
    Shape,     \* the pod template of every workload
    Lists,     \* the lists of workloads that users name
    Flags      \* the flags that they give: --target-namespace or
               \* --target-kubeconfig, the registry, and whether the target
               \* container exists

VARIABLES
    live,    \* the workloads that exist
    objs,    \* the clones that exist
    held,    \* svr.clone of every daemon
    request  \* the requests that the daemons work on

cloneVars == <<live, objs, held, request>>

-----------------------------------------------------------------------------
(* The pod template of a clone.  A template has one container app, maybe   *)
(* with the sidecars of a proxied workload, and maybe one init container.  *)
(* mounts and init are the volumes that they mount; env and from are the   *)
(* references of the container to ConfigMaps and Secrets.                  *)

Volume == {"data", "scratch", "token"}

Kind == [v \in Volume |-> IF v = "scratch" THEN "emptyDir" ELSE "other"]

Ref == [kind : {"configmap", "secret"}, name : {"x", "y"}]

\* The objects that references can be resolved with.
Stored == Ref \ {[kind |-> "secret", name |-> "y"]}

\* The volumes of a pod: the service account adds the one with the token.
PodVolumes(t) == t.mounts \cup t.init \cup {"token"}

\* The volumes whose content is downloaded: not those that are an emptyDir.
Downloads(t) == {v \in t.mounts \cup {"token"} : Kind[v] # "emptyDir"}

\* setVolume: the init container is removed if it mounts a volume that has no
\* download.
InitKept(t) == t.init # {} /\ t.init \subseteq Downloads(t)


\* setVolume: every volume of the pod becomes an emptyDir.
Volumes(t) == {[name |-> v, kind |-> "emptyDir"] : v \in PodVolumes(t)}

\* The ConfigMaps and Secrets that setEnv gets, in the order of the references.
\* A Secret is not read if a ConfigMap of its name has been.
Fetched(t) ==
    FoldLeft(LAMBDA got, r :
                IF r \in Stored /\ [kind |-> "configmap", name |-> r.name] \notin got
                THEN got \cup {r} ELSE got,
             {}, t.env \o t.from)

\* setEnv: the references of env that stay; those of envFrom always go.
Unresolved(t) == {t.env[i] : i \in DOMAIN t.env} \ Fetched(t)

\* setVolume: the container mounts the token like the containers of the pod.
Mounts(t) == t.mounts \cup {"token"}

\* replaceRegistry: the registry that the image of a container comes from.
Registry(container, registry) ==
    IF registry = "target" THEN "target"
    ELSE IF container \in {"vpn", "download"} THEN "kubevpn" ELSE "origin"

\* The template of a clone, for the same namespace or for another one.  The
\* containers are given with the registry that their image comes from.
CloneTemplate(t, same, registry) ==
    LET downloads == IF same THEN {} ELSE {<<"download", v>> : v \in Downloads(t)}
        inits == IF same THEN t.init # {} ELSE InitKept(t)
    IN  [volumes    |-> (IF same THEN {[name |-> v, kind |-> Kind[v]] : v \in t.mounts \cup t.init}
                                 ELSE Volumes(t))
                        \cup {[name |-> "kubeconfig", kind |-> "downward"]},
         mounts     |-> (IF same THEN t.mounts ELSE Mounts(t)) \cup {"kubeconfig"}
                        \cup {d[2] : d \in downloads} \cup (IF inits THEN t.init ELSE {}),
         images     |-> [c \in {<<"app">>, <<"vpn">>} \cup (IF inits THEN {<<"init">>} ELSE {}) \cup downloads |->
                            Registry(c[1], registry)],
         refs       |-> IF same THEN {t.env[i] : i \in DOMAIN t.env} \cup {t.from[i] : i \in DOMAIN t.from}
                                ELSE Unresolved(t)]

-----------------------------------------------------------------------------
(* Requests                                                                *)

\* CloneOptions: the workloads and the clones that the rollback functions delete.
NoOptions == [workloads |-> << >>, rollback |-> << >>,
              flags |-> [target |-> "none", registry |-> "origin", container |-> TRUE]]

NoRequest == [pc |-> "idle", kind |-> "none", options |-> NoOptions, todo |-> << >>,
          listed |-> << >>, names |-> {}]

Targets == {"none", "namespace", "cluster"}

Job == Machine \X (1 .. Requests)

Options == [workloads : Lists \cup {<< >>}, rollback : BoundedSeq(Id, Cardinality(Workload)),
            flags : [target : Targets, registry : {"origin", "target"},
                     container : BOOLEAN]]

\* isSame of InitClient: the clone stays in the namespace of the workload.
IsSame(options) == options.flags.target = "none"

Labels == {"idle", "connect", "init", "get", "create", "wait", "find", "delete", "rollback"}

CloneTypeOK ==
    /\ live \subseteq Workload
    /\ \A o \in objs : o.id \in Id /\ o.origin \in Workload /\ o.target \in Targets
    /\ \A o, p \in objs : o.id = p.id => o = p
    /\ \A m \in Machine : held[m] \in Options
    /\ \A j \in Job :
        /\ request[j].pc \in Labels
        /\ request[j].kind \in {"none", "clone", "remove", "quit"}
        /\ request[j].options \in Options
        /\ IsSuffix(request[j].todo, request[j].options.workloads) \/ IsSuffix(request[j].todo, request[j].listed)
        /\ request[j].names \subseteq Id

CloneInit ==
    /\ live = Workload
    /\ objs = {}
    /\ held = [m \in Machine |-> NoOptions]
    /\ request = [j \in Job |-> NoRequest]

AtLabel(j, label) == request[j].pc = label

Names == {o.id : o \in objs}

\* Mutant: the label origin-workload is left out of the selector.
ClonesOfAny(w, target) == {o \in objs : o.target = target}

\* The clones of a workload in a namespace, by their label origin-workload.
ClonesOf(w, target) == {o \in objs : o.origin = w /\ o.target = target}

\* Names that nothing refers to: the name of a clone ends in a part of a UUID.
Unused ==
    Id \ (Names \cup UNION {Range(request[j].options.rollback) \cup request[j].names : j \in Job}
                \cup UNION {Range(held[m].rollback) : m \in Machine})

\* Cleanup of the options, for the workloads listed or for all of them.
CleanUp(j, kind, options, listed) ==
    LET all == IF listed = << >> THEN options.workloads ELSE listed
    IN  request' = [request EXCEPT ![j] = [NoRequest EXCEPT !.pc = "find", !.kind = kind, !.options = options,
                                                !.todo = all, !.listed = all]]

\* A Clone that fails cleans up what it has made so far.
Fail(j) == CleanUp(j, "clone", request[j].options, << >>)

\* What follows Cleanup in the handler that has called it: Clone returns its
\* error, Remove forgets the options, whatever they are by now, and Quit ends
\* the process and the other requests with it.
Return(j) ==
    LET kind == request[j].kind
    IN  /\ request' = [k \in Job |-> IF k = j \/ (kind = "quit" /\ k[1] = j[1]) THEN NoRequest ELSE request[k]]
        /\ held' = IF kind = "clone" THEN held ELSE [held EXCEPT ![j[1]] = NoOptions]

-----------------------------------------------------------------------------
(* Clone                                                                   *)

\* The daemon connects first, then it prepares the options.
Clone(j, ws, flags) ==
    /\ AtLabel(j, "idle")
    /\ request' = [request EXCEPT ![j] = [NoRequest EXCEPT !.pc = "connect", !.kind = "clone",
                    !.options = [workloads |-> ws, rollback |-> << >>, flags |-> flags]]]
    /\ UNCHANGED <<live, objs, held>>

\* Connect of the daemon itself has ended.
Connected(j, ok) ==
    /\ AtLabel(j, "connect")
    /\ request' = [request EXCEPT ![j] = IF ok THEN [@ EXCEPT !.pc = "init"] ELSE NoRequest]
    /\ UNCHANGED <<live, objs, held>>

\* The clients of the two clusters; nothing is cleaned up if this fails.
InitClient(j, ok) ==
    /\ AtLabel(j, "init")
    /\ request' = [request EXCEPT ![j] = IF ok THEN [@ EXCEPT !.pc = "get", !.todo = request[j].options.workloads]
                                  ELSE NoRequest]
    /\ UNCHANGED <<live, objs, held>>

\* The next workload: its object is read, and for another namespace the pod it
\* runs (ok is false if there is none), and the template of the clone is made.
\* The rollback function is added before the clone is created.  A target
\* container that the template does not have is an error.
Get(j, id, ok) ==
    LET w == Head(request[j].todo)
        options == [request[j].options EXCEPT !.rollback = Append(@, id)]
    IN  /\ AtLabel(j, "get") /\ id \in Unused
        /\ IF w \notin live \/ (~ ok /\ ~ IsSame(request[j].options)) THEN Fail(j)
           ELSE IF ~ request[j].options.flags.container THEN CleanUp(j, "clone", options, << >>)
           ELSE request' = [request EXCEPT ![j].pc = "create", ![j].options = options]
        /\ UNCHANGED <<live, objs, held>>

Made(j) ==
    LET w == Head(request[j].todo)
    IN  [id |-> Last(request[j].options.rollback), origin |-> w, target |-> request[j].options.flags.target,
         template |-> CloneTemplate(Shape[w], IsSame(request[j].options), request[j].options.flags.registry)]

\* The clone is created, or not, or its creation is not confirmed.
Create(j, result) ==
    /\ AtLabel(j, "create")
    /\ objs' = IF result = "refused" THEN objs ELSE objs \cup {Made(j)}
    /\ IF result = "created" THEN request' = [request EXCEPT ![j].pc = "wait"] ELSE Fail(j)
    /\ UNCHANGED <<live, held>>

\* After the last workload the daemon keeps the options, in the place of those
\* that it had before.
Keep(j) ==
    /\ request' = [request EXCEPT ![j] = NoRequest]
    /\ held' = [held EXCEPT ![j[1]] = request[j].options]

\* WaitPodToBeReady; the status of the rollout that follows is only reported.
Wait(j, ok) ==
    /\ AtLabel(j, "wait")
    /\ ok => Last(request[j].options.rollback) \in Names
    /\ IF ~ ok THEN Fail(j) /\ held' = held
       ELSE IF Len(request[j].todo) = 1
            THEN Keep(j)
            ELSE request' = [request EXCEPT ![j].pc = "get", ![j].todo = Tail(@)] /\ held' = held
    /\ UNCHANGED <<live, objs>>

-----------------------------------------------------------------------------
(* Cleanup                                                                 *)

RemoveClones(j, ws) ==
    /\ AtLabel(j, "idle") /\ held[j[1]] # NoOptions
    /\ CleanUp(j, "remove", held[j[1]], ws)
    /\ UNCHANGED <<live, objs, held>>

Quit(j) ==
    /\ AtLabel(j, "idle") /\ held[j[1]] # NoOptions
    /\ CleanUp(j, "quit", held[j[1]], << >>)
    /\ UNCHANGED <<live, objs, held>>

\* The workload and the clones with its label are looked up.  Cleanup returns
\* with an error if one of the two is not found.
Find(j) ==
    LET w == Head(request[j].todo)
        clones == ClonesOf(w, request[j].options.flags.target)
    IN  /\ AtLabel(j, "find") /\ request[j].todo # << >>
        /\ IF w \in live /\ clones # {}
           THEN /\ request' = [request EXCEPT ![j].pc = "delete", ![j].names = {o.id : o \in clones}]
                /\ held' = held
           ELSE Return(j)
        /\ UNCHANGED <<live, objs>>

\* Delete of one of the clones found; a call that fails ends Cleanup.
Delete(j, id, ok) ==
    /\ AtLabel(j, "delete") /\ id \in request[j].names
    /\ IF ~ ok THEN Return(j) /\ objs' = objs
       ELSE /\ objs' = {o \in objs : o.id # id}
            /\ request' = [request EXCEPT ![j] = IF @.names = {id}
                                         THEN [@ EXCEPT !.pc = "find", !.names = {}, !.todo = Tail(request[j].todo)]
                                         ELSE [@ EXCEPT !.names = request[j].names \ {id}]]
            /\ held' = held
    /\ UNCHANGED live

\* All workloads are done: the rollback functions follow.
Found(j) ==
    /\ AtLabel(j, "find") /\ request[j].todo = << >>
    /\ request' = [request EXCEPT ![j].pc = "rollback", ![j].names = Range(request[j].options.rollback)]
    /\ UNCHANGED <<live, objs, held>>

\* A rollback function; a call that fails is only reported.
Rollback(j, id, ok) ==
    /\ AtLabel(j, "rollback") /\ id \in request[j].names
    /\ objs' = IF ok THEN {o \in objs : o.id # id} ELSE objs
    /\ request' = [request EXCEPT ![j].names = @ \ {id}]
    /\ UNCHANGED <<live, held>>

RolledBack(j) ==
    /\ AtLabel(j, "rollback") /\ request[j].names = {}
    /\ Return(j)
    /\ UNCHANGED <<live, objs>>

-----------------------------------------------------------------------------
(* The cluster                                                             *)

\* The owner of a workload deletes it.
Gone(w) ==
    /\ w \in live
    /\ live' = live \ {w}
    /\ UNCHANGED <<objs, held, request>>

Step(j) ==
    \/ \E ok \in BOOLEAN : Connected(j, ok) \/ InitClient(j, ok) \/ Wait(j, ok)
    \/ \E id \in Id, ok \in BOOLEAN : Get(j, id, ok) \/ Delete(j, id, ok) \/ Rollback(j, id, ok)
    \/ \E result \in {"created", "refused", "unconfirmed"} : Create(j, result)
    \/ Find(j) \/ Found(j) \/ RolledBack(j)

CloneNext ==
    \/ \E j \in Job :
        \/ \E ws \in Lists :
            \/ \E flags \in Flags : Clone(j, ws, flags)
            \/ RemoveClones(j, ws)
        \/ RemoveClones(j, << >>)
        \/ Quit(j)
        \/ Step(j)
    \/ \E w \in Workload : Gone(w)

CloneSpec == CloneInit /\ [][CloneNext]_cloneVars

-----------------------------------------------------------------------------
(* Properties                                                              *)


\* When Cleanup has gone through its workloads, none of the clones that its
\* options made of them is left, whoever deletes and creates clones at the same
\* time; and a request deletes a clone only if it has made it or if it was asked to
\* clean up its workload (Cleanup in clone.go and the labels it selects with).
CleanupExact ==
    [][/\ \A j \in Job :
            Found(j) => \A o \in objs : o.id \in Range(request[j].options.rollback)
                                           => o.origin \notin Range(request[j].listed)
       /\ \A o \in objs \ objs' :
            \E j \in Job :
                /\ request'[j] # request[j]
                /\ \/ o.id \in Range(request[j].options.rollback)
                   \/ o.origin \in Range(request[j].listed)]_cloneVars
=============================================================================
