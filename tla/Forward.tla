------------------------------ MODULE Forward ------------------------------
(***************************************************************************)
(* The port forward of a connection (connect.go: portForward): a goroutine *)
(* forwards local ports to the traffic manager's pod for ever, a watch     *)
(* cancels it when the pod is deleted, and DoConnect waits for the first   *)
(* attempt.  The connections of one daemon share the global error handler  *)
(* of the Kubernetes runtime (utilruntime.ErrorHandlers).                  *)
(***************************************************************************)
EXTENDS Naturals

CONSTANTS Link   \* the connections of the daemon (primary and secondary)

VARIABLES
    caller,      \* portForward itself: what DoConnect gets
    live,        \* the connection's context is not cancelled
    looping,     \* the goroutine: "off", "list", "dial", "up"
    child,       \* the context of its current attempt is not cancelled
    first,       \* the variable `first`
    usable,      \* readyChan is not nil in the current attempt
    closed,      \* how often readyChan was closed
    resultChan,  \* its buffer: "none", "nil" or "err"
    watch,       \* checkPodStatus: "off", "on"
    stream,      \* connection to the pod: "none", "open", "half", "closed"
    target,      \* the pod of the current attempt still exists
    handler,     \* the set of links whose cancel is the global error handler
    pod          \* a running pod of the traffic manager exists

forwardVars == <<caller, live, looping, child, first, usable, closed, resultChan, watch,
          stream, target, handler, pod>>

ForwardTypeOK ==
    /\ caller \in [Link -> {"off", "wait", "ok", "err"}]
    /\ live \in [Link -> BOOLEAN]
    /\ looping \in [Link -> {"off", "list", "dial", "up"}]
    /\ child \in [Link -> BOOLEAN] /\ first \in [Link -> BOOLEAN]
    /\ usable \in [Link -> BOOLEAN] /\ closed \in [Link -> Nat]
    /\ resultChan \in [Link -> {"none", "nil", "err"}]
    /\ watch \in [Link -> {"off", "on"}]
    /\ stream \in [Link -> {"none", "open", "half", "closed"}]
    /\ target \in [Link -> BOOLEAN] /\ handler \in SUBSET Link
    /\ pod \in BOOLEAN
    /\ \A l \in Link : looping[l] = "up" <=> stream[l] # "none"

ForwardInit ==
    /\ caller = [l \in Link |-> "off"] /\ live = [l \in Link |-> TRUE]
    /\ looping = [l \in Link |-> "off"] /\ child = [l \in Link |-> FALSE]
    /\ first = [l \in Link |-> TRUE] /\ usable = [l \in Link |-> TRUE]
    /\ closed = [l \in Link |-> 0] /\ resultChan = [l \in Link |-> "none"]
    /\ watch = [l \in Link |-> "off"] /\ stream = [l \in Link |-> "none"]
    /\ target = [l \in Link |-> FALSE] /\ handler = {} /\ pod = TRUE

-----------------------------------------------------------------------------
(* portForward.                                                            *)

\* The call: the goroutine starts, the caller waits.
Call(l) ==
    /\ caller[l] = "off"
    /\ caller' = [caller EXCEPT ![l] = "wait"]
    /\ looping' = [looping EXCEPT ![l] = "list"]
    /\ UNCHANGED <<live, child, first, usable, closed, resultChan, watch, stream,
                   target, handler, pod>>

\* Mutant: readyChan stays what it was.
ReadyOfEvery(l) == TRUE

\* "if !*first { readyChan = nil }".
ReadyOf(l) == first[l]

\* A pod of the traffic manager that is not being deleted and whose containers
\* run; the call fails with a cancelled context.
GetRunningPodList(l) == pod /\ live[l]

\* An iteration begins.  Without a running pod, or with a cancelled context,
\* the loop sleeps and tries again.  Otherwise the attempt
\* gets a context, the global error handler becomes its cancel function, and
\* checkPodStatus starts to watch the pod.
List(l) ==
    /\ looping[l] = "list" /\ GetRunningPodList(l)
    /\ looping' = [looping EXCEPT ![l] = "dial"]
    /\ child' = [child EXCEPT ![l] = TRUE]
    /\ usable' = [usable EXCEPT ![l] = ReadyOf(l)]
    /\ handler' = {l}
    /\ watch' \in {[watch EXCEPT ![l] = "on"], watch}
    /\ target' = [target EXCEPT ![l] = TRUE]
    /\ UNCHANGED <<caller, live, first, closed, resultChan, stream, pod>>

\* The end of an iteration with result e; the deferred cancelFunc ends the
\* watch.
Iterate(l, e) ==
    /\ resultChan' = [resultChan EXCEPT ![l] = IF first[l] THEN e ELSE @]
    /\ first' = [first EXCEPT ![l] = FALSE]
    /\ looping' = [looping EXCEPT ![l] = "list"]
    /\ child' = [child EXCEPT ![l] = FALSE]
    /\ watch' = [watch EXCEPT ![l] = "off"]
    /\ stream' = [stream EXCEPT ![l] = "none"]
    /\ target' = [target EXCEPT ![l] = FALSE]
    /\ handler' = handler \ {l}

\* PortForwardPod up to the listeners: an error, or readyChan is closed.
Dial(l) ==
    /\ looping[l] = "dial"
    /\ \/ /\ target[l]
          /\ looping' = [looping EXCEPT ![l] = "up"]
          /\ stream' = [stream EXCEPT ![l] = "open"]
          /\ closed' = [closed EXCEPT ![l] = IF usable[l] THEN @ + 1 ELSE @]
          /\ UNCHANGED <<child, first, resultChan, watch, target, handler>>
       \/ Iterate(l, "err") /\ UNCHANGED closed
    /\ UNCHANGED <<caller, live, usable, pod>>

\* Mutant: the forward looks at its context only.
GoesOnWithout(l) ==
    /\ looping[l] = "up" /\ ~child[l] /\ Iterate(l, "nil")
    /\ UNCHANGED <<caller, live, usable, closed, pod>>

\* PortForwardPod returns nil: its context is cancelled or the connection to
\* the pod is closed.
Ends(l) ==
    /\ looping[l] = "up"
    /\ ~child[l] \/ stream[l] = "closed"
    /\ Iterate(l, "nil")
    /\ UNCHANGED <<caller, live, usable, closed, pod>>

\* The select of portForward: the result, readiness, or 60 seconds.  After an
\* error DoConnect fails and the connection's context is cancelled.
Answer(l) ==
    /\ caller[l] = "wait"
    /\ \/ /\ closed[l] > 0 \/ resultChan[l] = "nil"
          /\ caller' = [caller EXCEPT ![l] = "ok"] /\ UNCHANGED <<live, child>>
       \/ /\ caller' = [caller EXCEPT ![l] = "err"]
          /\ live' = [live EXCEPT ![l] = FALSE]
          /\ child' = [child EXCEPT ![l] = FALSE]
    /\ resultChan' = [resultChan EXCEPT ![l] = "none"]
    /\ UNCHANGED <<looping, first, usable, closed, watch, stream, target, handler,
                   pod>>

\* Disconnect cancels the context.  The loop has no exit.
Disconnect(l) ==
    /\ caller[l] = "ok" /\ live[l]
    /\ live' = [live EXCEPT ![l] = FALSE]
    /\ child' = [child EXCEPT ![l] = FALSE]
    /\ UNCHANGED <<caller, looping, first, usable, closed, resultChan, watch, stream,
                   target, handler, pod>>

-----------------------------------------------------------------------------
(* checkPodStatus and the error handler.                                   *)

\* A Deleted event cancels the attempt; an error or the end of the watch just
\* ends it.
CheckPodStatus(l) ==
    /\ watch[l] = "on" /\ watch' = [watch EXCEPT ![l] = "off"]
    /\ child' \in {child, [child EXCEPT ![l] = @ /\ target[l]]}
    /\ UNCHANGED <<caller, live, looping, first, usable, closed, resultChan, stream,
                   target, handler, pod>>

\* An error of some forwarded connection reaches the handler that was set
\* last, which cancels the attempt of that link.
HandleError(l) ==
    /\ looping[l] = "up" /\ stream[l] # "open"
    /\ child' = [k \in Link |-> child[k] /\ k \notin handler]
    /\ UNCHANGED <<caller, live, looping, first, usable, closed, resultChan, watch,
                   stream, target, handler, pod>>

-----------------------------------------------------------------------------
(* The cluster.                                                            *)

\* The pod goes; its connections are closed or just go silent.
PodGone ==
    /\ pod /\ pod' = FALSE
    /\ target' = [l \in Link |-> FALSE]
    /\ stream' \in {[l \in Link |-> IF stream[l] = "open" THEN s ELSE stream[l]] :
                       s \in {"half", "closed"}}
    /\ UNCHANGED <<caller, live, looping, child, first, usable, closed, resultChan,
                   watch, handler>>

PodRuns ==
    /\ ~pod /\ pod' = TRUE
    /\ UNCHANGED <<caller, live, looping, child, first, usable, closed, resultChan,
                   watch, stream, target, handler>>

\* The keep-alive of TCP finds a silent connection dead.
KeepAlive(l) ==
    /\ stream[l] = "half" /\ stream' = [stream EXCEPT ![l] = "closed"]
    /\ UNCHANGED <<caller, live, looping, child, first, usable, closed, resultChan,
                   watch, target, handler, pod>>

-----------------------------------------------------------------------------

Loop(l) == List(l) \/ Dial(l) \/ Ends(l)

ForwardNext ==
    \/ \E l \in Link : \/ Call(l) \/ Loop(l) \/ Answer(l) \/ Disconnect(l)
                       \/ CheckPodStatus(l) \/ HandleError(l) \/ KeepAlive(l)
    \/ PodGone \/ PodRuns

ForwardSpec == ForwardInit /\ [][ForwardNext]_forwardVars

-----------------------------------------------------------------------------
(* Properties.                                                             *)

\* readyChan is closed at most once (a second close panics): a later attempt
\* has no channel, and an attempt that failed did not close it.  DoConnect goes on
\* only if the ports were forwarded once: no attempt that failed, and no cancelled
\* one, reads as success (connect.go:295-297, 317-344).
ReadyOnce ==
    \A l \in Link : closed[l] <= 1 /\ (caller[l] = "ok" => closed[l] = 1)

\* While the pod runs and the connection is not ended, forwarding always comes
\* back, to a pod that exists, whichever of the watch, the error handler and
\* the closed connection tells that the pod had gone (connect.go:286-334).
ForwardRecovers ==
    \A l \in Link :
        <>[](pod /\ live[l] /\ looping[l] # "off")
            => []<>(looping[l] = "up" /\ target[l])
=============================================================================
