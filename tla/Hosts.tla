------------------------------- MODULE Hosts --------------------------------
(***************************************************************************)
(* Name resolution on a client machine (pkg/dns): every connection puts    *)
(* the services of its namespace into the hosts file, follows them with a  *)
(* watch, changes resolv.conf, and takes all of it back.  The files are    *)
(* shared by the connections and nothing locks them: an update reads the   *)
(* file, and os.WriteFile truncates it before it writes.                   *)
(***************************************************************************)
EXTENDS Integers, Sequences, FiniteSets, Functions

CONSTANTS
    Conn,          \* connections of the machine
    Full,          \* those that are not lite
    Domain,        \* names of services
    NamesOf(_),    \* those that occur in the cluster of a connection
    IP,            \* their addresses
    Within(_, _),  \* Within(d, e): the name d is contained in the name e
    Resolved,      \* names that the resolver finds without the hosts file
    UserLines,     \* the hosts file before kubevpn
    MaxServers,    \* bound on the servers in resolv.conf
    MaxChange      \* bound on the changes of the services of a connection

None == "none"
Entry == Domain \X IP
Localhost == [own |-> FALSE, dom |-> "localhost", ip |-> "127.0.0.1"]
Actor == Conn \X {"h", "w"}    \* the request handler and the watch
Nothing == [e \in Entry |-> 0]

VARIABLES
    file,      \* lines of the hosts file
    resolv,    \* resolv.conf: whose servers it names, << >> if missing
    backup,    \* resolv.conf.kubevpn_backup, << >> if missing
    svc,       \* services of the namespace of each connection
    changes,   \* events of the services since the first list
    pc,        \* the request that works on a connection
    ctx,       \* its context is not cancelled
    hosts,     \* c.Hosts, a bag of entries
    last,      \* the last entry text, a bag of entries
    w,         \* the watch goroutine
    pend,      \* events that its watch has not delivered
    job,       \* updateHosts or CleanupHosts: next step of each actor
    ent,       \* the text it adds
    buf,       \* what it will write, or has read
    clash      \* two actors have worked on the files at the same time

vars == <<file, resolv, backup, svc, changes, pc, ctx, hosts, last, w, pend,
          job, ent, buf, clash>>

Bag == [Entry -> 0 .. 2]
Line == [own : BOOLEAN, dom : Domain, ip : IP]

TypeOK ==
    /\ resolv \in Seq(Conn \cup {"orig"}) /\ backup \in Seq(Conn \cup {"orig"})
    /\ svc \in [Conn -> [Domain -> IP \cup {None}]]
    /\ changes \in [Conn -> 0 .. MaxChange] /\ pend \in [Conn -> 0 .. MaxChange]
    /\ pc \in [Conn -> {"off", "setup", "write", "services", "first", "on",
                        "cancel", "restore", "cleanup"}]
    /\ ctx \in [Conn -> BOOLEAN]
    /\ hosts \in [Conn -> Bag] /\ last \in [Conn -> Bag]
    /\ w \in [Conn -> {"off", "watch", "recv", "gen", "update"}]
    /\ job \in [Actor -> {None, "read", "truncate", "write"}]
    /\ ent \in [Actor -> Bag]
    /\ clash \in BOOLEAN
    /\ \A i \in DOMAIN file : file[i].own => file[i] \in Line
    \* An actor that updates the file is in a step that does so.
    /\ \A c \in Conn : /\ job[<<c, "h">>] # None => pc[c] \in {"first", "cancel", "cleanup"}
                       /\ job[<<c, "w">>] # None => w[c] = "update"

Init ==
    /\ file = UserLines /\ resolv = <<"orig">> /\ backup = << >>
    /\ svc \in [Conn -> [Domain -> IP \cup {None}]]
    /\ \A c \in Conn : \A d \in Domain \ NamesOf(c) : svc[c][d] = None
    /\ changes = [c \in Conn |-> 0] /\ pend = [c \in Conn |-> 0]
    /\ pc = [c \in Conn |-> "off"] /\ ctx = [c \in Conn |-> FALSE]
    /\ hosts = [c \in Conn |-> Nothing] /\ last = [c \in Conn |-> Nothing]
    /\ w = [c \in Conn |-> "off"]
    /\ job = [a \in Actor |-> None] /\ ent = [a \in Actor |-> Nothing]
    /\ buf = [a \in Actor |-> << >>]
    /\ clash = FALSE

files == <<file, resolv, backup>>
names == <<svc, changes>>
jobs == <<job, ent, buf>>

Busy(a) ==
    IF a[2] = "h" THEN pc[a[1]] \notin {"off", "on"} ELSE w[a[1]] \in {"gen", "update"}

\* a begins to work on the files.
Begin(a) == clash' = (clash \/ \E b \in Actor \ {a} : Busy(b))

-----------------------------------------------------------------------------
(* The hosts file.                                                         *)

\* The lines that the entries of a bag make.
RECURSIVE Text(_)
Text(bag) ==
    IF bag = Nothing THEN << >>
    ELSE LET e == CHOOSE x \in Entry : bag[x] > 0
         IN  <<[own |-> TRUE, dom |-> e[1], ip |-> e[2]]>>
                 \o Text([bag EXCEPT ![e] = @ - 1])


\* How many of the hosts of c are contained in a line.
Matches(c, line) ==
    FoldFunctionOnSet(LAMBDA x, y : x + y, 0, hosts[c],
                      {e \in Entry : line.own /\ Within(e[1], line.dom)})

\* The sweep of updateHosts.  Every match of a line deletes at the index i and
\* decrements i, so that a second match of the same line deletes the line
\* before it.
RECURSIVE Sweep(_, _, _)
Sweep(c, kept, rest) ==
    IF rest = << >> THEN kept
    ELSE LET k == Matches(c, Head(rest)) IN
         IF k = 0 THEN Sweep(c, Append(kept, Head(rest)), Tail(rest))
         ELSE Sweep(c, SubSeq(kept, 1, Len(kept) - (k - 1)), Tail(rest))

\* The line of localhost is added when it is not there.
WithLocalhost(lines) ==
    IF \E i \in DOMAIN lines : lines[i] = Localhost THEN lines
    ELSE Append(lines, Localhost)

\* generateHostsEntry: the hosts of c and the services, without the names that
\* are known to resolve (as far as the lookups have returned) and without what
\* the file has.
InFile(e) ==
    \E i \in DOMAIN file : /\ Within(e[1], file[i].dom) /\ file[i].ip = e[2]

GenerateHostsEntry(c, found) ==
    [e \in Entry |->
        IF e \in found \/ InFile(e) THEN 0
        ELSE (IF hosts[c][e] > 0 THEN 1 ELSE 0) + (IF svc[c][e[1]] = e[2] THEN 1 ELSE 0)]

\* An update starts, with the text t.
StartUpdate(a, t) ==
    /\ job' = [job EXCEPT ![a] = "read"] /\ ent' = [ent EXCEPT ![a] = t]
    /\ UNCHANGED buf

\* Mutant: the index is not decremented after a deletion.
RECURSIVE SkipNext(_)
SkipNext(s) ==
    IF s = << >> THEN << >>
    ELSE IF Head(s).own /\ Len(s) > 1 THEN <<s[2]>> \o SkipNext(Tail(Tail(s)))
    ELSE IF Head(s).own THEN << >> ELSE <<Head(s)>> \o SkipNext(Tail(s))

ContentSkipping(a) ==
    LET c == a[1] IN
    IF pc[c] = "cleanup" /\ a[2] = "h" THEN SkipNext(file)
    ELSE WithLocalhost(Sweep(c, << >>, file)) \o Text(ent[a])

\* ReadFile and the new content; CleanupHosts drops every line of kubevpn.
Content(a) ==
    LET c == a[1] IN
    IF pc[c] = "cleanup" /\ a[2] = "h"
    THEN SelectSeq(file, LAMBDA l : ~l.own)
    ELSE WithLocalhost(Sweep(c, << >>, file)) \o Text(ent[a])

Read(a) ==
    /\ job[a] = "read"
    /\ buf' = [buf EXCEPT ![a] = Content(a)]
    /\ job' = [job EXCEPT ![a] = "truncate"]
    /\ UNCHANGED <<files, names, pc, ctx, hosts, last, w, pend, ent, clash>>

Truncate(a) ==
    /\ job[a] = "truncate" /\ file' = << >>
    /\ job' = [job EXCEPT ![a] = "write"]
    /\ UNCHANGED <<resolv, backup, names, pc, ctx, hosts, last, w, pend, ent, buf, clash>>

\* The content is written, and the actor goes on behind the call.
Write(a) ==
    /\ job[a] = "write" /\ file' = buf[a]
    /\ job' = [job EXCEPT ![a] = None] /\ buf' = [buf EXCEPT ![a] = << >>]
    /\ ent' = [ent EXCEPT ![a] = Nothing]
    /\ IF a[2] = "w"
       THEN /\ w' = [w EXCEPT ![a[1]] = "recv"] /\ UNCHANGED pc
            /\ last' = [last EXCEPT ![a[1]] = ent[a]]
       ELSE /\ pc' = [pc EXCEPT ![a[1]] = CASE @ = "first" -> "on"
                                            [] @ = "cancel" -> "restore"
                                            [] OTHER -> "off"]
            /\ w' = [w EXCEPT ![a[1]] = IF pc[a[1]] = "first" THEN "watch" ELSE @]
            /\ last' = [last EXCEPT ![a[1]] = IF pc[a[1]] = "first" THEN ent[a] ELSE @]
    /\ UNCHANGED <<resolv, backup, names, ctx, hosts, pend, clash>>

-----------------------------------------------------------------------------
(* setupDNS.                                                               *)

SetupDNS(c) ==
    /\ pc[c] = "off" /\ w[c] = "off" /\ Len(resolv) < MaxServers
    /\ pc' = [pc EXCEPT ![c] = "setup"] /\ ctx' = [ctx EXCEPT ![c] = TRUE]
    /\ hosts' = [hosts EXCEPT ![c] = Nothing] /\ last' = [last EXCEPT ![c] = Nothing]
    /\ changes' = [changes EXCEPT ![c] = 0]
    /\ Begin(<<c, "h">>)
    /\ UNCHANGED <<files, svc, w, pend, jobs>>

\* "if !c.Lite".
MovesResolvConf(c) == c \in Full

\* resolv.conf is read; a connection that is not lite moves it away.
ReadResolvConf(c) ==
    /\ pc[c] = "setup"
    /\ buf' = [buf EXCEPT ![<<c, "h">>] = resolv]
    /\ IF MovesResolvConf(c)
       THEN backup' = resolv /\ resolv' = << >> ELSE UNCHANGED <<resolv, backup>>
    /\ pc' = [pc EXCEPT ![c] = "write"]
    /\ UNCHANGED <<file, names, ctx, hosts, last, w, pend, job, ent, clash>>

\* The servers of the cluster come first, the old ones behind them.  When the
\* file cannot be written, DoConnect fails and Cleanup follows.
WriteResolvConf(c) ==
    /\ pc[c] = "write"
    /\ \/ /\ resolv' = <<c>> \o buf[<<c, "h">>]
          /\ pc' = [pc EXCEPT ![c] = "services"]
          /\ UNCHANGED <<job, ent, ctx>>
       \/ /\ pc' = [pc EXCEPT ![c] = "cancel"] /\ UNCHANGED resolv
          /\ ctx' = [ctx EXCEPT ![c] = FALSE]
          /\ job' = [job EXCEPT ![<<c, "h">>] = "read"]
          /\ ent' = [ent EXCEPT ![<<c, "h">>] = Nothing]
    /\ buf' = [buf EXCEPT ![<<c, "h">>] = << >>]
    /\ UNCHANGED <<file, backup, names, hosts, last, w, pend, clash>>

\* The first list of AddServiceNameToHosts; without a new entry, or when the
\* call fails, nothing is written.
AddServiceNameToHosts(c) ==
    /\ pc[c] = "services"
    /\ \E found \in SUBSET {e \in Entry : e[1] \in Resolved} :
           LET g == GenerateHostsEntry(c, found) IN
           /\ hosts' = [hosts EXCEPT ![c] = g]
           /\ IF g # Nothing
              THEN /\ StartUpdate(<<c, "h">>, g)
                   /\ pc' = [pc EXCEPT ![c] = "first"] /\ UNCHANGED w
              ELSE /\ pc' = [pc EXCEPT ![c] = "on"]
                   /\ w' = [w EXCEPT ![c] = "watch"] /\ UNCHANGED jobs
    /\ changes' = [changes EXCEPT ![c] = 0]
    /\ UNCHANGED <<files, svc, ctx, last, pend, clash>>

-----------------------------------------------------------------------------
(* The watch goroutine.                                                    *)

\* The loop ends with the context; a watch starts at the version of the first
\* list and delivers all events since.
Watch(c) ==
    /\ w[c] = "watch"
    /\ IF ctx[c] THEN /\ w' = [w EXCEPT ![c] = "recv"]
                      /\ pend' = [pend EXCEPT ![c] = changes[c]]
                 ELSE w' = [w EXCEPT ![c] = "off"] /\ UNCHANGED pend
    /\ UNCHANGED <<files, names, pc, ctx, hosts, last, jobs, clash>>

\* The watch is closed, by the server or with the context.
WatchCloses(c) ==
    /\ w[c] = "recv" /\ w' = [w EXCEPT ![c] = "watch"]
    /\ UNCHANGED <<files, names, pc, ctx, hosts, last, pend, jobs, clash>>

\* An event passes the rate limiter.
Event(c) ==
    /\ w[c] = "recv" /\ pend[c] > 0
    /\ pend' = [pend EXCEPT ![c] = @ - 1]
    /\ w' = [w EXCEPT ![c] = "gen"]
    /\ Begin(<<c, "w">>)
    /\ UNCHANGED <<files, names, pc, ctx, hosts, last, jobs>>


\* An event that does not pass: the watch is started again, and delivers it
\* again.
Limit(c) ==
    /\ w[c] = "recv" /\ pend[c] > 0
    /\ w' = [w EXCEPT ![c] = "watch"]
    /\ UNCHANGED <<files, names, pc, ctx, hosts, last, pend, jobs, clash>>

\* The services are listed.  No text, or the text of the last time, changes
\* nothing; a cancelled context fails the call.
Generate(c) ==
    /\ w[c] = "gen"
    /\ IF ~ctx[c]
       THEN w' = [w EXCEPT ![c] = "watch"] /\ UNCHANGED <<hosts, jobs>>
       ELSE \E found \in SUBSET {e \in Entry : e[1] \in Resolved} :
                LET g == GenerateHostsEntry(c, found) IN
                /\ hosts' = [hosts EXCEPT ![c] = g]
                /\ IF g = Nothing \/ g = last[c]
                   THEN w' = [w EXCEPT ![c] = "recv"] /\ UNCHANGED jobs
                   ELSE w' = [w EXCEPT ![c] = "update"] /\ StartUpdate(<<c, "w">>, g)
    /\ UNCHANGED <<files, names, pc, ctx, last, pend, clash>>

-----------------------------------------------------------------------------
(* Cleanup and Disconnect.                                                 *)

\* Cleanup cancels the context and then calls CancelDNS.
CancelDNS(c) ==
    /\ pc[c] = "on"
    /\ pc' = [pc EXCEPT ![c] = "cancel"] /\ ctx' = [ctx EXCEPT ![c] = FALSE]
    /\ StartUpdate(<<c, "h">>, Nothing)
    /\ Begin(<<c, "h">>)
    /\ UNCHANGED <<files, names, hosts, last, w, pend>>

\* svr.connect or the list of secondary connections holds it.
Held(c) ==
    pc[c] # "off" /\ (c \in Full \/ pc[c] \notin {"setup", "write", "services", "first"})

\* CancelDNS moves the backup back; Disconnect cleans the hosts file when it
\* has ended the last connection.
Restore(c) ==
    /\ pc[c] = "restore"
    /\ IF c \in Full /\ backup # << >>
       THEN resolv' = backup /\ backup' = << >> ELSE UNCHANGED <<resolv, backup>>
    /\ IF \E d \in Conn \ {c} : Held(d)
       THEN pc' = [pc EXCEPT ![c] = "off"] /\ UNCHANGED jobs
       ELSE pc' = [pc EXCEPT ![c] = "cleanup"] /\ StartUpdate(<<c, "h">>, Nothing)
    /\ UNCHANGED <<file, names, ctx, hosts, last, w, pend, clash>>

-----------------------------------------------------------------------------

\* A service is created, changed or deleted.
ServiceChanges(c) ==
    /\ w[c] # "off" /\ ctx[c] /\ changes[c] < MaxChange
    /\ \E d \in NamesOf(c), i \in IP \cup {None} :
           i # svc[c][d] /\ svc' = [svc EXCEPT ![c][d] = i]
    /\ changes' = [changes EXCEPT ![c] = @ + 1]
    /\ pend' = [pend EXCEPT ![c] = IF w[c] = "watch" THEN @ ELSE @ + 1]
    /\ UNCHANGED <<files, pc, ctx, hosts, last, w, jobs, clash>>

Update(a) == Read(a) \/ Truncate(a) \/ Write(a)
Handler(c) == ReadResolvConf(c) \/ WriteResolvConf(c) \/ AddServiceNameToHosts(c)
                \/ Restore(c) \/ Update(<<c, "h">>)
Watcher(c) == Watch(c) \/ Generate(c) \/ Update(<<c, "w">>)

Next ==
    \E c \in Conn : \/ SetupDNS(c) \/ CancelDNS(c) \/ Handler(c) \/ Watcher(c)
                    \/ WatchCloses(c) \/ Event(c) \/ Limit(c) \/ ServiceChanges(c)

Spec == Init /\ [][Next]_vars

-----------------------------------------------------------------------------
(* Properties.                                                             *)

\* As long as no two updates overlap, the lines of the user stay in the hosts
\* file: updateHosts and CleanupHosts delete lines of kubevpn only
\* (dns.go:112-122, 248-254).
UserLinesKept ==
    ~clash /\ (\A a \in Actor : job[a] # "write") =>
        SelectSeq(file, LAMBDA l : ~l.own) = UserLines

\* As long as no two updates overlap, nothing of kubevpn is in the hosts file
\* when all connections are gone, although CancelDNS of a connection deletes
\* only the entries of its last change (dns.go:241-263, disconnect.go:82-84); and
\* resolv.conf is there and names no server of a full connection that is gone,
\* whatever lite connections and failures came in between (dns_linux.go:83-120).
HostsCleared ==
    ~clash =>
        /\ (\A c \in Conn : pc[c] = "off") => \A i \in DOMAIN file : ~file[i].own
        /\ (\A c \in Full : pc[c] = "off") =>
              resolv # << >> /\ \A i \in DOMAIN resolv : resolv[i] \notin Full

=============================================================================
