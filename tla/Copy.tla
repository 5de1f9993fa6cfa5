-------------------------------- MODULE Copy --------------------------------
(***************************************************************************)
(* Copying files out of a pod: `kubevpn cp` and the volumes of a dev       *)
(* session (pkg/cp/cp.go, untar.go).  A command in the pod writes a tar    *)
(* archive; TarPipe reads it and, when the connection to the command ends, *)
(* starts the command again behind the bytes it has, up to MaxTries times. *)
(* untarAll unpacks what it reads.                                         *)
(*                                                                         *)
(* The archive is a sequence of bytes: of each entry its header and its    *)
(* data, and a mark at the end.  A byte stands for itself by its entry and *)
(* its place.  The command writes the same archive each time.  It follows  *)
(* links (tar h), so a link is to an earlier entry that is a file.         *)
(* Directories are made on the way and names lie within the destination.   *)
(***************************************************************************)
EXTENDS Naturals, Sequences, SequencesExt

CONSTANTS
    Entry,     \* the entries: [size |-> bytes of data, link |-> 0 or the entry it links to]
    MaxTries   \* --retries

Data(k) == [b \in 1 .. Entry[k].size |-> <<k, b>>]

\* The archive; the header of an entry is byte 0, the mark belongs to entry 0.
Archive == FlattenSeq([k \in DOMAIN Entry |-> <<<<k, 0>>>> \o Data(k)]) \o <<<<0, 0>>>>

VARIABLES
    command,    \* the command in the pod and execute: runs, or the pipe is closed
    next,       \* the byte it writes next
    bytesRead,
    retries,
    unpack,     \* untarAll: at Next, in io.Copy, at the links, returned
    entry,      \* the entry of the current header
    file        \* the files by the entries they are for

copyvars == <<command, next, bytesRead, retries, unpack, entry, file>>

\* No such file.
Missing == <<<<0, 0>>>>

CopyTypeOK ==
    /\ command \in {"runs", "ended"}
    /\ next \in Nat /\ bytesRead \in Nat
    /\ retries \in 0 .. MaxTries
    /\ unpack \in {"next", "data", "links", "ok", "error"}
    /\ entry \in 0 .. Len(Entry)
    /\ DOMAIN file = DOMAIN Entry

\* newTarPipe and untarAll
CopyInit ==
    /\ command = "runs" /\ next = 1
    /\ bytesRead = 0 /\ retries = 0
    /\ unpack = "next" /\ entry = 0
    /\ file = [k \in DOMAIN Entry |-> Missing]

\* execute returns and outStream is closed: the command has written everything, or its
\* connection was lost.
CommandEnds ==
    /\ command = "runs"
    /\ command' = "ended"
    /\ UNCHANGED <<next, bytesRead, retries, unpack, entry, file>>

\* Mutant: the command starts at the last byte that was read.
ResumeAtLast == bytesRead

\* initReadFrom(t.bytesRead + 1)
ResumeAt == bytesRead + 1

\* tail -c+n begins with byte n.
TailFrom(n) == IF n = 0 THEN 1 ELSE n

\* Read finds the pipe closed and tries again.
Resume ==
    /\ unpack \in {"next", "data"} /\ command = "ended" /\ retries < MaxTries
    /\ command' = "runs" /\ next' = TailFrom(ResumeAt)
    /\ retries' = retries + 1
    /\ UNCHANGED <<bytesRead, unpack, entry, file>>

\* Read has a byte.
Take ==
    /\ command = "runs" /\ next <= Len(Archive)
    /\ next' = next + 1 /\ bytesRead' = bytesRead + 1
    /\ UNCHANGED <<command, retries>>

\* tarReader.Next reads a header, or the mark at the end, or finds that it is neither.  The file is created.
NextHeader ==
    /\ unpack = "next" /\ Take
    /\ LET b == Archive[next] IN
       IF b[1] = 0 THEN unpack' = "links" /\ UNCHANGED <<entry, file>>
       ELSE IF b[2] # 0 THEN unpack' = "error" /\ UNCHANGED <<entry, file>>
       ELSE /\ entry' = b[1]
            /\ file' = [file EXCEPT ![b[1]] = << >>]
            /\ unpack' = IF Entry[b[1]].size = 0 THEN "next" ELSE "data"

\* io.Copy of the entry's data.
CopyData ==
    /\ unpack = "data" /\ Take
    /\ file' = [file EXCEPT ![entry] = Append(@, Archive[next])]
    /\ unpack' = IF Len(file'[entry]) = Entry[entry].size THEN "next" ELSE "data"
    /\ UNCHANGED entry

\* Read finds the pipe closed and no try is left.  An end where a header is due is
\* io.EOF for Next, as at the end of the archive; within an entry it is an error.
DropOut ==
    /\ unpack \in {"next", "data"} /\ command = "ended" /\ retries >= MaxTries
    /\ unpack' = IF unpack = "next" THEN "links" ELSE "error"
    /\ UNCHANGED <<command, next, bytesRead, retries, entry, file>>

\* The entries whose header was read and has a Linkname.
LinkList == {k \in DOMAIN Entry : file[k] # Missing /\ Entry[k].link # 0}

\* copyFromLink for each of them: the content of the file it links to.
CopyFromLink ==
    /\ unpack = "links"
    /\ IF \E k \in LinkList : file[Entry[k].link] = Missing
       THEN unpack' = "error" /\ UNCHANGED file
       ELSE /\ unpack' = "ok"
            /\ file' = [k \in DOMAIN Entry |-> IF k \in LinkList THEN file[Entry[k].link] ELSE file[k]]
    /\ UNCHANGED <<command, next, bytesRead, retries, entry>>

\* MkdirAll, Create or a write to the file fails.
LocalFails ==
    /\ unpack \in {"next", "data"} /\ command = "runs" /\ bytesRead > 0
    /\ unpack' = "error"
    /\ UNCHANGED <<command, next, bytesRead, retries, entry, file>>

Unpack == Resume \/ NextHeader \/ CopyData \/ DropOut \/ CopyFromLink

CopyNext == CommandEnds \/ Unpack \/ LocalFails

\* Reads return: the command writes, or the connection to it ends.
CommandDone == next > Len(Archive) /\ CommandEnds
CopyFairness == WF_copyvars(Unpack) /\ WF_copyvars(CommandDone)

CopySpec == CopyInit /\ [][CopyNext]_copyvars /\ CopyFairness

-----------------------------------------------------------------------------

\* What the file of an entry is in the pod.
InPod(k) == IF Entry[k].link = 0 THEN Data(k) ELSE Data(Entry[k].link)

\* The files that are there are those of the pod, but for the current one, which is a
\* beginning of it: no byte is missing, repeated or in the wrong file, wherever the
\* connections broke and the command was started again.  A copy that succeeds with a
\* try to spare has all files of the pod, links included (cp.go:228-289, 371-443).
FilesFaithful ==
    /\ \A k \in DOMAIN Entry :
          /\ file[k] # Missing => IsPrefix(file[k], InPod(k))
          /\ file[k] \notin {Missing, InPod(k)} => k = entry \/ (Entry[k].link # 0 /\ unpack # "ok")
    /\ unpack = "ok" /\ retries < MaxTries => \A k \in DOMAIN Entry : file[k] = InPod(k)
=============================================================================
