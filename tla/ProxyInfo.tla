----------------------------- MODULE ProxyInfo -----------------------------
(***************************************************************************)
(* The header of a tunnel connection: the forwarder writes the identifier  *)
(* of the flow and the handler reads it off the stream                     *)
(* (pkg/core/gvisortcpforwarder.go).  A field is one element of the        *)
(* stream; an address is written behind its length and so stays a field.   *)
(***************************************************************************)
EXTENDS Stream

CONSTANT
    Id         \* endpoint identifiers: the Local fields name the service

\* The fields in the order in which they are written.
Header(i) == <<i.LocalPort, i.RemotePort, i.LocalAddress, i.RemoteAddress>>

\* Mutant: the remote fields come first.
ParsedSwapped(s) == [LocalPort |-> s[2], RemotePort |-> s[1], LocalAddress |-> s[4], RemoteAddress |-> s[3]]

\* What the four fields at the head of a stream say.
Parsed(s) == [LocalPort |-> s[1], RemotePort |-> s[2], LocalAddress |-> s[3], RemoteAddress |-> s[4]]

=============================================================================
