---------------------------- MODULE AcDiscovery ----------------------------
(***************************************************************************)
(* acDiscovery.GetServers (auth/authcenter/authcenter.go): the auth center *)
(* client asks it for the server list before every call and tries the     *)
(* servers in the order returned.  The method holds the struct's mutex,   *)
(* so concurrent callers see atomic calls; a step is one call.            *)
(* servers is cfg.Address, a strings.Split result, so it is never empty.  *)
(***************************************************************************)
EXTENDS Integers, Sequences, FiniteSets, Functions

CONSTANTS
    ServerPool,     \* the addresses a configuration may list
    MaxServers      \* bound on len(servers)

VARIABLES
    servers,        \* s.servers
    index,          \* s.index
    firsts          \* the first server of each of the last len(servers)
                    \* lists returned

vars == <<servers, index, firsts>>

Init ==
    /\ servers \in UNION {{f \in [1..n -> ServerPool] : IsInjective(f)} :
                            n \in 1..MaxServers}
    /\ index = 0
    /\ firsts = <<>>

\* append(s.servers[i:], s.servers[:i]...), i counted from 0
RotateFrom(s, i) == SubSeq(s, i + 1, Len(s)) \o SubSeq(s, 1, i)

\* mutant: the bound test is s.index < num
GetServersLoose(s, ix) ==
    IF ix < Len(s)
    THEN [index |-> ix + 1, list |-> RotateFrom(s, ix)]
    ELSE [index |-> 0, list |-> RotateFrom(s, Len(s) - 1)]

\* the two branches of GetServers: the new s.index and the list returned
GetServersStep(s, ix) ==
    IF ix < Len(s) - 1
    THEN [index |-> ix + 1, list |-> RotateFrom(s, ix)]
    ELSE [index |-> 0, list |-> RotateFrom(s, Len(s) - 1)]

GetServers ==
    /\ LET r == GetServersStep(servers, index)
           window == IF Len(firsts) = Len(servers) THEN Tail(firsts) ELSE firsts
       IN /\ index' = r.index
          /\ firsts' = Append(window, r.list[1])
    /\ UNCHANGED servers

Spec == Init /\ [][GetServers]_vars /\ WF_vars(GetServers)

TypeOK ==
    /\ index \in 0..Len(servers) - 1
    /\ firsts \in Seq(Range(servers)) /\ Len(firsts) <= Len(servers)

\* Round robin across callers: in every window of len(servers) consecutive
\* calls, each server is tried first exactly once, whatever the index
\* the rotation wrapped at.
RoundRobin ==
    Len(firsts) = Len(servers) => IsInjective(firsts)

=============================================================================
