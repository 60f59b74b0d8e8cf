------------------------------- MODULE MCTcp -------------------------------
(* TLC instances of Tcp. *)
EXTENDS Tcp, TLC

CONSTANTS
    p, q,       \* processes
    a,          \* a peer of the processes' port
    b,          \* a peer they connect to
    e, f        \* peers of the echo server

\* A peer that sends has more bytes than a ring holds.
MCPeerBytes == a :> 2 @@ b :> 0 @@ e :> 2 @@ f :> 2
MCWins == a :> {1} @@ b :> {0, 1} @@ e :> {1} @@ f :> {1}

\* A process serves; a process connects; the echo server alone.
MCScenes == {{p, a}, {p, b}, {e, f}}

\* Two processes, one that serves and one that connects.
TwoProcesses == {{p, q, a, b}}
=============================================================================
