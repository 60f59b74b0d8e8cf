------------------------------- MODULE MCNet -------------------------------
(***************************************************************************)
(* The network stack on a small instance for TLC.                           *)
(***************************************************************************)
EXTENDS Net

CONSTANTS p, q

\* Two-bit bytes: a header or packet is two words and its checksum.
MCHeaders == {<<2, 0, 0, 0, 1, 3>>}
MCBodies == {<<1, 0, 0, 0, 2, 3>>, <<0, 1, 0, 0, 3>>, <<3, 3, 0, 0, 3, 3>>}
\* Four frames, two in the ring at a time, for the services alone; or two
\* frames for two processes.
MCScenes == {[procs |-> {}, frames |-> 4], [procs |-> {p, q}, frames |-> 2]}
=============================================================================
