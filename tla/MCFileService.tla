--------------------------- MODULE MCFileService ---------------------------
(* TLC instances of FileService. *)
EXTENDS FileService, TLC

CONSTANTS p1, p2, p3, task

One   == {p1}
Two   == {p1, p2}
Three == {p1, p2, p3}
TwoAndTask   == {p1, p2, task}
ThreeAndTask == {p1, p2, p3, task}
=============================================================================
