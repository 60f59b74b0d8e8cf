------------------------------ MODULE MCKSched ------------------------------
(* TLC instances of KSched. *)
EXTENDS KSched, TLC

CONSTANTS shell, disp, svc, k1, k2

SlotsOf3 == {shell, disp, k1}
SlotsOf4 == {shell, disp, k1, k2}
SlotsOf5  == {shell, disp, svc, k1, k2}
DispOnly == <<disp>>
DispSvc  == <<disp, svc>>

\* Slots outside the boot threads are interchangeable.
Kids == Permutations({k1, k2})
=============================================================================
