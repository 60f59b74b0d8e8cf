----------------------------- MODULE BoundedFIFO -----------------------------
(***************************************************************************)
(* What a kernel queue promises its users: at most Cap values, delivered   *)
(* once each and in the order they went in.                                *)
(***************************************************************************)
EXTENDS Naturals, Sequences

CONSTANTS Values, Cap

VARIABLE items

Init == items = <<>>

Put == /\ Len(items) < Cap
       /\ \E v \in Values : items' = Append(items, v)

Get == /\ items # <<>>
       /\ items' = Tail(items)

Next == Put \/ Get

Spec == Init /\ [][Next]_items
=============================================================================
