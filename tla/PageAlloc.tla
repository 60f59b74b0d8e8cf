----------------------------- MODULE PageAlloc ------------------------------
(* The physical page allocator of vm.go: a LIFO of freed pages in front of a *)
(* bump pointer, every operation under pageAllocLock.  Two CPUs that take    *)
(* several pages each may interleave; only the page numbers depend on it, so *)
(* a run of allocations is taken as a block.                                 *)
EXTENDS Integers, Sequences, FiniteSetsExt, Functions

CONSTANT freeStackCap

ASSUME PageAssumption == freeStackCap \in Nat

VARIABLE mem

MemInit == mem = [free |-> <<>>, next |-> 0]

\* The last n pages freed, then fresh ones.
Reused(m, n) == Min({n, Len(m.free)})
allocPage(m, n) ==
    LET k == Reused(m, n)
    IN  {m.free[i] : i \in Len(m.free) - k + 1 .. Len(m.free)}
            \cup (m.next .. m.next + n - k - 1)

\* Wrong: the stack keeps what was taken off it.
NotPopped(m, n) == [m EXCEPT !.next = @ + n - Reused(m, n)]
Allocated(m, n) ==
    LET k == Reused(m, n)
    IN  [free |-> SubSeq(m.free, 1, Len(m.free) - k), next |-> m.next + n - k]

\* The pages of a set, in some order.
Listing(pages) == CHOOSE s \in [1 .. Cardinality(pages) -> pages] : IsInjective(s)

\* What does not fit on the free stack is leaked.
freePage(m, pages) ==
    LET all == m.free \o Listing(pages)
    IN  [m EXCEPT !.free = SubSeq(all, 1, Min({Len(all), freeStackCap}))]
=============================================================================
