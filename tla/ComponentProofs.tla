--------------------------- MODULE ComponentProofs --------------------------
(***************************************************************************)
(* What the parts that processes share promise on their own: the signal    *)
(* state, the modifier keys, and the page allocator, which hands a page    *)
(* out once and takes it back once.                                        *)
(***************************************************************************)
EXTENDS PageAlloc, Keyboard, UserSignal, FiniteSetTheorems, TLAPS

\* The time a leaf is given.
USE SMTT(60), ZenonT(60)

-----------------------------------------------------------------------------
(***************************************************************************)
(* Signals.                                                                *)
(***************************************************************************)
IsSig(s) ==
    /\ s = [handler |-> s.handler, counter |-> s.counter, pending |-> s.pending,
            inProgress |-> s.inProgress, saved |-> s.saved, frames |-> s.frames,
            running |-> s.running, rehooked |-> s.rehooked]
    /\ s.frames \in [1 .. MaxNest -> 0 .. MaxNest]
    /\ s.running \in 0 .. MaxNest /\ s.saved \in 0 .. MaxNest

\* A handler's frame is the first and there is no other, and a frame that was
\* resumed and may be resumed again is that one too.
Returns(s) ==
    ~s.rehooked =>
        /\ s.running = IF s.inProgress THEN 1 ELSE 0
        /\ s.running = 1 => s.saved = 1
        /\ s.saved # 0 => s.saved = 1 /\ s.frames[1] = 0

SigInv == IsSig(sig) /\ Returns(sig)

\* Installing a handler starts it afresh: it is not running.
LEMMA SigactionSigInv == ASSUME SigInv, sysSigaction PROVE SigInv'
<1>1. /\ sig'.running = sig.running /\ sig'.saved = sig.saved /\ sig'.frames = sig.frames
      /\ ~sig'.inProgress /\ (~sig'.rehooked => ~sig.rehooked /\ ~(sig.running > 0))
      /\ sig' = [handler |-> sig'.handler, counter |-> sig'.counter,
                 pending |-> sig'.pending, inProgress |-> sig'.inProgress,
                 saved |-> sig'.saved, frames |-> sig'.frames,
                 running |-> sig'.running, rehooked |-> sig'.rehooked]
  BY ZenonT(60) DEF SigInv, IsSig, sysSigaction
<1> QED
  BY <1>1, SignalAssumption DEF SigInv, IsSig, Returns

\* A return restores the interrupted frame.
LEMMA SigreturnSigInv == ASSUME SigInv, sysSigreturn PROVE SigInv'
<1>1. /\ sig.saved # 0
      /\ sig'.running = sig.frames[sig.saved] /\ sig'.saved = sig.saved
      /\ sig'.frames = sig.frames /\ ~sig'.inProgress /\ sig'.rehooked = sig.rehooked
      /\ sig' = [handler |-> sig'.handler, counter |-> sig'.counter,
                 pending |-> sig'.pending, inProgress |-> sig'.inProgress,
                 saved |-> sig'.saved, frames |-> sig'.frames,
                 running |-> sig'.running, rehooked |-> sig'.rehooked]
  BY ZenonT(60) DEF SigInv, IsSig, sysSigreturn
<1> QED
  BY <1>1, SignalAssumption DEF SigInv, IsSig, Returns

\* A tick delivers at most one signal, and only to a handler that is not running.
LEMMA TimerSigInv ==
    ASSUME SigInv, NEW r, handleLAPICTimer(r)
    PROVE  SigInv'
<1> DEFINE s == maybeSignalUserPreempt(sig)
<1>1. IsSig(s) /\ Returns(s)
  <2>1. CASE s = sig
    BY <2>1, ZenonT(60) DEF SigInv
  <2>2. CASE s = [sig EXCEPT !.counter = @ + 1]
    BY <2>2, ZenonT(60) DEF SigInv, IsSig, Returns
  <2>3. CASE s = [sig EXCEPT !.counter = 0, !.pending = TRUE]
    BY <2>3, ZenonT(60) DEF SigInv, IsSig, Returns
  <2> QED
    BY <2>1, <2>2, <2>3, ZenonT(60) DEF maybeSignalUserPreempt
<1>2. sig' = s \/ sig' = maybeDeliverSignal(s)
  BY ZenonT(60) DEF handleLAPICTimer
<1> HIDE DEF s
<1>3. CASE sig' = s
  BY <1>1, <1>3, ZenonT(60) DEF SigInv, IsSig, Returns
<1>4. CASE /\ Deliverable(s) /\ s.running < MaxNest
           /\ sig' = [s EXCEPT !.frames[s.running + 1] = s.running,
                               !.running = @ + 1, !.saved = s.running + 1,
                               !.inProgress = TRUE, !.pending = FALSE]
  <2>1. /\ sig'.frames = [s.frames EXCEPT ![s.running + 1] = s.running]
        /\ sig'.running = s.running + 1 /\ sig'.saved = s.running + 1
        /\ sig'.inProgress /\ sig'.rehooked = s.rehooked
        /\ sig' = [handler |-> sig'.handler, counter |-> sig'.counter,
                   pending |-> sig'.pending, inProgress |-> sig'.inProgress,
                   saved |-> sig'.saved, frames |-> sig'.frames,
                   running |-> sig'.running, rehooked |-> sig'.rehooked]
    BY <1>1, <1>4, ZenonT(60) DEF IsSig
  <2>2. s.running + 1 \in 1 .. MaxNest /\ s.frames \in [1 .. MaxNest -> 0 .. MaxNest]
        /\ s.running \in 0 .. MaxNest
    BY <1>1, <1>4, SignalAssumption DEF IsSig
  <2>3. IsSig(sig')
    BY <2>1, <2>2 DEF IsSig
  <2>4. ~sig'.rehooked => s.running = 0
    BY <1>1, <1>4, <2>1, ZenonT(60) DEF Returns, Deliverable
  <2>5. ~sig'.rehooked => sig'.running = 1 /\ sig'.saved = 1 /\ sig'.frames[1] = 0
    <3> SUFFICES ASSUME s.running = 0
                 PROVE  sig'.running = 1 /\ sig'.saved = 1 /\ sig'.frames[1] = 0
      BY <2>4, ZenonT(60)
    <3>1. sig'.running = 1 /\ sig'.saved = 1 /\ sig'.frames = [s.frames EXCEPT ![1] = 0]
      BY <2>1
    <3>2. 1 \in 1 .. MaxNest /\ s.frames \in [1 .. MaxNest -> 0 .. MaxNest]
      BY <2>2
    <3> QED
      BY ONLY <3>1, <3>2, ZenonT(60)
  <2> QED
    BY <2>1, <2>3, <2>5, ZenonT(60) DEF SigInv, Returns, IsSig
<1> QED
  BY <1>2, <1>3, <1>4, ZenonT(60) DEF maybeDeliverSignal

-----------------------------------------------------------------------------
(***************************************************************************)
(* Modifier keys.                                                          *)
(***************************************************************************)
IsKbd(k) ==
    /\ k = [ring |-> k.ring, head |-> k.head, tail |-> k.tail, held |-> k.held,
            extended |-> k.extended, down |-> k.down, wrapped |-> k.wrapped]
    /\ k.held \in [Modifiers -> 0 .. HeldMod - 1]
    /\ k.down \in SUBSET ModKeys

HeldBy(D, m) == {k \in D : Counter(k) = m}

Counts(k) ==
    \A m \in Modifiers : m \notin k.wrapped => k.held[m] >= Cardinality(HeldBy(k.down, m))

KbdInv == IsKbd(kbd) /\ Counts(kbd)

\* A finite set without one of its members has one member less.
LEMMA OneFewer ==
    ASSUME NEW S, NEW T, NEW x, IsFiniteSet(S), x \in S, T = S \ {x}
    PROVE  Cardinality(T) = Cardinality(S) - 1
BY FS_RemoveElement, ZenonT(60)

\* There are six modifier keys, so those held down can be counted.
LEMMA HeldFinite ==
    ASSUME NEW D \in SUBSET ModKeys, NEW m
    PROVE  IsFiniteSet(HeldBy(D, m)) /\ Cardinality(HeldBy(D, m)) \in Nat
<1> DEFINE Two == {"lshift"} \cup {"rshift"}
           Three == Two \cup {"lctrl"}
           Four == Three \cup {"rctrl"}
           Five == Four \cup {"lalt"}
           Six == Five \cup {"ralt"}
<1>1. IsFiniteSet(Two)
  BY FS_Singleton, FS_AddElement, ZenonT(60)
<1>2. IsFiniteSet(Four)
  <2> HIDE DEF Two
  <2>1. IsFiniteSet(Three)
    BY <1>1, FS_AddElement, ZenonT(60)
  <2> HIDE DEF Three
  <2> QED
    BY <2>1, FS_AddElement, ZenonT(60)
<1>3. IsFiniteSet(Six)
  <2> HIDE DEF Four
  <2>1. IsFiniteSet(Five)
    BY <1>2, FS_AddElement, ZenonT(60)
  <2> HIDE DEF Five
  <2> QED
    BY <2>1, FS_AddElement, ZenonT(60)
<1>4. HeldBy(D, m) \in SUBSET Six
  BY ZenonT(60) DEF HeldBy, ModKeys
<1>5. IsFiniteSet(HeldBy(D, m))
  BY <1>3, <1>4, FS_Subset, ZenonT(60)
<1> QED
  BY <1>5, FS_CardinalityType, ZenonT(60)

\* A counter that does not overflow goes up by one.
LEMMA PressedCounts ==
    ASSUME NEW n \in 0 .. HeldMod - 1
    PROVE  Pressed(n) \in 0 .. HeldMod - 1 /\ (n + 1 # HeldMod => Pressed(n) = n + 1)
BY KeyboardAssumption DEF Pressed

\* Every modifier key moves a counter.
LEMMA CounterType ==
    ASSUME NEW k \in ModKeys
    PROVE  Counter(k) \in Modifiers
BY DEF Counter, ModKeys, Modifiers

\* A make code, the first or a repeat, counts the key up.
LEMMA ModDownKbdInv ==
    ASSUME KbdInv, NEW k \in ModKeys, ModDown(k)
    PROVE  KbdInv'
<1> DEFINE c == Counter(k)
<1>0. c \in Modifiers
  BY CounterType
<1>1. /\ kbd' = [ring |-> kbd'.ring, head |-> kbd'.head, tail |-> kbd'.tail,
                 held |-> kbd'.held, extended |-> kbd'.extended,
                 down |-> kbd'.down, wrapped |-> kbd'.wrapped]
      /\ kbd'.held = [kbd.held EXCEPT ![c] = Pressed(kbd.held[c])]
      /\ kbd'.down = kbd.down \cup {k}
      /\ kbd'.wrapped = IF kbd.held[c] + 1 = HeldMod THEN kbd.wrapped \cup {c}
                        ELSE kbd.wrapped
  BY ZenonT(60) DEF KbdInv, IsKbd, ModDown
<1>t. kbd.held \in [Modifiers -> 0 .. HeldMod - 1] /\ kbd.down \in SUBSET ModKeys
  BY ZenonT(60) DEF KbdInv, IsKbd
<1>p. /\ kbd.held[c] \in 0 .. HeldMod - 1 /\ Pressed(kbd.held[c]) \in 0 .. HeldMod - 1
      /\ kbd.held[c] + 1 # HeldMod => Pressed(kbd.held[c]) = kbd.held[c] + 1
  BY <1>0, <1>t, PressedCounts, ZenonT(60)
<1> HIDE DEF c
<1>2. IsKbd(kbd')
  <2>1. kbd'.held \in [Modifiers -> 0 .. HeldMod - 1] /\ kbd'.down \in SUBSET ModKeys
    BY <1>0, <1>1, <1>t, <1>p, ZenonT(60)
  <2> QED
    BY <1>1, <2>1, ZenonT(60) DEF IsKbd
<1>3. Counts(kbd')
  <2> SUFFICES ASSUME NEW m \in Modifiers, m \notin kbd'.wrapped
               PROVE  kbd'.held[m] >= Cardinality(HeldBy(kbd'.down, m))
    BY ZenonT(60) DEF Counts
  <2>1. kbd.held[m] >= Cardinality(HeldBy(kbd.down, m))
    BY <1>1, ZenonT(60) DEF KbdInv, Counts
  <2>2. CASE m = c
    <3>1. HeldBy(kbd'.down, m) = HeldBy(kbd.down, m) \cup {k}
      BY <1>1, <2>2, ZenonT(60) DEF HeldBy, c
    <3>2. /\ IsFiniteSet(HeldBy(kbd.down, m)) /\ Cardinality(HeldBy(kbd.down, m)) \in Nat
          /\ \/ Cardinality(HeldBy(kbd'.down, m)) = Cardinality(HeldBy(kbd.down, m)) + 1
             \/ HeldBy(kbd'.down, m) = HeldBy(kbd.down, m)
      <4>1. IsFiniteSet(HeldBy(kbd.down, m)) /\ Cardinality(HeldBy(kbd.down, m)) \in Nat
        BY <1>t, HeldFinite, ZenonT(60)
      <4>2. CASE k \in HeldBy(kbd.down, m)
        <5>1. HeldBy(kbd'.down, m) = HeldBy(kbd.down, m)
          BY <3>1, <4>2, ZenonT(60)
        <5> QED
          BY <4>1, <5>1, ZenonT(60)
      <4>3. CASE k \notin HeldBy(kbd.down, m)
        BY <3>1, <4>1, <4>3, FS_AddElement, ZenonT(60)
      <4> QED
        BY <4>2, <4>3, ZenonT(60)
    <3>3. kbd'.held[m] = kbd.held[m] + 1 /\ kbd.held[m] \in 0 .. HeldMod - 1
      BY <1>0, <1>1, <1>t, <1>p, <2>2, ZenonT(60)
    <3> QED
      BY <2>1, <3>2, <3>3
  <2>3. CASE m # c
    <3>1. HeldBy(kbd'.down, m) = HeldBy(kbd.down, m)
      BY <1>1, <2>3, ZenonT(60) DEF HeldBy, c
    <3> QED
      BY <1>0, <1>1, <1>t, <2>1, <2>3, <3>1, ZenonT(60)
  <2> QED
    BY <2>2, <2>3, ZenonT(60)
<1> QED
  BY <1>2, <1>3, ZenonT(60) DEF KbdInv

\* A break code counts it down.
LEMMA ModUpKbdInv ==
    ASSUME KbdInv, NEW k \in ModKeys, ModUp(k)
    PROVE  KbdInv'
<1> DEFINE c == Counter(k)
<1>0. c \in Modifiers /\ k \in kbd.down
  BY CounterType, ZenonT(60) DEF ModUp
<1>1. /\ kbd' = [ring |-> kbd'.ring, head |-> kbd'.head, tail |-> kbd'.tail,
                 held |-> kbd'.held, extended |-> kbd'.extended,
                 down |-> kbd'.down, wrapped |-> kbd'.wrapped]
      /\ kbd'.held = [kbd.held EXCEPT ![c] = Released(kbd.held[c])]
      /\ kbd'.down = kbd.down \ {k}
      /\ kbd'.wrapped = kbd.wrapped
  BY ZenonT(60) DEF KbdInv, IsKbd, ModUp
<1>t. /\ kbd.held \in [Modifiers -> 0 .. HeldMod - 1] /\ kbd.down \in SUBSET ModKeys
      /\ kbd.held[c] \in 0 .. HeldMod - 1
  BY <1>0, ZenonT(60) DEF KbdInv, IsKbd
<1> HIDE DEF c
<1>2. IsKbd(kbd')
  <2>1. Released(kbd.held[c]) \in 0 .. HeldMod - 1
    BY <1>t, KeyboardAssumption DEF Released
  <2>2. kbd'.held \in [Modifiers -> 0 .. HeldMod - 1] /\ kbd'.down \in SUBSET ModKeys
    BY <1>0, <1>1, <1>t, <2>1, ZenonT(60)
  <2> QED
    BY <1>1, <2>2, ZenonT(60) DEF IsKbd
<1>3. Counts(kbd')
  <2> SUFFICES ASSUME NEW m \in Modifiers, m \notin kbd'.wrapped
               PROVE  kbd'.held[m] >= Cardinality(HeldBy(kbd'.down, m))
    BY ZenonT(60) DEF Counts
  <2>1. kbd.held[m] >= Cardinality(HeldBy(kbd.down, m))
    BY <1>1, ZenonT(60) DEF KbdInv, Counts
  <2>2. CASE m = c
    <3>1. HeldBy(kbd'.down, m) = HeldBy(kbd.down, m) \ {k} /\ k \in HeldBy(kbd.down, m)
      BY <1>0, <1>1, <2>2, ZenonT(60) DEF HeldBy, c
    <3>2. /\ Cardinality(HeldBy(kbd'.down, m)) = Cardinality(HeldBy(kbd.down, m)) - 1
          /\ Cardinality(HeldBy(kbd'.down, m)) \in Nat
          /\ Cardinality(HeldBy(kbd.down, m)) \in Nat
      <4>1. IsFiniteSet(HeldBy(kbd.down, m)) /\ Cardinality(HeldBy(kbd.down, m)) \in Nat
        BY <1>t, HeldFinite, ZenonT(60)
      <4>2. Cardinality(HeldBy(kbd'.down, m)) = Cardinality(HeldBy(kbd.down, m)) - 1
        BY <3>1, <4>1, OneFewer, ZenonT(60)
      <4>3. kbd'.down \in SUBSET ModKeys
        BY <1>1, <1>t, ZenonT(60)
      <4> QED
        BY <4>1, <4>2, <4>3, HeldFinite, ZenonT(60)
    <3>3. kbd'.held[m] = Released(kbd.held[m]) /\ kbd.held[m] \in 0 .. HeldMod - 1
      BY <1>0, <1>1, <1>t, <2>2, ZenonT(60)
    <3> QED
      BY <2>1, <3>2, <3>3 DEF Released
  <2>3. CASE m # c
    <3>1. HeldBy(kbd'.down, m) = HeldBy(kbd.down, m)
      BY <1>1, <2>3, ZenonT(60) DEF HeldBy, c
    <3> QED
      BY <1>0, <1>1, <1>t, <2>1, <2>3, <3>1, ZenonT(60)
  <2> QED
    BY <2>2, <2>3
<1> QED
  BY <1>2, <1>3 DEF KbdInv

-----------------------------------------------------------------------------
(***************************************************************************)
(* The page allocator, for any stack size and any number of pages.         *)
(***************************************************************************)
IsStack(F, N) ==
    /\ \A i \in 1 .. Len(F) : F[i] < N
    /\ \A i, j \in 1 .. Len(F) : F[i] = F[j] => i = j

IsMem(m) ==
    /\ m = [free |-> m.free, next |-> m.next]
    /\ m.next \in Nat /\ m.free \in Seq(Nat) /\ IsStack(m.free, m.next)

OnStack(m, f) == \E i \in 1 .. Len(m.free) : f = m.free[i]

\* k pages from the stack and n - k fresh ones.
Taken(F, N, k, n) == {F[i] : i \in Len(F) - k + 1 .. Len(F)} \cup (N .. N + n - k - 1)

Apart(F, s) == \A i \in 1 .. Len(F), j \in 1 .. Len(s) : F[i] # s[j]

\* G is a beginning of F followed by s.
Parts(G, F, s) ==
    \A i \in 1 .. Len(G) : \/ i \in 1 .. Len(F) /\ G[i] = F[i]
                           \/ i - Len(F) \in 1 .. Len(s) /\ G[i] = s[i - Len(F)]

FromEither(G, F, s) ==
    \A i \in 1 .. Len(G) : \/ \E j \in 1 .. Len(F) : G[i] = F[j]
                           \/ \E j \in 1 .. Len(s) : G[i] = s[j]

\* With k of n pages from the stack, G is what is left of it.
Leaves(F, N, k, n, G, M) ==
    /\ G \in Seq(Nat) /\ Len(G) = Len(F) - k /\ M \in Nat /\ M >= N /\ IsStack(G, M)
    /\ \A i \in 1 .. Len(G) : i \in 1 .. Len(F) /\ G[i] = F[i]
    /\ \A i \in Len(F) - k + 1 .. Len(F) :
           i \in 1 .. Len(F) /\ F[i] \in Nat /\ F[i] < M /\ \A j \in 1 .. Len(G) : G[j] # F[i]
    /\ \A f \in N .. N + n - k - 1 :
           f \in Nat /\ f < M /\ f >= N /\ \A j \in 1 .. Len(G) : G[j] # f

\* The pages left on the stack differ from those taken off it and from fresh
\* ones.
LEMMA Popped ==
    ASSUME NEW F \in Seq(Nat), NEW N \in Nat,
           IsStack(F, N), NEW n \in Nat, NEW k \in 0 .. n, k <= Len(F),
           NEW G, G = SubSeq(F, 1, Len(F) - k), NEW M, M = N + n - k
    PROVE  Leaves(F, N, k, n, G, M)
<1>1. G \in Seq(Nat) /\ Len(G) = Len(F) - k
  OBVIOUS
<1>2. \A i \in 1 .. Len(G) : i \in 1 .. Len(F) /\ G[i] = F[i]
  OBVIOUS
<1>3. M \in Nat /\ N \in Nat /\ M >= N
  OBVIOUS
<1>f. \A i \in 1 .. Len(F) : F[i] \in Nat /\ F[i] < N
  BY DEF IsStack
<1>4. \A i \in 1 .. Len(G) : G[i] < M
  BY ONLY <1>2, <1>3, <1>f, SMTT(60)
<1>5. \A i, j \in 1 .. Len(G) : G[i] = G[j] => i = j
  BY <1>2 DEF IsStack
<1>6. ASSUME NEW i \in Len(F) - k + 1 .. Len(F) 
      PROVE i \in 1 .. Len(F) /\ F[i] \in Nat /\ F[i] < M /\ \A j \in 1 .. Len(G) : G[j] # F[i]
  <2>1. i \in 1 .. Len(F) /\ i > Len(G)
    BY <1>1
  <2>2. F[i] \in Nat /\ F[i] < M
    BY ONLY <1>3, <1>f, <2>1, SMTT(60)
  <2>3. \A j \in 1 .. Len(G) : G[j] # F[i]
    BY <1>1, <1>2, <2>1 DEF IsStack
  <2> QED
    BY <2>1, <2>2, <2>3, ZenonT(60)
<1>7. ASSUME NEW f \in N .. N + n - k - 1
      PROVE f \in Nat /\ f < M /\ f >= N /\ \A j \in 1 .. Len(G) : G[j] # f
  <2>1. f \in Nat /\ f < M /\ f >= N
    BY <1>3
  <2>2. ASSUME NEW j \in 1 .. Len(G) PROVE G[j] # f
    <3>1. G[j] \in Nat /\ G[j] < N
      BY ONLY <1>2, <1>f, <2>2, SMTT(60)
    <3> QED
      BY ONLY <2>1, <3>1, N \in Nat, SMTT(60)
  <2> QED
    BY <2>1, <2>2, ZenonT(60)
<1> QED
  BY <1>1, <1>2, <1>3, <1>4, <1>5, <1>6, <1>7, ZenonT(60) DEF IsStack, Leaves

\* Two pages taken together differ.
LEMMA TwoTaken ==
    ASSUME NEW F \in Seq(Nat), NEW N \in Nat, IsStack(F, N),
           NEW k \in 0 .. 2, k <= Len(F), k = 2 \/ k = Len(F)
    PROVE  \E x, y \in Nat : x # y /\ Taken(F, N, k, 2) = {x, y}
<1>0. \A i \in 1 .. Len(F) : F[i] \in Nat /\ F[i] < N
  BY DEF IsStack
<1>1. CASE k = 0
  <2>1. Taken(F, N, k, 2) = {N, N + 1}
    BY <1>1 DEF Taken
  <2> QED
    BY <2>1
<1>2. CASE k = 1
  <2>1. Len(F) = 1
    BY <1>2
  <2>2. Taken(F, N, k, 2) = {F[1], N}
    BY <1>2, <2>1 DEF Taken
  <2> QED
    BY <1>0, <2>1, <2>2
<1>3. CASE k = 2
  <2>1. PICK i \in 1 .. Len(F), j \in 1 .. Len(F) : i = Len(F) - 1 /\ j = Len(F)
    <3>1. Len(F) - 1 \in 1 .. Len(F) /\ Len(F) \in 1 .. Len(F)
      BY <1>3
    <3> QED
      BY <3>1, ZenonT(60)
  <2>2. N .. N + 2 - k - 1 = {} /\ Len(F) - k + 1 .. Len(F) = {i, j}
    BY <1>3, <2>1
  <2>3. Taken(F, N, k, 2) = {F[i], F[j]}
    BY <2>2, ZenonT(60) DEF Taken
  <2>4. F[i] # F[j]
    BY <2>1 DEF IsStack
  <2> QED
    BY <1>0, <2>3, <2>4, ZenonT(60)
<1> QED
  BY <1>1, <1>2, <1>3

\* A concatenation holds the elements of its parts, at their places.
LEMMA Joined ==
    ASSUME NEW F \in Seq(Nat), NEW s \in Seq(Nat), NEW k \in 0 .. Len(F) + Len(s),
           NEW G, G = SubSeq(F \o s, 1, k)
    PROVE  /\ G \in Seq(Nat) /\ Len(G) = k
           /\ Parts(G, F, s)
<1>1. F \o s \in Seq(Nat) /\ Len(F \o s) = Len(F) + Len(s)
  OBVIOUS
<1>2. G \in Seq(Nat) /\ Len(G) = k
  BY <1>1
<1>3. \A i \in 1 .. k : i \in 1 .. Len(F) + Len(s) /\ G[i] = (F \o s)[i]
  BY <1>1
<1>4. \A i \in 1 .. Len(F) + Len(s) : (F \o s)[i] = IF i <= Len(F) THEN F[i] ELSE s[i - Len(F)]
  OBVIOUS
<1> QED
  BY <1>2, <1>3, <1>4 DEF Parts

\* Pages put on the stack that were not there are there once.
LEMMA Pushed ==
    ASSUME NEW F \in Seq(Nat), NEW N \in Nat, IsStack(F, N),
           NEW s \in Seq(Nat), IsStack(s, N), Apart(F, s),
           NEW G \in Seq(Nat), Parts(G, F, s)
    PROVE  /\ IsStack(G, N)
           /\ FromEither(G, F, s)
<1>1. ASSUME NEW i \in 1 .. Len(G)
      PROVE  \/ \E j \in 1 .. Len(F) : G[i] = F[j]
             \/ \E j \in 1 .. Len(s) : G[i] = s[j]
  BY ZenonT(60) DEF Parts
<1>2. ASSUME NEW i \in 1 .. Len(G) PROVE G[i] < N
  BY <1>1, ZenonT(60) DEF IsStack
<1>3. ASSUME NEW i \in 1 .. Len(G), NEW j \in 1 .. Len(G), G[i] = G[j]
      PROVE  i = j
  <2>1. CASE i \in 1 .. Len(F) /\ G[i] = F[i] /\ j \in 1 .. Len(F) /\ G[j] = F[j]
    BY <1>3, <2>1, ZenonT(60) DEF IsStack
  <2>2. CASE /\ i - Len(F) \in 1 .. Len(s) /\ G[i] = s[i - Len(F)]
             /\ j - Len(F) \in 1 .. Len(s) /\ G[j] = s[j - Len(F)]
    <3>1. i - Len(F) = j - Len(F)
      BY <1>3, <2>2, ZenonT(60) DEF IsStack
    <3> QED
      BY <3>1
  <2>3. CASE /\ i \in 1 .. Len(F) /\ G[i] = F[i]
             /\ j - Len(F) \in 1 .. Len(s) /\ G[j] = s[j - Len(F)]
    BY <1>3, <2>3, ZenonT(60) DEF Apart
  <2>4. CASE /\ j \in 1 .. Len(F) /\ G[j] = F[j]
             /\ i - Len(F) \in 1 .. Len(s) /\ G[i] = s[i - Len(F)]
    BY <1>3, <2>4, ZenonT(60) DEF Apart
  <2> QED
    BY <2>1, <2>2, <2>3, <2>4, ZenonT(60) DEF Parts
<1> QED
  BY <1>1, <1>2, <1>3, ZenonT(60) DEF IsStack, FromEither

\* The smaller of two numbers.
LEMMA MinOfTwo ==
    ASSUME NEW x \in Nat, NEW y \in Nat
    PROVE  /\ Min({x, y}) \in 0 .. x /\ Min({x, y}) <= y
           /\ Min({x, y}) = x \/ Min({x, y}) = y
<1>1. \E z \in {x, y} : \A w \in {x, y} : z <= w
  OBVIOUS
<1> QED
  BY <1>1 DEF Min

\* Of n pages as many as there are come from the stack.
LEMMA ReusedRange ==
    ASSUME NEW m, IsMem(m), NEW n \in Nat
    PROVE  /\ Reused(m, n) \in 0 .. n /\ Reused(m, n) <= Len(m.free)
           /\ Reused(m, n) = n \/ Reused(m, n) = Len(m.free)
<1>1. Len(m.free) \in Nat
  BY DEF IsMem
<1> QED
  BY <1>1, MinOfTwo, ZenonT(60) DEF Reused

\* Pages that are allocated were free and are so no longer.
LEMMA AllocIsFresh ==
    ASSUME NEW m, IsMem(m), NEW n \in Nat, NEW a, a = Allocated(m, n)
    PROVE  /\ IsMem(a) /\ a.next >= m.next
           /\ \A f : OnStack(a, f) => OnStack(m, f)
           /\ \A f \in allocPage(m, n) : /\ f \in Nat /\ f < a.next /\ ~OnStack(a, f)
                                         /\ OnStack(m, f) \/ f >= m.next
<1>0. PICK F \in Seq(Nat), N \in Nat, k \in 0 .. n :
          m.free = F /\ m.next = N /\ IsStack(F, N) /\ k = Reused(m, n) /\ k <= Len(F)
  BY ReusedRange, ZenonT(60) DEF IsMem
<1>1. PICK G, M : /\ G = SubSeq(F, 1, Len(F) - k) /\ M = N + n - k
                  /\ a = [free |-> G, next |-> M]
  BY <1>0, ZenonT(60) DEF Allocated
<1>2. a.free = G /\ a.next = M /\ a = [free |-> a.free, next |-> a.next]
  BY <1>1
<1>3. Leaves(F, N, k, n, G, M)
  <2>1. IsStack(F, N) /\ k <= Len(F) /\ G = SubSeq(F, 1, Len(F) - k) /\ M = N + n - k
    BY <1>0, <1>1, ZenonT(60)
  <2> QED
    BY <2>1, Popped, ZenonT(60)
<1>4. IsMem(a)
  BY <1>2, <1>3, ZenonT(60) DEF IsMem, Leaves
<1>5. \A f : OnStack(a, f) => OnStack(m, f)
  <2>1. \A i \in 1 .. Len(G) : i \in 1 .. Len(F) /\ G[i] = F[i]
    BY <1>3, ZenonT(60) DEF Leaves
  <2> QED
    BY <1>0, <1>2, <2>1, ZenonT(60) DEF OnStack
<1>6. \A f \in allocPage(m, n) : \/ \E i \in Len(F) - k + 1 .. Len(F) : f = F[i]
                                 \/ f \in N .. N + n - k - 1
  BY <1>0, ZenonT(60) DEF allocPage
<1>7. ASSUME NEW f \in allocPage(m, n)
      PROVE  f \in Nat /\ f < M /\ ~OnStack(a, f) /\ (OnStack(m, f) \/ f >= N)
  <2>1. CASE \E i \in Len(F) - k + 1 .. Len(F) : f = F[i]
    <3>1. PICK i \in Len(F) - k + 1 .. Len(F) : f = F[i]
      BY <2>1, ZenonT(60)
    <3>2. i \in 1 .. Len(F) /\ f \in Nat /\ f < M /\ \A j \in 1 .. Len(G) : G[j] # f
      BY <1>3, <3>1, ZenonT(60) DEF Leaves
    <3> QED
      BY <1>0, <1>2, <3>1, <3>2, ZenonT(60) DEF OnStack
  <2>2. CASE f \in N .. N + n - k - 1
    <3>1. f \in Nat /\ f < M /\ f >= N /\ \A j \in 1 .. Len(G) : G[j] # f
      BY <1>3, <2>2, ZenonT(60) DEF Leaves
    <3> QED
      BY <1>0, <1>2, <3>1, ZenonT(60) DEF OnStack
  <2> QED
    BY <1>6, <2>1, <2>2, ZenonT(60)
<1> QED
  BY <1>0, <1>2, <1>3, <1>4, <1>5, <1>7, ZenonT(60) DEF Leaves

\* Two pages taken together differ.
LEMMA TwoPages ==
    ASSUME NEW m, IsMem(m)
    PROVE  \E x, y \in Nat : x # y /\ allocPage(m, 2) = {x, y}
<1>1. PICK F \in Seq(Nat), N \in Nat, k \in 0 .. 2 :
          /\ m.free = F /\ m.next = N /\ IsStack(F, N) /\ k = Reused(m, 2) /\ k <= Len(F)
          /\ k = 2 \/ k = Len(F)
  BY ReusedRange, ZenonT(60) DEF IsMem
<1>2. allocPage(m, 2) = Taken(F, N, k, 2)
  BY <1>1, ZenonT(60) DEF allocPage, Taken
<1>3. /\ IsStack(F, N) /\ k <= Len(F)
      /\ k = 2 \/ k = Len(F)
  BY <1>1, ZenonT(60)
<1>4. \E x, y \in Nat : x # y /\ Taken(F, N, k, 2) = {x, y}
  BY <1>3, TwoTaken, ZenonT(60)
<1> QED
  BY <1>2, <1>4, ZenonT(60)

\* Pages that are freed are free once, as they were not free before.
LEMMA FreeIsOnce ==
    ASSUME NEW m, IsMem(m), NEW S \in SUBSET Nat, \A f \in S : f < m.next /\ ~OnStack(m, f),
           NEW a, a = freePage(m, S)
    PROVE  /\ IsMem(a) /\ a.next = m.next
           /\ \A f : OnStack(a, f) => OnStack(m, f) \/ f \in S
<1>0. PICK F \in Seq(Nat), N \in Nat : m.free = F /\ m.next = N /\ IsStack(F, N)
  BY ZenonT(60) DEF IsMem
<1>1. PICK n, s : /\ n \in Nat /\ s \in [1 .. n -> S] /\ s = Listing(S)
                  /\ \A i, j \in 1 .. n : s[i] = s[j] => i = j
  <2>1. IsFiniteSet(S)
    <3>1. IsFiniteSet(0 .. N)
      BY FS_Interval
    <3>2. S \subseteq 0 .. N
      BY <1>0
    <3> QED
      BY <3>1, <3>2, FS_Subset, ZenonT(60)
  <2>2. /\ Cardinality(S) \in Nat
        /\ \E f \in [1 .. Cardinality(S) -> S] : IsInjective(f)
    BY <2>1, FS_CardinalityType, ZenonT(60) DEF ExistsBijection, Bijection, Injection
  <2>3. Listing(S) \in [1 .. Cardinality(S) -> S] /\ IsInjective(Listing(S))
    BY <2>2, ZenonT(60) DEF Listing
  <2> QED
    BY <2>2, <2>3, ZenonT(60) DEF IsInjective
<1>l. s \in Seq(Nat) /\ Len(s) = n
  <2>1. s \in [1 .. n -> Nat]
    BY <1>1, ZenonT(60)
  <2> QED
    BY <1>1, <2>1
<1>2. \A i \in 1 .. Len(s) : s[i] \in S
  BY <1>1, <1>l, ZenonT(60)
<1>3. IsStack(s, N) /\ Apart(F, s)
  BY <1>0, <1>1, <1>l, <1>2, ZenonT(60) DEF IsStack, Apart, OnStack
<1>4. PICK k, t : /\ k \in 0 .. Len(F) + Len(s) /\ t = SubSeq(F \o s, 1, k)
                  /\ a = [m EXCEPT !.free = t]
  <2>1. Len(F \o s) = Len(F) + Len(s) /\ Len(F) + Len(s) \in Nat
    BY <1>l
  <2>2. Min({Len(F \o s), freeStackCap}) \in 0 .. Len(F) + Len(s)
    BY <2>1, PageAssumption, MinOfTwo, ZenonT(60)
  <2> QED
    BY <1>0, <1>1, <2>2, ZenonT(60) DEF freePage
<1>5. t \in Seq(Nat) /\ Parts(t, F, s)
  BY <1>l, <1>4, Joined, ZenonT(60)
<1>6. IsStack(t, N) /\ FromEither(t, F, s)
  <2>1. IsStack(F, N)
    BY <1>0, ZenonT(60)
  <2> QED
    BY <1>l, <1>3, <1>5, <2>1, Pushed, ZenonT(60)
<1>7. a = [free |-> a.free, next |-> a.next] /\ a.free = t /\ a.next = N
  BY <1>0, <1>4, ZenonT(60) DEF IsMem
<1>8. IsMem(a)
  BY <1>0, <1>5, <1>6, <1>7, ZenonT(60) DEF IsMem
<1> QED
  <2>1. \A f : OnStack(a, f) => \E i \in 1 .. Len(t) : f = t[i]
    BY <1>7, ZenonT(60) DEF OnStack
  <2>2. \A f : (\E j \in 1 .. Len(F) : f = F[j]) => OnStack(m, f)
    BY <1>0, ZenonT(60) DEF OnStack
  <2> QED
    BY <1>0, <1>2, <1>6, <1>7, <1>8, <2>1, <2>2 DEF FromEither

\* The two pages of an address space, which Min and Max name.
LEMMA MinAndMaxOfTwo ==
    ASSUME NEW m, IsMem(m), NEW n \in {0, 2}, allocPage(m, n) # {}
    PROVE  /\ Min(allocPage(m, n)) \in allocPage(m, n)
           /\ Max(allocPage(m, n)) \in allocPage(m, n)
           /\ Min(allocPage(m, n)) # Max(allocPage(m, n))
<1>1. n = 2
  <2>1. CASE n = 0
    <3>1. Reused(m, 0) = 0 /\ m.next \in Nat /\ Len(m.free) \in Nat
      BY ReusedRange DEF IsMem
    <3>2. allocPage(m, 0) = {}
      BY <3>1 DEF allocPage
    <3> QED
      BY <2>1, <3>2, ZenonT(60)
  <2> QED
    BY <2>1, ZenonT(60)
<1>2. PICK x, y \in Nat : x # y /\ allocPage(m, n) = {x, y}
  BY <1>1, TwoPages, ZenonT(60)
<1>3. Min({x, y}) \in {x, y} /\ \A w \in {x, y} : Min({x, y}) <= w
  <2>1. \E z \in {x, y} : \A w \in {x, y} : z <= w
    BY <1>2
  <2> QED
    BY <1>2, <2>1, ZenonT(60) DEF Min
<1>4. Max({x, y}) \in {x, y} /\ \A w \in {x, y} : Max({x, y}) >= w
  <2>1. \E z \in {x, y} : \A w \in {x, y} : z >= w
    BY <1>2
  <2> QED
    BY <1>2, <2>1, ZenonT(60) DEF Max
<1>5. Min({x, y}) # Max({x, y})
  BY <1>2, <1>3, <1>4
<1> QED
  BY <1>2, <1>3, <1>4, <1>5, ZenonT(60)
=============================================================================
