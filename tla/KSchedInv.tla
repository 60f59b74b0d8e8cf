----------------------------- MODULE KSchedInv ------------------------------
(***************************************************************************)
(* The inductive invariant of KSched with at most one AP online, what its  *)
(* parts say about ready queues and depth counters, that it holds          *)
(* initially and that entering Ring 3, yielding and waiting preserve it.   *)
(* KSchedEvents and KSchedProofs show that the other steps of the threads  *)
(* and of the dispatch loops preserve it, and what follows.                *)
(***************************************************************************)
EXTENDS KSched, TLAPS

\* The time a leaf is given.
USE SMTT(60), ZenonT(60)

\* At most one application processor is online.
SingleAP == \A c, d \in APs : c = d

Halting == {"closing", "exitA", "exitB", "exiting", "ipiyield"}
SafePoints == {"wrapper", "user", "exitA", "exitB", "exiting"}
InWait == {"wait", "parking", "parked"}

\* A CPU executes a thread exactly when the thread is at a position of
\* running code, and then the thread belongs to that CPU.
Exec ==
    /\ \A c \in CPUs : running[c] # NoThread =>
          /\ running[c] \in Slots
          /\ owner[running[c]] = c /\ pc[running[c]] \notin Resting
    /\ \A t \in Slots : owner[t] \in CPUs
    /\ \A t \in Slots : pc[t] \notin Resting => running[owner[t]] = t
    /\ \A t \in Slots : used[t] \/ pc[t] \in {"free", "dead"}

\* Which threads can be where.
Kind ==
    /\ \A t \in Slots :
          /\ pc[t] \in {"wrapper", "user", "sys", "panic", "closing", "exitA"} => hosted[t]
          /\ pc[t] \in {"run", "signal", "wake", "exitB", "exiting", "free", "dead"}
                => ~hosted[t]
          /\ pc[t] \in {"ipiyield", "preempted"} =>
                /\ intr[t] \in SafePoints
                /\ hosted[t] <=> intr[t] \in {"wrapper", "user", "exitA"}
          /\ pc[t] = "exitA" \/ (pc[t] \in {"ipiyield", "preempted"} /\ intr[t] = "exitA")
                => exitCPU[t] = owner[t]
          /\ pc[t] \in {"signal", "wake"} => t = Dispatcher
          /\ ~hosted[t] /\ pc[t] \in {"fresh", "run", "signal", "wake", "wait", "parking",
                                      "parked", "yielding", "yielded"}
                => owner[t] = BSP
    /\ ~hosted[Dispatcher]
    /\ pc[Dispatcher] \in {"fresh", "run", "signal", "wake", "yielding", "yielded"}

\* State, by position.
StateAt ==
    \A t \in Slots :
        /\ pc[t] \in {"wrapper", "user", "sys", "run", "wait", "signal", "wake",
                      "closing", "exitA", "exitB", "panic"} => state[t] = "Running"
        /\ pc[t] = "exiting" => state[t] \in {"Exiting", "Running"}
        /\ pc[t] \in {"fresh", "yielding", "yielded", "ipiyield", "preempted"}
              => state[t] = "Runnable"
        /\ pc[t] \in {"parking", "parked"} => state[t] \in {"Parked", "Runnable"}
        /\ pc[t] \in {"free", "dead"} => state[t] \notin {"Parked", "Runnable"}

\* A thread is runnable exactly when it is on the ready queue of its CPU and
\* tier, once.
Queued ==
    /\ \A c \in CPUs : NoRepeats(svcq[c]) /\ NoRepeats(ring3q[c])
    /\ \A c \in CPUs, t \in Slots :
          /\ Holds(svcq[c], t) <=> owner[t] = c /\ ~hosted[t] /\ state[t] = "Runnable"
          /\ Holds(ring3q[c], t) <=> owner[t] = c /\ hosted[t] /\ state[t] = "Runnable"

\* A parked thread is on its event's list or about to be woken, and its
\* event is pending or fired.
Waits ==
    /\ \A t \in linked : t \in Slots /\ state[t] = "Parked" /\ t \in armed \cup ready
    /\ waking # NoThread => /\ waking \in Slots
                            /\ state[waking] = "Parked" /\ waking \in fired
                            /\ waking \notin linked /\ waking \notin armed \cup ready
    /\ \A t \in Slots : state[t] = "Parked" =>
          pc[t] \in {"parking", "parked"} /\ (t \in linked \/ t = waking)
    /\ \A t \in armed \cup ready : t \in Slots /\ pc[t] \in InWait /\ t \notin fired
    /\ \A t \in Slots : pc[t] \in InWait => t \in armed \cup ready \cup fired
    /\ armed \cap ready = {}
    /\ waking # NoThread <=> pc[Dispatcher] = "wake"
    /\ ready # {} => pc[Dispatcher] \in {"signal", "wake"}

\* The ISR frames a thread has open, by position.
FramesAt ==
    \A t \in Slots :
        /\ pc[t] \in {"sys", "panic", "closing", "ipiyield", "preempted"} => frames[t] = 1
        /\ pc[t] \in {"wrapper", "user", "fresh", "free", "dead", "exitA", "exitB",
                      "exiting", "run", "signal", "wake"} => frames[t] = 0
        /\ pc[t] \in {"wait", "parking", "parked", "yielding", "yielded"}
              => frames[t] = IF hosted[t] THEN 1 ELSE 0

\* The threads that have an ISR frame counted on this CPU.
Owing(c) == {t \in Slots : owner[t] = c /\ frames[t] = 1}

DepthExact == \A c \in CPUs : depth[c] = Cardinality(Owing(c))

\* Until it exits, the boot shell belongs to the BSP, and once preemption is
\* on it has a frame open whenever it is not in Ring 3.  After it has exited
\* the BSP runs nothing else.
ShellHome ==
    /\ ~shellExited =>
          /\ hosted[Shell] /\ owner[Shell] = BSP /\ pc[Shell] \notin {"closing", "exitA"}
          /\ pc[Shell] \in {"ipiyield", "preempted"} => intr[Shell] # "exitA"
    /\ booted /\ ~shellExited =>
          /\ pc[Shell] \notin {"fresh", "wrapper"}
          /\ pc[Shell] \in {"ipiyield", "preempted"} => intr[Shell] = "user"
    /\ shellExited =>
          /\ loop[BSP] = "service"
          /\ running[BSP] = NoThread \/ pc[running[BSP]] \in Halting
    /\ running[BSP] # NoThread =>
          /\ running[BSP] \in Slots /\ owner[running[BSP]] = BSP
          /\ loop[BSP] = "ring3" => ~hosted[running[BSP]]
    /\ loop[BSP] \in {"service", "ring3"}

IInv == /\ TypeOK /\ Exec /\ Kind /\ StateAt /\ Queued /\ Waits /\ FramesAt
        /\ DepthExact /\ ShellHome

-----------------------------------------------------------------------------
(***************************************************************************)
(* What push and pop do to a ready queue.                                  *)
(***************************************************************************)
\* kschedPushLocked adds one thread at the tail and keeps the others.
LEMMA HoldsAppend ==
    ASSUME NEW q \in Seq(Slots), NEW t \in Slots, NEW x \in Slots
    PROVE  Holds(Append(q, t), x) <=> Holds(q, x) \/ x = t
<1> DEFINE r == Append(q, t)
<1>1. Len(r) = Len(q) + 1 /\ Len(q) \in Nat
  OBVIOUS
<1>2. \A i \in 1..Len(q) : r[i] = q[i]
  OBVIOUS
<1>3. r[Len(q) + 1] = t
  OBVIOUS
<1> HIDE DEF r
<1>4. \A i \in 1..Len(r) : i \in 1..Len(q) \/ i = Len(q) + 1
  BY <1>1
<1>5. \A i \in 1..Len(q) : i \in 1..Len(r)
  BY <1>1
<1>6. Len(q) + 1 \in 1..Len(r)
  BY <1>1
<1>7. Holds(r, x) <=> Holds(q, x) \/ x = t
  BY <1>2, <1>3, <1>4, <1>5, <1>6, ZenonT(60) DEF Holds
<1> QED
  BY <1>7, ZenonT(60) DEF r

\* A push of a thread that is not queued leaves a queue without repetitions.
LEMMA NoRepeatsAppend ==
    ASSUME NEW q \in Seq(Slots), NEW t \in Slots, NoRepeats(q), ~Holds(q, t)
    PROVE  NoRepeats(Append(q, t))
<1> DEFINE r == Append(q, t)
<1>1. Len(r) = Len(q) + 1 /\ Len(q) \in Nat
  OBVIOUS
<1>2. \A i \in 1..Len(q) : r[i] = q[i] /\ r[i] # t
  BY DEF Holds
<1>3. r[Len(q) + 1] = t
  OBVIOUS
<1> HIDE DEF r
<1>4. \A i \in 1..Len(r) : i \in 1..Len(q) \/ i = Len(q) + 1
  BY <1>1
<1>5. NoRepeats(r)
  BY <1>2, <1>3, <1>4, ZenonT(60) DEF NoRepeats
<1> QED
  BY <1>5, ZenonT(60) DEF r

\* kschedPopLocked takes the head, and only the head, off the queue.
LEMMA PopHead ==
    ASSUME NEW q \in Seq(Slots), q # <<>>, NoRepeats(q)
    PROVE  /\ Head(q) \in Slots /\ Tail(q) \in Seq(Slots)
           /\ Holds(q, Head(q))
           /\ NoRepeats(Tail(q))
           /\ \A x \in Slots : Holds(Tail(q), x) <=> Holds(q, x) /\ x # Head(q)
<1> DEFINE r == Tail(q)
           h == Head(q)
<1>1. Len(q) \in Nat /\ Len(q) >= 1 /\ Len(r) = Len(q) - 1 /\ h = q[1]
  OBVIOUS
<1>2. h \in Slots /\ r \in Seq(Slots)
  OBVIOUS
<1>3. \A i \in 1..Len(r) : r[i] = q[i + 1]
  OBVIOUS
<1> HIDE DEF r, h
<1>4. Holds(q, h)
  BY <1>1 DEF Holds
<1>5. NoRepeats(r)
  BY <1>1, <1>3 DEF NoRepeats
<1>6. ASSUME NEW x \in Slots
      PROVE  Holds(r, x) <=> Holds(q, x) /\ x # h
  <2>1. ASSUME Holds(r, x)
        PROVE  Holds(q, x) /\ x # h
    BY <2>1, <1>1, <1>3 DEF Holds, NoRepeats
  <2>2. ASSUME Holds(q, x), x # h
        PROVE  Holds(r, x)
    <3>1. PICK i \in 1..Len(q) : q[i] = x
      BY <2>2, ZenonT(60) DEF Holds
    <3>2. i - 1 \in 1..Len(r) /\ r[i - 1] = x
      BY <3>1, <2>2, <1>1, <1>3
    <3> QED
      BY <3>2, ZenonT(60) DEF Holds
  <2> QED
    BY <2>1, <2>2, ZenonT(60)
<1> QED
  BY <1>2, <1>4, <1>5, <1>6, ZenonT(60) DEF r, h

\* The empty queue and the queue of one thread.
LEMMA SmallQueues ==
    ASSUME NEW t \in Slots
    PROVE  /\ NoRepeats(<<>>) /\ NoRepeats(<<t>>)
           /\ \A x \in Slots : ~Holds(<<>>, x) /\ (Holds(<<t>>, x) <=> x = t)
BY DEF NoRepeats, Holds

\* kschedPush and kschedPushRing3 on a thread that is not on a ready queue.
LEMMA PushQueued ==
    ASSUME TypeOK, Queued, NEW t \in Slots, NEW c \in CPUs, NEW h \in BOOLEAN,
           state[t] # "Runnable", Push(t, c, h),
           hosted' \in [Slots -> BOOLEAN], hosted'[t] = h,
           \A x \in Slots \ {t} : hosted'[x] = hosted[x]
    PROVE  /\ Queued'
           /\ svcq' \in [CPUs -> Seq(Slots)] /\ ring3q' \in [CPUs -> Seq(Slots)]
           /\ state' = [state EXCEPT ![t] = "Runnable"]
           /\ owner' = [owner EXCEPT ![t] = c]
<1> DEFINE st == state' = [state EXCEPT ![t] = "Runnable"]
           ow == owner' = [owner EXCEPT ![t] = c]
<1>1. st /\ ow
  BY ZenonT(60) DEF Push
<1>2. \A d \in CPUs : ~Holds(svcq[d], t) /\ ~Holds(ring3q[d], t)
  BY ZenonT(60) DEF Queued
<1>3. ASSUME NEW d \in CPUs
      PROVE  svcq[d] \in Seq(Slots) /\ ring3q[d] \in Seq(Slots)
  BY ZenonT(60) DEF TypeOK
<1>4. CASE h
  <2>1. svcq' = svcq /\ ring3q' = [ring3q EXCEPT ![c] = Append(@, t)]
    BY <1>4, ZenonT(60) DEF Push
  <2>2. ring3q' \in [CPUs -> Seq(Slots)] /\ svcq' \in [CPUs -> Seq(Slots)]
    <3>1. Append(ring3q[c], t) \in Seq(Slots)
      BY <1>3
    <3> QED
      BY <2>1, <3>1, ZenonT(60) DEF TypeOK
  <2>3. \A d \in CPUs : ring3q'[d] = IF d = c THEN Append(ring3q[c], t) ELSE ring3q[d]
    BY <2>1, ZenonT(60) DEF TypeOK
  <2>4. \A d \in CPUs : NoRepeats(ring3q'[d])
    BY <2>3, <1>2, <1>3, NoRepeatsAppend DEF Queued
  <2>5. \A d \in CPUs, x \in Slots :
           Holds(ring3q'[d], x) <=> Holds(ring3q[d], x) \/ (d = c /\ x = t)
    BY <2>3, <1>3, HoldsAppend
  <2>a. \A x \in Slots : /\ owner'[x] = IF x = t THEN c ELSE owner[x]
                         /\ state'[x] = IF x = t THEN "Runnable" ELSE state[x]
    BY <1>1, ZenonT(60) DEF TypeOK
  <2>b. ASSUME NEW d \in CPUs, NEW x \in Slots
        PROVE  /\ Holds(svcq[d], x)' <=> owner'[x] = d /\ ~hosted'[x] /\ state'[x] = "Runnable"
               /\ Holds(ring3q[d], x)' <=> owner'[x] = d /\ hosted'[x] /\ state'[x] = "Runnable"
    <3>1. CASE x = t
      BY <1>4, <3>1, <1>2, <2>1, <2>5, <2>a
    <3>2. CASE x # t
      BY <3>2, <2>1, <2>5, <2>a DEF Queued
    <3> QED
      BY <3>1, <3>2, ZenonT(60)
  <2>6. Queued'
    BY <2>1, <2>4, <2>b, ZenonT(60) DEF Queued
  <2> QED
    BY <1>1, <2>2, <2>6, ZenonT(60)
<1>5. CASE ~h
  <2>1. ring3q' = ring3q /\ svcq' = [svcq EXCEPT ![c] = Append(@, t)]
    BY <1>5, ZenonT(60) DEF Push
  <2>2. ring3q' \in [CPUs -> Seq(Slots)] /\ svcq' \in [CPUs -> Seq(Slots)]
    <3>1. Append(svcq[c], t) \in Seq(Slots)
      BY <1>3
    <3> QED
      BY <2>1, <3>1, ZenonT(60) DEF TypeOK
  <2>3. \A d \in CPUs : svcq'[d] = IF d = c THEN Append(svcq[c], t) ELSE svcq[d]
    BY <2>1, ZenonT(60) DEF TypeOK
  <2>4. \A d \in CPUs : NoRepeats(svcq'[d])
    BY <2>3, <1>2, <1>3, NoRepeatsAppend DEF Queued
  <2>5. \A d \in CPUs, x \in Slots :
           Holds(svcq'[d], x) <=> Holds(svcq[d], x) \/ (d = c /\ x = t)
    BY <2>3, <1>3, HoldsAppend
  <2>a. \A x \in Slots : /\ owner'[x] = IF x = t THEN c ELSE owner[x]
                         /\ state'[x] = IF x = t THEN "Runnable" ELSE state[x]
    BY <1>1 DEF TypeOK
  <2>b. ASSUME NEW d \in CPUs, NEW x \in Slots
        PROVE  /\ Holds(svcq[d], x)' <=> owner'[x] = d /\ ~hosted'[x] /\ state'[x] = "Runnable"
               /\ Holds(ring3q[d], x)' <=> owner'[x] = d /\ hosted'[x] /\ state'[x] = "Runnable"
    <3>1. CASE x = t
      BY <1>5, <3>1, <1>2, <2>1, <2>5, <2>a
    <3>2. CASE x # t
      BY <3>2, <2>1, <2>5, <2>a DEF Queued
    <3> QED
      BY <3>1, <3>2
  <2>6. Queued'
    BY <2>1, <2>4, <2>b, ZenonT(60) DEF Queued
  <2> QED
    BY <1>1, <2>2, <2>6
<1> QED
  BY <1>4, <1>5, ZenonT(60)

\* kschedPop on the service tier, and the commit's write of state and owner.
LEMMA PopServiceQueued ==
    ASSUME TypeOK, Queued, NEW c \in CPUs, NEW t \in Slots,
           svcq[c] # <<>>, t = Head(svcq[c]),
           svcq' = [svcq EXCEPT ![c] = Tail(@)], ring3q' = ring3q,
           state' = [state EXCEPT ![t] = "Running"],
           owner' = [owner EXCEPT ![t] = c], hosted' = hosted
    PROVE  Queued' /\ svcq' \in [CPUs -> Seq(Slots)]
<1>1. svcq[c] \in Seq(Slots) /\ NoRepeats(svcq[c])
  BY ZenonT(60) DEF TypeOK, Queued
<1>2. /\ Tail(svcq[c]) \in Seq(Slots) /\ NoRepeats(Tail(svcq[c])) /\ Holds(svcq[c], t)
      /\ \A x \in Slots : Holds(Tail(svcq[c]), x) <=> Holds(svcq[c], x) /\ x # t
  BY <1>1, PopHead, ZenonT(60)
<1>3. svcq' \in [CPUs -> Seq(Slots)]
  BY <1>2, ZenonT(60) DEF TypeOK
<1>4. \A d \in CPUs : svcq'[d] = IF d = c THEN Tail(svcq[c]) ELSE svcq[d]
  BY ZenonT(60) DEF TypeOK
<1>5. owner[t] = c /\ ~hosted[t] /\ state[t] = "Runnable"
  BY <1>2, ZenonT(60) DEF Queued
<1>a. \A x \in Slots : /\ owner'[x] = owner[x] /\ hosted'[x] = hosted[x]
                       /\ state'[x] = IF x = t THEN "Running" ELSE state[x]
  BY <1>5, ZenonT(60) DEF TypeOK
<1>b. \A d \in CPUs : NoRepeats(svcq'[d]) /\ NoRepeats(ring3q'[d])
  BY <1>2, <1>4 DEF Queued
<1>6. Queued'
  BY <1>2, <1>4, <1>5, <1>a, <1>b DEF Queued
<1> QED
  BY <1>3, <1>6, ZenonT(60)

\* kschedPopRing3, likewise.
LEMMA PopRing3Queued ==
    ASSUME TypeOK, Queued, NEW c \in CPUs, NEW t \in Slots,
           ring3q[c] # <<>>, t = Head(ring3q[c]),
           ring3q' = [ring3q EXCEPT ![c] = Tail(@)], svcq' = svcq,
           state' = [state EXCEPT ![t] = "Running"],
           owner' = [owner EXCEPT ![t] = c], hosted' = hosted
    PROVE  Queued' /\ ring3q' \in [CPUs -> Seq(Slots)]
<1>1. ring3q[c] \in Seq(Slots) /\ NoRepeats(ring3q[c])
  BY ZenonT(60) DEF TypeOK, Queued
<1>2. /\ Tail(ring3q[c]) \in Seq(Slots) /\ NoRepeats(Tail(ring3q[c])) /\ Holds(ring3q[c], t)
      /\ \A x \in Slots : Holds(Tail(ring3q[c]), x) <=> Holds(ring3q[c], x) /\ x # t
  BY <1>1, PopHead
<1>3. ring3q' \in [CPUs -> Seq(Slots)]
  BY <1>2, ZenonT(60) DEF TypeOK
<1>4. \A d \in CPUs : ring3q'[d] = IF d = c THEN Tail(ring3q[c]) ELSE ring3q[d]
  BY ZenonT(60) DEF TypeOK
<1>5. owner[t] = c /\ hosted[t] /\ state[t] = "Runnable"
  BY <1>2, ZenonT(60) DEF Queued
<1>a. \A x \in Slots : /\ owner'[x] = owner[x] /\ hosted'[x] = hosted[x]
                       /\ state'[x] = IF x = t THEN "Running" ELSE state[x]
  BY <1>5, ZenonT(60) DEF TypeOK
<1>b. \A d \in CPUs : NoRepeats(svcq'[d]) /\ NoRepeats(ring3q'[d])
  BY <1>2, <1>4 DEF Queued
<1>6. Queued'
  BY <1>2, <1>4, <1>5, <1>a, <1>b DEF Queued
<1> QED
  BY <1>3, <1>6

-----------------------------------------------------------------------------
(***************************************************************************)
(* The depth counters count open frames.                                   *)
(***************************************************************************)
\* What the proofs use of the sizes of sets of threads.  KSchedProofs derives
\* it from the finiteness of the pool.
SlotCounting ==
    /\ Cardinality({}) = 0 /\ Cardinality(Slots) \in Nat
    /\ \A S \in SUBSET Slots :
          /\ Cardinality(S) \in Nat /\ Cardinality(S) <= Cardinality(Slots)
          /\ Cardinality(S) = 0 => S = {}
          /\ \A t \in Slots \ S : Cardinality(S \cup {t}) = Cardinality(S) + 1
          /\ \A t \in S : Cardinality(S \ {t}) = Cardinality(S) - 1

\* Owing(c) is never larger than the pool.
LEMMA OwingFinite ==
    ASSUME SlotCounting, NEW c \in CPUs
    PROVE  /\ Owing(c) \in SUBSET Slots
           /\ Cardinality(Owing(c)) \in Nat
           /\ Cardinality(Owing(c)) <= Cardinality(Slots)
           /\ Cardinality(Slots) \in Nat
<1>1. Owing(c) \in SUBSET Slots
  BY ZenonT(60) DEF Owing
<1> QED
  BY <1>1, ZenonT(60) DEF SlotCounting

\* A step that opens and closes no frame and moves no thread that has one
\* open leaves every count as it was.
LEMMA OweSame ==
    ASSUME \A t \in Slots : frames'[t] = frames[t] /\ (frames[t] = 1 => owner'[t] = owner[t])
    PROVE  \A c \in CPUs : Owing(c)' = Owing(c)
BY ZenonT(60) DEF Owing

\* Entering the kernel opens a frame on the thread's CPU and on no other.
LEMMA OweMore ==
    ASSUME SlotCounting, NEW c \in CPUs, NEW t \in Slots, frames[t] = 0, frames'[t] = 1,
           owner[t] = c, owner' = owner, \A x \in Slots \ {t} : frames'[x] = frames[x]
    PROVE  /\ Cardinality(Owing(c)') = Cardinality(Owing(c)) + 1
           /\ \A d \in CPUs \ {c} : Owing(d)' = Owing(d)
<1>1. Owing(c)' = Owing(c) \cup {t} /\ t \notin Owing(c)
  BY DEF Owing
<1>2. \A d \in CPUs \ {c} : Owing(d)' = Owing(d)
  BY ZenonT(60) DEF Owing
<1>3. Cardinality(Owing(c) \cup {t}) = Cardinality(Owing(c)) + 1
  BY <1>1, OwingFinite, ZenonT(60) DEF SlotCounting
<1> QED
  BY <1>1, <1>2, <1>3, ZenonT(60)

\* Leaving it, or abandoning the frame in processExit, takes one away.
LEMMA OweLess ==
    ASSUME SlotCounting, NEW c \in CPUs, NEW t \in Slots, frames[t] = 1, frames'[t] = 0,
           owner[t] = c, owner' = owner, \A x \in Slots \ {t} : frames'[x] = frames[x]
    PROVE  /\ Cardinality(Owing(c)) > 0
           /\ Cardinality(Owing(c)') = Cardinality(Owing(c)) - 1
           /\ \A d \in CPUs \ {c} : Owing(d)' = Owing(d)
<1>1. Owing(c)' = Owing(c) \ {t} /\ t \in Owing(c)
  BY DEF Owing
<1>2. \A d \in CPUs \ {c} : Owing(d)' = Owing(d)
  BY ZenonT(60) DEF Owing
<1>3. Cardinality(Owing(c) \ {t}) = Cardinality(Owing(c)) - 1
  BY <1>1, OwingFinite, ZenonT(60) DEF SlotCounting
<1>4. Cardinality(Owing(c)) > 0
  BY <1>1, OwingFinite DEF SlotCounting
<1> QED
  BY <1>1, <1>2, <1>3, <1>4, ZenonT(60)

\* With the counts exact, no increment wraps around, and a CPU whose next
\* increment gives at most 1 has no frame open.
LEMMA DepthSmall ==
    ASSUME SlotCounting, DepthExact, NEW c \in CPUs
    PROVE  /\ depth[c] \in Nat /\ depth[c] + 1 \in 0..(DepthMod - 1)
           /\ Inc(depth[c]) = depth[c] + 1
           /\ depth[c] > 0 => Dec(depth[c]) = depth[c] - 1
           /\ Inc(depth[c]) <= 1 => Owing(c) = {}
<1>1. depth[c] = Cardinality(Owing(c))
  BY ZenonT(60) DEF DepthExact
<1>2. depth[c] \in Nat /\ Cardinality(Slots) \in Nat /\ depth[c] <= Cardinality(Slots)
  BY <1>1, OwingFinite, ZenonT(60)
<1>3. DepthMod \in Nat /\ Cardinality(Slots) + 2 < DepthMod
  BY BoundAssumption, ZenonT(60)
<1>4. depth[c] + 1 < DepthMod - 1
  BY <1>2, <1>3
<1>5. Inc(depth[c]) = depth[c] + 1
  BY <1>2, <1>3, <1>4 DEF Inc
<1>6. depth[c] > 0 => Dec(depth[c]) = depth[c] - 1
  BY <1>2 DEF Dec
<1>7. ASSUME Inc(depth[c]) <= 1 PROVE Owing(c) = {}
  <2>1. depth[c] = 0
    BY <1>2, <1>5, <1>7
  <2> QED
    BY <1>1, <2>1, OwingFinite, ZenonT(60) DEF SlotCounting
<1> QED
  BY <1>2, <1>3, <1>4, <1>5, <1>6, <1>7

-----------------------------------------------------------------------------
(***************************************************************************)
(* The initial state, then one lemma per action.                           *)
(***************************************************************************)
\* The shell and the dispatcher are two threads, and nil is none.
LEMMA Consts ==
    /\ Dispatcher \in Slots /\ Shell \in Slots /\ Dispatcher # Shell
    /\ NoThread \notin Slots /\ BSP \in CPUs
BY CPUAssumption, SlotAssumption DEF Services

\* The ranges the steps below need of the type invariant and the constants.
LEMMA Ranges ==
    ASSUME IInv
    PROVE  /\ \A d \in CPUs : running[d] \in Slots \/ running[d] = NoThread
           /\ \A x \in Slots : owner[x] \in CPUs /\ exitCPU[x] \in CPUs
           /\ armed \subseteq Slots /\ ready \subseteq Slots
           /\ fired \subseteq Slots /\ linked \subseteq Slots
           /\ waking \in Slots \/ waking = NoThread
           /\ Dispatcher \in Slots /\ Shell \in Slots /\ NoThread \notin Slots
           /\ BSP \in CPUs /\ Dispatcher # Shell
BY CPUAssumption, SlotAssumption DEF IInv, TypeOK, Services

\* The state main() leaves behind when it enters the pump satisfies IInv.
LEMMA InitIInv ==
    ASSUME SlotCounting, Init
    PROVE  IInv
<1> USE CPUAssumption, SlotAssumption, BoundAssumption
<1>0. Services \subseteq Slots /\ Dispatcher \in Slots /\ Shell \in Slots /\ Dispatcher # Shell
  BY DEF Services
<1>1. TypeOK
  <2>1. BootServices \in Seq(Slots) /\ <<Shell>> \in Seq(Slots) /\ <<>> \in Seq(Slots)
    BY <1>0
  <2>2. svcq \in [CPUs -> Seq(Slots)] /\ ring3q \in [CPUs -> Seq(Slots)]
    BY <2>1, ZenonT(60) DEF Init
  <2>3. depth \in [CPUs -> 0..(DepthMod - 1)] /\ frames \in [Slots -> Nat]
    BY OwingFinite DEF Init
  <2> QED
    BY <1>0, <2>2, <2>3, ZenonT(60) DEF Init, TypeOK, States, Positions, Resting
<1>2. Exec
  BY ZenonT(60) DEF Init, Exec, Resting
<1>3. Kind
  BY <1>0, ZenonT(60) DEF Init, Kind
<1>4. StateAt
  BY ZenonT(60) DEF Init, StateAt
<1>5. Queued
  <2>1. \A c \in CPUs : NoRepeats(svcq[c]) /\ NoRepeats(ring3q[c])
    BY <1>0, SmallQueues DEF Init, NoRepeats
  <2>2. ASSUME NEW c \in CPUs, NEW t \in Slots
        PROVE  /\ Holds(svcq[c], t) <=> c = BSP /\ t \in Services
               /\ Holds(ring3q[c], t) <=> c = BSP /\ t = Shell
    BY <1>0, SmallQueues DEF Init, Holds, Services
  <2> QED
    BY <1>0, <2>1, <2>2, ZenonT(60) DEF Init, Queued
<1>6. Waits
  BY <1>0, ZenonT(60) DEF Init, Waits, InWait
<1>7. FramesAt
  BY ZenonT(60) DEF Init, FramesAt
<1>8. DepthExact
  <2>1. \A c \in CPUs : Owing(c) = {}
    BY DEF Init, Owing
  <2> QED
    BY <2>1, ZenonT(60) DEF Init, DepthExact, SlotCounting
<1>9. ShellHome
  BY <1>0, ZenonT(60) DEF Init, ShellHome
<1> QED
  BY <1>1, <1>2, <1>3, <1>4, <1>5, <1>6, <1>7, <1>8, <1>9, ZenonT(60) DEF IInv

-----------------------------------------------------------------------------
\* kschedYield from a syscall or a service thread.
LEMMA YieldIInv ==
    ASSUME IInv, NEW c \in CPUs, Yield(c)
    PROVE  IInv'
<1>1. PICK t \in Slots :
        /\ running[c] = t /\ pc[t] = Base(t) /\ t # Dispatcher
        /\ Push(t, c, hosted[t])
        /\ pc' = [pc EXCEPT ![t] = "yielding"]
        /\ UNCHANGED <<used, hosted, intr, frames, exitCPU, cpuVars, timerVars,
                       bootVars>>
  BY ZenonT(60) DEF Yield, At
<1>t. state \in [Slots -> States] /\ owner \in [Slots -> CPUs] /\
         pc \in [Slots -> Positions] /\ svcq \in [CPUs -> Seq(Slots)] /\
         ring3q \in [CPUs -> Seq(Slots)]
  BY ZenonT(60) DEF IInv, TypeOK
<1>2. /\ \A x \in Slots : pc'[x] = IF x = t THEN "yielding" ELSE pc[x]
      /\ used' = used /\ hosted' = hosted /\ intr' = intr /\ frames' = frames /\
         exitCPU' = exitCPU /\ running' = running /\ loop' = loop /\
         depth' = depth /\ armed' = armed /\ ready' = ready /\ fired' = fired /\
         linked' = linked /\ waking' = waking /\ booted' = booted /\
         shellExited' = shellExited
  BY <1>t, <1>1, ZenonT(60) DEF cpuVars, timerVars, bootVars
<1>3. /\ Dispatcher \in Slots /\ Shell \in Slots /\ Dispatcher # Shell
      /\ NoThread \notin Slots /\ BSP \in CPUs
      /\ owner[t] = c /\ t # NoThread /\ running[c] = t /\ t # Dispatcher
      /\ pc[t] = (IF hosted[t] THEN "sys" ELSE "run") /\ state[t] = "Running"
  BY <1>1, Consts, ZenonT(60) DEF IInv, Exec, Base, StateAt, Kind, FramesAt
<1>4. /\ Queued' /\ svcq' \in [CPUs -> Seq(Slots)] /\ ring3q' \in [CPUs -> Seq(Slots)]
      /\ state' = [state EXCEPT ![t] = "Runnable"] /\ owner' = [owner EXCEPT ![t] = c]
  <2>1. hosted[t] \in BOOLEAN /\ hosted' \in [Slots -> BOOLEAN]
    BY <1>2, ZenonT(60) DEF IInv, TypeOK
  <2> QED
    BY <1>1, <1>2, <1>3, <2>1, PushQueued DEF IInv
<1>5. /\ \A x \in Slots : state'[x] = IF x = t THEN "Runnable" ELSE state[x]
      /\ owner' = owner
  BY <1>3, <1>4, ZenonT(60) DEF IInv, TypeOK
<1>10. TypeOK'
  <2>1. /\ state' \in [Slots -> States]
        /\ owner' \in [Slots -> CPUs]
        /\ pc' \in [Slots -> Positions]
        /\ svcq' \in [CPUs -> Seq(Slots)]
        /\ ring3q' \in [CPUs -> Seq(Slots)]
    BY <1>t, <1>4, <1>3, <1>1, ZenonT(60) DEF States, Positions, Interruptible, Resting
  <2> QED
    BY <1>2, <2>1, ZenonT(60) DEF IInv, TypeOK
<1>11. Queued'
  BY <1>4, ZenonT(60)
<1> USE <1>2, <1>3, <1>5
<1>12. DepthExact'
  <2>1. \A d \in CPUs : Owing(d)' = Owing(d)
    BY OweSame, ZenonT(60)
  <2>2. depth' = depth /\ DepthExact
    BY ZenonT(60) DEF IInv
  <2> QED
    BY ONLY <2>1, <2>2, ZenonT(60) DEF DepthExact
<1>13. Exec'
  BY DEF IInv, Exec, Resting
<1>14. Kind'
  BY DEF IInv, Kind, SafePoints
<1>15. StateAt'
  BY DEF IInv, StateAt
<1>16. Waits'
  BY DEF IInv, Waits, InWait
<1>17. FramesAt'
  BY DEF IInv, FramesAt, Kind
<1>18. ShellHome'
  BY DEF IInv, ShellHome, Halting
<1> QED
  BY <1>10, <1>11, <1>12, <1>13, <1>14, <1>15, <1>16, <1>17, <1>18, ZenonT(60) DEF IInv

\* jumpToRing3.
LEMMA EnterRing3IInv ==
    ASSUME IInv, NEW c \in CPUs, EnterRing3(c)
    PROVE  IInv'
<1>1. PICK t \in Slots :
        /\ running[c] = t /\ pc[t] = "wrapper"
        /\ pc' = [pc EXCEPT ![t] = "user"]
        /\ UNCHANGED <<used, state, owner, hosted, intr, frames, exitCPU,
                       queueVars, cpuVars, timerVars, bootVars>>
  BY ZenonT(60) DEF EnterRing3, At
<1>t. pc \in [Slots -> Positions]
  BY ZenonT(60) DEF IInv, TypeOK
<1>2. /\ \A x \in Slots : pc'[x] = IF x = t THEN "user" ELSE pc[x]
      /\ used' = used /\ state' = state /\ owner' = owner /\ hosted' = hosted /\
         intr' = intr /\ frames' = frames /\ exitCPU' = exitCPU /\
         svcq' = svcq /\ ring3q' = ring3q /\ running' = running /\
         loop' = loop /\ depth' = depth /\ armed' = armed /\ ready' = ready /\
         fired' = fired /\ linked' = linked /\ waking' = waking /\
         booted' = booted /\ shellExited' = shellExited
  BY <1>t, <1>1, ZenonT(60) DEF queueVars, cpuVars, timerVars, bootVars
<1>3. /\ Dispatcher \in Slots /\ Shell \in Slots /\ Dispatcher # Shell
      /\ NoThread \notin Slots /\ BSP \in CPUs
      /\ owner[t] = c /\ t # NoThread /\ running[c] = t
      /\ pc[t] = "wrapper" /\ t # Dispatcher
  BY <1>1, Consts, ZenonT(60) DEF IInv, Exec, Kind
<1>10. TypeOK'
  <2>1. pc' \in [Slots -> Positions]
    BY <1>t, <1>1, ZenonT(60) DEF Positions, Interruptible, Resting
  <2> QED
    BY <1>2, <2>1, ZenonT(60) DEF IInv, TypeOK
<1> USE <1>2, <1>3
<1>11. DepthExact'
  BY OweSame, ZenonT(60) DEF IInv, DepthExact
<1>12. Exec'
  BY DEF IInv, Exec, Resting
<1>13. Kind'
  BY DEF IInv, Kind, SafePoints
<1>14. StateAt'
  BY ZenonT(60) DEF IInv, StateAt
<1>15. Queued'
  BY ZenonT(60) DEF IInv, Queued
<1>16. Waits'
  BY ZenonT(60) DEF IInv, Waits, InWait
<1>17. FramesAt'
  BY ZenonT(60) DEF IInv, FramesAt, Kind
<1>18. ShellHome'
  BY DEF IInv, ShellHome, Halting
<1> QED
  BY <1>10, <1>11, <1>12, <1>13, <1>14, <1>15, <1>16, <1>17, <1>18, ZenonT(60) DEF IInv

-----------------------------------------------------------------------------
(***************************************************************************)
(* kschedTimedPark and KEvent.Wait: one lemma per action, one step per     *)
(* part of the invariant.                                                  *)
(***************************************************************************)
\* kschedTimedPark's registration.
LEMMA TimedParkIInv ==
    ASSUME IInv, NEW c \in CPUs, TimedPark(c)
    PROVE  IInv'
<1>1. PICK t \in Slots :
        /\ running[c] = t /\ pc[t] = Base(t) /\ t # Dispatcher
        /\ armed' = armed \cup {t}
        /\ fired' = fired \ {t}
        /\ pc' = [pc EXCEPT ![t] = "wait"]
        /\ UNCHANGED <<used, state, owner, hosted, intr, frames, exitCPU,
                       queueVars, cpuVars, ready, linked, waking, bootVars>>
  BY ZenonT(60) DEF TimedPark, At
<1>t. pc \in [Slots -> Positions]
  BY ZenonT(60) DEF IInv, TypeOK
<1>2. /\ \A x \in Slots : pc'[x] = IF x = t THEN "wait" ELSE pc[x]
      /\ used' = used /\ state' = state /\ owner' = owner /\ hosted' = hosted /\
         intr' = intr /\ frames' = frames /\ exitCPU' = exitCPU /\
         svcq' = svcq /\ ring3q' = ring3q /\ running' = running /\
         loop' = loop /\ depth' = depth /\ ready' = ready /\ linked' = linked /\
         waking' = waking /\ booted' = booted /\ shellExited' = shellExited
  BY <1>t, <1>1, ZenonT(60) DEF queueVars, cpuVars, bootVars
<1>3. /\ Dispatcher \in Slots /\ Shell \in Slots /\ Dispatcher # Shell
      /\ NoThread \notin Slots /\ BSP \in CPUs
      /\ owner[t] = c /\ t # NoThread /\ running[c] = t /\ t # Dispatcher
      /\ pc[t] = (IF hosted[t] THEN "sys" ELSE "run") /\ state[t] = "Running"
      /\ armed' = armed \cup {t} /\ fired' = fired \ {t}
  BY <1>1, Consts, ZenonT(60) DEF IInv, Exec, Base, StateAt, Kind, FramesAt
<1>10. TypeOK'
  <2>1. /\ pc' \in [Slots -> Positions]
        /\ armed' \subseteq Slots
        /\ fired' \subseteq Slots
    BY <1>t, <1>1, <1>3, Ranges, ZenonT(60) DEF Positions, Interruptible, Resting
  <2> QED
    BY <1>2, <2>1, ZenonT(60) DEF IInv, TypeOK
<1> USE <1>2, <1>3
<1>11. DepthExact'
  BY OweSame, ZenonT(60) DEF IInv, DepthExact
<1>12. Exec'
  BY DEF IInv, Exec, Resting
<1>13. Kind'
  BY DEF IInv, Kind, SafePoints
<1>14. StateAt'
  BY ZenonT(60) DEF IInv, StateAt
<1>15. Queued'
  BY ZenonT(60) DEF IInv, Queued
<1>16. Waits'
  BY DEF IInv, Waits, InWait
<1>17. FramesAt'
  BY DEF IInv, FramesAt, Kind
<1>18. ShellHome'
  BY DEF IInv, ShellHome, Halting
<1> QED
  BY <1>10, <1>11, <1>12, <1>13, <1>14, <1>15, <1>16, <1>17, <1>18, ZenonT(60) DEF IInv

\* KEvent.Wait returns.
LEMMA WaitReturnIInv ==
    ASSUME IInv, NEW c \in CPUs, NEW t \in Slots, At(c, t, "wait"), t \in fired, WaitRound(c)
    PROVE  IInv'
<1>1. /\ running[c] = t /\ pc[t] = "wait"
      /\ pc' = [pc EXCEPT ![t] = Base(t)]
      /\ fired' = fired \ {t}
      /\ UNCHANGED <<exitCPU, used, state, owner, hosted, intr, frames, queueVars, cpuVars,
                     armed, ready, linked, waking, bootVars>>
  BY ZenonT(60) DEF WaitRound, FlagSet, At
<1>t. pc \in [Slots -> Positions]
  BY ZenonT(60) DEF IInv, TypeOK
<1>2. /\ \A x \in Slots : pc'[x] = IF x = t THEN Base(t) ELSE pc[x]
      /\ used' = used /\ state' = state /\ owner' = owner /\ hosted' = hosted /\
         intr' = intr /\ frames' = frames /\ exitCPU' = exitCPU /\
         svcq' = svcq /\ ring3q' = ring3q /\ running' = running /\
         loop' = loop /\ depth' = depth /\ armed' = armed /\ ready' = ready /\
         fired' = fired \ {t} /\ linked' = linked /\ waking' = waking /\
         booted' = booted /\ shellExited' = shellExited
  BY <1>t, <1>1, ZenonT(60) DEF queueVars, cpuVars, bootVars
<1>3. /\ Dispatcher \in Slots /\ Shell \in Slots /\ Dispatcher # Shell
      /\ NoThread \notin Slots /\ BSP \in CPUs
      /\ owner[t] = c /\ t # NoThread /\ running[c] = t /\ t # Dispatcher
      /\ pc[t] = "wait" /\ t \notin armed \cup ready /\ waking # t
      /\ Base(t) = (IF hosted[t] THEN "sys" ELSE "run")
  <2>1. owner[t] = c /\ t # NoThread /\ running[c] = t /\ pc[t] = "wait"
    BY <1>1, Consts DEF IInv, Exec
  <2>2. t # Dispatcher
    BY <2>1, ZenonT(60) DEF IInv, Kind
  <2>3. t \notin armed \cup ready
    BY <1>1, ZenonT(60) DEF IInv, Waits
  <2>5. waking # t
    <3>1. state[t] # "Parked"
      BY <2>1 DEF IInv, StateAt
    <3> QED
      BY <3>1, <2>1, ZenonT(60) DEF IInv, Waits
  <2>4. Base(t) = (IF hosted[t] THEN "sys" ELSE "run")
    BY <2>1 DEF IInv, FramesAt, Base
  <2> QED
    BY <2>1, <2>2, <2>3, <2>4, <2>5, Consts, ZenonT(60)
<1>10. TypeOK'
  <2>1. pc' \in [Slots -> Positions]
    BY <1>t, <1>1, <1>3, ZenonT(60) DEF Positions, Interruptible
  <2> QED
    BY <1>2, <2>1, ZenonT(60) DEF IInv, TypeOK
<1> USE <1>2, <1>3
<1>11. DepthExact'
  BY OweSame, ZenonT(60) DEF IInv, DepthExact
<1>12. Exec'
  BY DEF IInv, Exec, Resting
<1>13. Kind'
  BY DEF IInv, Kind, SafePoints
<1>14. StateAt'
  BY ZenonT(60) DEF IInv, StateAt
<1>15. Queued'
  BY ZenonT(60) DEF IInv, Queued
<1>16. Waits'
  BY ZenonT(60) DEF IInv, Waits, InWait
<1>17. FramesAt'
  BY DEF IInv, FramesAt, Kind
<1>18. ShellHome'
  BY DEF IInv, ShellHome, Halting
<1> QED
  BY <1>10, <1>11, <1>12, <1>13, <1>14, <1>15, <1>16, <1>17, <1>18, ZenonT(60) DEF IInv

\* KEvent.Wait links the thread and marks it parked.
LEMMA WaitParkIInv ==
    ASSUME IInv, NEW c \in CPUs, NEW t \in Slots, At(c, t, "wait"), t \notin fired, WaitRound(c)
    PROVE  IInv'
<1>1. /\ running[c] = t /\ pc[t] = "wait"
      /\ pc' = [pc EXCEPT ![t] = "parking"]
      /\ state' = [state EXCEPT ![t] = "Parked"]
      /\ linked' = linked \cup {t}
      /\ UNCHANGED <<used, owner, hosted, intr, frames, exitCPU, queueVars,
                     cpuVars, armed, ready, fired, waking, bootVars>>
  BY ZenonT(60) DEF WaitRound, FlagSet, At
<1>t. state \in [Slots -> States] /\ pc \in [Slots -> Positions]
  BY ZenonT(60) DEF IInv, TypeOK
<1>2. /\ \A x \in Slots : pc'[x] = IF x = t THEN "parking" ELSE pc[x]
      /\ \A x \in Slots : state'[x] = IF x = t THEN "Parked" ELSE state[x]
      /\ used' = used /\ owner' = owner /\ hosted' = hosted /\ intr' = intr /\
         frames' = frames /\ exitCPU' = exitCPU /\ svcq' = svcq /\
         ring3q' = ring3q /\ running' = running /\ loop' = loop /\
         depth' = depth /\ armed' = armed /\ ready' = ready /\ fired' = fired /\
         waking' = waking /\ booted' = booted /\ shellExited' = shellExited
  BY <1>t, <1>1, ZenonT(60) DEF queueVars, cpuVars, bootVars
<1>3. /\ Dispatcher \in Slots /\ Shell \in Slots /\ Dispatcher # Shell
      /\ NoThread \notin Slots /\ BSP \in CPUs
      /\ owner[t] = c /\ t # NoThread /\ running[c] = t /\ t # Dispatcher
      /\ pc[t] = "wait" /\ state[t] = "Running" /\ t \in armed \cup ready
      /\ t \notin linked /\ t # waking /\ linked' = linked \cup {t}
  <2>1. owner[t] = c /\ t # NoThread /\ running[c] = t /\ pc[t] = "wait"
    BY <1>1, Consts DEF IInv, Exec
  <2>2. t # Dispatcher
    BY <2>1, ZenonT(60) DEF IInv, Kind
  <2>3. state[t] = "Running"
    BY <2>1, ZenonT(60) DEF IInv, StateAt
  <2>4. t \in armed \cup ready /\ t \notin linked /\ t # waking
    BY <1>1, <2>1, <2>3, ZenonT(60) DEF IInv, Waits, InWait
  <2> QED
    BY <1>1, <2>1, <2>2, <2>3, <2>4, Consts, ZenonT(60)
<1>10. TypeOK'
  <2>1. /\ state' \in [Slots -> States]
        /\ pc' \in [Slots -> Positions]
        /\ linked' \subseteq Slots
    BY <1>t, <1>1, <1>3, Ranges, ZenonT(60) DEF States, Positions, Interruptible, Resting
  <2> QED
    BY <1>2, <2>1, ZenonT(60) DEF IInv, TypeOK
<1> USE <1>2, <1>3
<1>11. DepthExact'
  <2>1. \A d \in CPUs : Owing(d)' = Owing(d)
    BY OweSame, ZenonT(60)
  <2>2. depth' = depth /\ DepthExact
    BY ZenonT(60) DEF IInv
  <2> QED
    BY ONLY <2>1, <2>2, ZenonT(60) DEF DepthExact
<1>12. Exec'
  BY DEF IInv, Exec, Resting
<1>13. Kind'
  BY DEF IInv, Kind, SafePoints
<1>14. StateAt'
  BY DEF IInv, StateAt
<1>15. Queued'
  BY DEF IInv, Queued
<1>16. Waits'
  BY DEF IInv, Waits, InWait
<1>17. FramesAt'
  BY DEF IInv, FramesAt, Kind
<1>18. ShellHome'
  BY DEF IInv, ShellHome, Halting
<1> QED
  BY <1>10, <1>11, <1>12, <1>13, <1>14, <1>15, <1>16, <1>17, <1>18, ZenonT(60) DEF IInv
=============================================================================
