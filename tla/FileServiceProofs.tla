-------------------------- MODULE FileServiceProofs --------------------------
(***************************************************************************)
(* The request queue of the file service, for any number of processes and   *)
(* any capacity: the ring of kthread_queue.go implements a bounded FIFO,    *)
(* and a request is in one place at a time.                                 *)
(***************************************************************************)
EXTENDS FileService, SequenceTheorems, FiniteSetTheorems, TLAPS

\* The time a leaf is given.
USE SMTT(60), ZenonT(60)

-----------------------------------------------------------------------------
(***************************************************************************)
(* Indices.                                                                 *)
(***************************************************************************)
\* A position counted from an index of the ring, at most once round it.
LEMMA Wraps ==
    ASSUME NEW c \in Nat \ {0}, NEW i \in 0..(c - 1), NEW k \in 0..c
    PROVE  (i + k) % c = IF i + k < c THEN i + k ELSE i + k - c
<1>1. CASE i + k < c
  BY <1>1
<1>2. CASE ~(i + k < c)
  BY <1>2
<1> QED
  BY <1>1, <1>2, ZenonT(60)

\* The index after i stays in the ring.
LEMMA AfterIndex ==
    ASSUME NEW i \in 0..(Cap - 1)
    PROVE  /\ After(i) = IF i + 1 < Cap THEN i + 1 ELSE 0
           /\ After(i) \in 0..(Cap - 1)
<1>1. Cap \in Nat \ {0} /\ 1 \in 0..Cap
  BY CapAssumption
<1>2. (i + 1) % Cap = IF i + 1 < Cap THEN i + 1 ELSE i + 1 - Cap
  BY <1>1, Wraps, ZenonT(60)
<1> QED
  BY <1>1, <1>2 DEF After

-----------------------------------------------------------------------------
(***************************************************************************)
(* The shape of the ring.                                                   *)
(***************************************************************************)
\* The indices are in the ring and count is the distance between them.
RingShape ==
    /\ head \in 0..(Cap - 1) /\ tail \in 0..(Cap - 1) /\ count \in 0..Cap
    /\ tail = IF head + count < Cap THEN head + count ELSE head + count - Cap
    /\ ring \in [0..(Cap - 1) -> Procs \cup {NoValue}]

\* Where the k-th entry from index h is.
Place(h, k) == IF h + k - 1 < Cap THEN h + k - 1 ELSE h + k - 1 - Cap

\* n entries of a ring from h on are a sequence.
LEMMA Window ==
    ASSUME NEW h \in 0..(Cap - 1), NEW n \in 0..Cap, NEW S,
           NEW r \in [0..(Cap - 1) -> S]
    PROVE  LET w == [k \in 1..n |-> r[(h + k - 1) % Cap]] IN
           /\ w \in Seq(S) /\ Len(w) = n
           /\ \A k \in 1..n : w[k] = r[Place(h, k)]
<1> DEFINE w == [k \in 1..n |-> r[(h + k - 1) % Cap]]
<1>1. Cap \in Nat \ {0} /\ n \in Nat
  BY CapAssumption
<1>2. ASSUME NEW k \in 1..n
      PROVE  (h + k - 1) % Cap = Place(h, k) /\ Place(h, k) \in 0..(Cap - 1)
  <2>1. (h + (k - 1)) % Cap
           = IF h + (k - 1) < Cap THEN h + (k - 1) ELSE h + (k - 1) - Cap
    <3>1. k - 1 \in 0..Cap
      BY <1>1
    <3> QED
      BY <1>1, <3>1, Wraps, ZenonT(60)
  <2> QED
    BY <1>1, <2>1 DEF Place
<1>3. \A k \in 1..n : w[k] = r[Place(h, k)] /\ w[k] \in S
  BY <1>2, ZenonT(60)
<1>4. w \in [1..n -> S]
  BY <1>3, ZenonT(60)
<1>5. w \in Seq(S) /\ Len(w) = n
  BY <1>1, <1>4
<1> QED
  BY <1>3, <1>5, ZenonT(60)

\* The entries, oldest first.
LEMMA ContentsAt ==
    ASSUME RingShape
    PROVE  /\ Contents \in Seq(Procs \cup {NoValue}) /\ Len(Contents) = count
           /\ \A k \in 1..count : Contents[k] = ring[Place(head, k)]
  BY Window, ZenonT(60) DEF Contents, RingShape

\* The same after a step.
LEMMA ContentsAfter ==
    ASSUME RingShape'
    PROVE  /\ Contents' \in Seq(Procs \cup {NoValue}) /\ Len(Contents') = count'
           /\ \A k \in 1..count' : Contents'[k] = ring'[Place(head', k)]
  BY Window, ZenonT(60) DEF Contents, RingShape

\* Push with room adds v at the end.
LEMMA EnqueueAppends ==
    ASSUME RingShape, NEW t, NEW v \in Procs, Enqueue(t, v)
    PROVE  RingShape' /\ Contents' = Append(Contents, v) /\ Len(Contents) < Cap
<1>1. /\ ring' = [ring EXCEPT ![tail] = v] /\ tail' = After(tail)
      /\ count' = count + 1 /\ head' = head /\ count < Cap
  BY ZenonT(60) DEF Enqueue, Room
<1>2. Cap \in Nat \ {0}
  BY CapAssumption, ZenonT(60)
<1>3. RingShape'
  BY <1>1, <1>2, AfterIndex DEF RingShape
<1> DEFINE S == Procs \cup {NoValue}
<1>4. /\ Contents \in Seq(S) /\ Len(Contents) = count
      /\ \A k \in 1..count : Contents[k] = ring[Place(head, k)]
  BY ContentsAt, ZenonT(60)
<1>5. /\ Contents' \in Seq(S) /\ Len(Contents') = count + 1
      /\ \A k \in 1..(count + 1) : Contents'[k] = ring'[Place(head, k)]
  BY <1>1, <1>3, ContentsAfter, ZenonT(60)
<1>6. ASSUME NEW k \in 1..count
      PROVE  Contents'[k] = Contents[k]
  BY <1>1, <1>2, <1>4, <1>5 DEF RingShape, Place
<1>7. Contents'[count + 1] = v
  BY <1>1, <1>2, <1>5 DEF RingShape, Place
<1>8. /\ Append(Contents, v) \in Seq(S) /\ Len(Append(Contents, v)) = count + 1
      /\ \A k \in 1..(count + 1) :
            Append(Contents, v)[k] = IF k = count + 1 THEN v ELSE Contents[k]
  <2>1. v \in S /\ count \in Nat
    BY <1>2 DEF RingShape
  <2> HIDE DEF S
  <2> QED
    BY <1>4, <2>1, AppendProperties
<1>9. \A k \in 1..(count + 1) : Contents'[k] = Append(Contents, v)[k]
  BY <1>2, <1>6, <1>7, <1>8 DEF RingShape
<1>10. Contents' = Append(Contents, v)
  <2> HIDE DEF S
  <2> QED
    BY <1>5, <1>8, <1>9, SeqEqual, ZenonT(60)
<1> QED
  BY <1>1, <1>3, <1>4, <1>10, ZenonT(60)

\* Pop with an entry takes the oldest one.
LEMMA DequeueTakesHead ==
    ASSUME RingShape, NEW t, Dequeue(t)
    PROVE  /\ RingShape' /\ Contents # <<>> /\ Contents' = Tail(Contents)
           /\ FrontValue = Contents[1]
<1>1. /\ ring' = [ring EXCEPT ![head] = NoValue] /\ head' = After(head)
      /\ count' = count - 1 /\ tail' = tail /\ count > 0
  BY ZenonT(60) DEF Dequeue
<1>2. /\ Cap \in Nat \ {0} /\ head \in 0..(Cap - 1) /\ count \in 0..Cap
      /\ After(head) = (IF head + 1 < Cap THEN head + 1 ELSE 0)
      /\ After(head) \in 0..(Cap - 1)
  BY CapAssumption, AfterIndex, ZenonT(60) DEF RingShape
<1>3. RingShape'
  BY <1>1, <1>2 DEF RingShape
<1> DEFINE S == Procs \cup {NoValue}
<1>4. /\ Contents \in Seq(S) /\ Len(Contents) = count
      /\ \A k \in 1..count : Contents[k] = ring[Place(head, k)]
  BY ContentsAt, ZenonT(60)
<1>5. /\ Contents' \in Seq(S) /\ Len(Contents') = count - 1
      /\ \A k \in 1..(count - 1) : Contents'[k] = ring'[Place(head', k)]
  BY <1>1, <1>3, ContentsAfter, ZenonT(60)
<1>6. ASSUME NEW k \in 1..(count - 1)
      PROVE  Contents'[k] = Contents[k + 1]
  <2>1. Place(head', k) = Place(head, k + 1) /\ Place(head, k + 1) # head
    BY <1>1, <1>2 DEF Place
  <2>2. Place(head, k + 1) \in 0..(Cap - 1) /\ k + 1 \in 1..count
    BY <1>1, <1>2 DEF Place
  <2> QED
    BY <1>1, <1>4, <1>5, <2>1, <2>2 DEF RingShape
<1>7. Contents # <<>>
  BY <1>1, <1>2, <1>4
<1>8. /\ Tail(Contents) \in Seq(S) /\ Len(Tail(Contents)) = count - 1
      /\ \A k \in 1..(count - 1) : Tail(Contents)[k] = Contents[k + 1]
  <2> HIDE DEF S
  <2> QED
    BY <1>4, <1>7, HeadTailProperties
<1>9. Contents' = Tail(Contents)
  <2> HIDE DEF S
  <2> QED
    BY <1>5, <1>6, <1>8, SeqEqual, ZenonT(60)
<1>10. FrontValue = Contents[1]
  BY <1>1, <1>2, <1>4 DEF FrontValue, Place
<1> QED
  BY <1>3, <1>7, <1>9, <1>10, ZenonT(60)

-----------------------------------------------------------------------------
(***************************************************************************)
(* The queue implements BoundedFIFO.                                        *)
(***************************************************************************)
\* A step that leaves the ring alone.
Quiet == UNCHANGED <<ring, head, tail, count>>

\* Such a step leaves the queue's contents alone.
LEMMA QuietKeeps ==
    ASSUME RingShape, Quiet
    PROVE  RingShape' /\ Contents' = Contents
  BY ZenonT(60) DEF Quiet, RingShape, Contents

\* What a step does to the queue: nothing, one Put or one Get.
LEMMA QueueStep ==
    ASSUME [Next]_vars
    PROVE  \/ Quiet
           \/ \E p \in Procs : pc[p] = "push" /\ PushReq(p) /\ Enqueue(p, p)
           \/ TaskPop /\ Dequeue(FsTask)
<1>1. CASE UNCHANGED vars
  BY <1>1, ZenonT(60) DEF vars, queueVars, Quiet
<1>2. CASE TaskPop
  BY <1>2, ZenonT(60) DEF TaskPop, ParkConsumer, Quiet
<1>3. CASE TaskServe \/ TaskFind \/ TaskFill \/ TaskSignal
  BY <1>3, ZenonT(60) DEF TaskServe, TaskFind, TaskFill, TaskSignal, queueVars, Quiet
<1>4. ASSUME NEW p \in Procs, PushReq(p)
      PROVE  Quiet \/ (pc[p] = "push" /\ PushReq(p) /\ Enqueue(p, p))
  BY <1>4, ZenonT(60) DEF PushReq, ParkProducer, Quiet
<1>5. ASSUME NEW p \in Procs,
             WaitReply(p) \/ CreateScan(p) \/ CreateFind(p) \/ CreateFill(p) \/ FdAppend(p)
      PROVE  Quiet
  BY <1>5, ZenonT(60) DEF WaitReply, CreateScan, CreateFind, CreateFill, FdAppend, queueVars, Quiet
<1>6. ASSUME NEW p \in Procs, Call(p)
      PROVE  Quiet
  BY <1>6, ZenonT(60) DEF Call, SysFsRead, SysFsList, SysFsWrite, Send, Open, FdWrite, queueVars, Quiet
<1>7. ASSUME NEW t \in QThreads, Wakeup(t)
      PROVE  Quiet
  BY <1>7, ZenonT(60) DEF Wakeup, WakeDetached, Quiet
<1> QED
  BY <1>1, <1>2, <1>3, <1>4, <1>5, <1>6, <1>7, ZenonT(60) DEF Next, Task, Proc

\* fsReqQ is a bounded FIFO (kthread_queue.go): whatever the number of
\* processes and the capacity, every step of the system is a Put, a Get or no
\* step of the queue of BoundedFIFO.
THEOREM RequestQueueFIFO == Spec => RequestQueueIsFIFO
<1>1. Init => RingShape /\ Fifo!Init
  <2> SUFFICES ASSUME Init PROVE RingShape /\ Fifo!Init
    BY ZenonT(60)
  <2>1. RingShape /\ count = 0
    BY CapAssumption DEF Init, QueueInit, RingShape
  <2>2. Contents \in Seq(Procs \cup {NoValue}) /\ Len(Contents) = 0
    BY <2>1, ContentsAt, ZenonT(60)
  <2> QED
    BY <2>1, <2>2 DEF Fifo!Init
<1>2. RingShape /\ [Next]_vars => RingShape' /\ [Fifo!Next]_Contents
  <2> SUFFICES ASSUME RingShape, [Next]_vars
               PROVE  RingShape' /\ [Fifo!Next]_Contents
    BY ZenonT(60)
  <2>1. CASE Quiet
    BY <2>1, QuietKeeps, ZenonT(60)
  <2>2. ASSUME NEW p \in Procs, Enqueue(p, p)
        PROVE  RingShape' /\ Fifo!Next
    BY <2>2, EnqueueAppends, ZenonT(60) DEF Fifo!Next, Fifo!Put
  <2>3. CASE Dequeue(FsTask)
    BY <2>3, DequeueTakesHead, ZenonT(60) DEF Fifo!Next, Fifo!Get
  <2> QED
    BY <2>1, <2>2, <2>3, QueueStep, ZenonT(60)
<1> QED
  BY <1>1, <1>2, PTL DEF Spec, RequestQueueIsFIFO, Fifo!Spec

-----------------------------------------------------------------------------
(***************************************************************************)
(* A request is in one place.                                               *)
(***************************************************************************)
PCs == {"user", "push", "wait", "asleep", "create", "find", "fill", "append"}

Waiting(p) == pc[p] \in {"wait", "asleep"}
Queued(p) == \E k \in 1..Len(Contents) : Contents[k] = p

\* The three places of a request exclude each other, and one of them holds
\* the request exactly while its process waits.
HeldAt(p) ==
    IF Waiting(p)
    THEN \/ Queued(p) /\ cur # p /\ ~flag[p]
         \/ ~Queued(p) /\ cur = p /\ ~flag[p]
         \/ ~Queued(p) /\ cur # p /\ flag[p]
    ELSE ~Queued(p) /\ cur # p /\ ~flag[p]

\* The inductive invariant.  RequestHeldOnce alone does not say that a process
\* that is not waiting has no request left over, nor that the ring repeats
\* none: a process that pushed again would then be held twice.
HeldInv ==
    /\ RingShape
    /\ Contents \in Seq(Procs)
    /\ \A j, k \in 1..Len(Contents) : Contents[j] = Contents[k] => j = k
    /\ pc \in [Procs -> PCs]
    /\ flag \in [Procs -> BOOLEAN]
    /\ cur \in Procs \cup {NoThread}
    /\ tpc = "pop" => cur = NoThread
    /\ tpc # "pop" => cur \in Procs
    /\ \A p \in Procs : HeldAt(p)

\* At boot the ring is empty and no process waits.
LEMMA HeldInit ==
    ASSUME Init
    PROVE  HeldInv
<1>1. RingShape /\ count = 0
  BY CapAssumption DEF Init, QueueInit, RingShape
<1>2. Contents = <<>> /\ Len(Contents) = 0
  BY <1>1, ContentsAt
<1>3. \A p \in Procs : ~Queued(p)
  BY <1>2 DEF Queued
<1> QED
  BY <1>1, <1>2, <1>3, NilAssumption DEF Init, HeldInv, HeldAt, Waiting, PCs

\* A step of process p that moves it between positions where it does not wait.
LEMMA HeldQuiet ==
    ASSUME HeldInv, Quiet, NEW p \in Procs, ~Waiting(p),
           NEW l \in PCs \ {"wait", "asleep"},
           pc' = [pc EXCEPT ![p] = l], flag' = flag, cur' = cur, tpc' = tpc
    PROVE  HeldInv'
<1>1. RingShape' /\ Contents' = Contents
  BY QuietKeeps, ZenonT(60) DEF HeldInv
<1>2. \A q \in Procs : Queued(q)' = Queued(q)
  BY <1>1, ZenonT(60) DEF Queued
<1>3. pc' \in [Procs -> PCs] /\ \A q \in Procs : pc'[q] = IF q = p THEN l ELSE pc[q]
  BY ZenonT(60) DEF HeldInv
<1>4. \A q \in Procs : HeldAt(q)'
  BY <1>2, <1>3, ZenonT(60) DEF HeldInv, HeldAt, Waiting
<1> QED
  BY <1>1, <1>3, <1>4 DEF HeldInv

\* A step that touches neither the queue, the processes nor the request fsTask
\* holds.
LEMMA HeldSame ==
    ASSUME HeldInv, Quiet, pc' = pc, flag' = flag, cur' = cur,
           (tpc' = "pop") <=> (tpc = "pop")
    PROVE  HeldInv'
<1>1. RingShape' /\ Contents' = Contents
  BY QuietKeeps, ZenonT(60) DEF HeldInv
<1>2. \A q \in Procs : HeldAt(q)'
  BY <1>1, ZenonT(60) DEF HeldInv, HeldAt, Waiting, Queued
<1> QED
  BY <1>1, <1>2, ZenonT(60) DEF HeldInv

\* fsReqQ.Push puts the request into the ring and its process waits.
LEMMA HeldPush ==
    ASSUME HeldInv, NEW p \in Procs, PushReq(p), Enqueue(p, p)
    PROVE  HeldInv'
<1>1. /\ pc[p] = "push" /\ pc' = [pc EXCEPT ![p] = "wait"]
      /\ flag' = flag /\ cur' = cur /\ tpc' = tpc
  <2>1. Room
    BY ZenonT(60) DEF Enqueue
  <2> QED
    BY <2>1, ZenonT(60) DEF PushReq, ParkProducer, taskVars
<1>2. RingShape' /\ Contents' = Append(Contents, p)
  BY EnqueueAppends, ZenonT(60) DEF HeldInv
<1>3. /\ Contents' \in Seq(Procs) /\ Len(Contents') = Len(Contents) + 1
      /\ Len(Contents) \in Nat
      /\ \A k \in 1..(Len(Contents) + 1) :
            Contents'[k] = IF k = Len(Contents) + 1 THEN p ELSE Contents[k]
  BY <1>2, AppendProperties, LenProperties DEF HeldInv
<1>4. ~Queued(p) /\ cur # p /\ ~flag[p]
  BY <1>1, ZenonT(60) DEF HeldInv, HeldAt, Waiting
<1>5. \A j, k \in 1..Len(Contents') : Contents'[j] = Contents'[k] => j = k
  BY <1>3, <1>4 DEF HeldInv, Queued
<1>6. Queued(p)' /\ \A q \in Procs \ {p} : Queued(q)' <=> Queued(q)
  BY <1>3 DEF Queued
<1>7. pc' \in [Procs -> PCs] /\ \A q \in Procs : pc'[q] = IF q = p THEN "wait" ELSE pc[q]
  BY <1>1, ZenonT(60) DEF HeldInv, PCs
<1>8. \A q \in Procs : HeldAt(q)'
  BY <1>1, <1>4, <1>6, <1>7, ZenonT(60) DEF HeldInv, HeldAt, Waiting
<1> QED
  BY <1>1, <1>2, <1>3, <1>5, <1>7, <1>8, ZenonT(60) DEF HeldInv

\* Pop moves the oldest request from the ring to fsTask.
LEMMA HeldPop ==
    ASSUME HeldInv, TaskPop, Dequeue(FsTask)
    PROVE  HeldInv'
<1>1. /\ tpc = "pop" /\ tpc' = "serve" /\ cur' = FrontValue
      /\ flag' = flag /\ pc' = pc /\ cur = NoThread
  <2>1. ~(count = 0)
    BY DEF Dequeue
  <2> QED
    BY <2>1, ZenonT(60) DEF TaskPop, ParkConsumer, procVars, HeldInv
<1>2. /\ RingShape' /\ Contents # <<>> /\ Contents' = Tail(Contents)
      /\ FrontValue = Contents[1]
  BY DequeueTakesHead, ZenonT(60) DEF HeldInv
<1>3. /\ Contents' \in Seq(Procs) /\ Len(Contents') = Len(Contents) - 1
      /\ Len(Contents) \in Nat \ {0} /\ cur' \in Procs
      /\ \A k \in 1..(Len(Contents) - 1) : Contents'[k] = Contents[k + 1]
  BY <1>1, <1>2, HeadTailProperties, LenProperties, EmptySeq, ElementOfSeq DEF HeldInv
<1>4. ASSUME NEW j \in 1..Len(Contents'), NEW k \in 1..Len(Contents'),
             Contents'[j] = Contents'[k]
      PROVE  j = k
  <2>1. /\ j + 1 \in 1..Len(Contents) /\ k + 1 \in 1..Len(Contents)
        /\ j \in 1..(Len(Contents) - 1) /\ k \in 1..(Len(Contents) - 1)
    BY <1>3, <1>4
  <2>2. Contents[j + 1] = Contents[k + 1]
    BY <1>3, <1>4, <2>1, ZenonT(60)
  <2>3. j + 1 = k + 1
    BY <2>1, <2>2, ZenonT(60) DEF HeldInv
  <2> QED
    BY <1>4, <1>3, <2>3
<1>5. PICK c \in Procs : cur' = c /\ c = Contents[1]
  BY <1>1, <1>2, <1>3, ZenonT(60)
<1>6. Queued(c) /\ ~Queued(c)'
  BY <1>3, <1>5 DEF HeldInv, Queued
<1>8. ASSUME NEW q \in Procs \ {c}
      PROVE  Queued(q)' <=> Queued(q)
  <2>1. ASSUME NEW k \in 1..Len(Contents), Contents[k] = q
        PROVE  Queued(q)'
    <3>1. k # 1 /\ k - 1 \in 1..Len(Contents')
      BY <1>3, <1>5, <2>1
    <3>2. Contents'[k - 1] = q
      BY <1>3, <2>1, <3>1
    <3> QED
      BY <3>1, <3>2, ZenonT(60) DEF Queued
  <2>2. ASSUME NEW k \in 1..Len(Contents'), Contents'[k] = q
        PROVE  Queued(q)
    BY <1>3, <2>2 DEF Queued
  <2> QED
    BY <2>1, <2>2, ZenonT(60) DEF Queued
<1>7. \A q \in Procs : HeldAt(q)'
  BY <1>1, <1>5, <1>6, <1>8, NilAssumption DEF HeldInv, HeldAt, Waiting
<1> QED
  BY <1>1, <1>2, <1>3, <1>4, <1>7, ZenonT(60) DEF HeldInv

\* ev.Wait either parks its process or takes the answer and clears the event.
LEMMA HeldWait ==
    ASSUME HeldInv, NEW p \in Procs, WaitReply(p)
    PROVE  HeldInv'
<1>1. Quiet /\ cur' = cur /\ tpc' = tpc /\ Waiting(p)
  BY ZenonT(60) DEF WaitReply, Quiet, queueVars, taskVars, Waiting
<1>2. RingShape' /\ Contents' = Contents
  BY <1>1, QuietKeeps, ZenonT(60) DEF HeldInv
<1>3. \A q \in Procs : Queued(q)' = Queued(q)
  BY <1>2, ZenonT(60) DEF Queued
<1>4. PICK l \in {"asleep", "push", "user"} :
        /\ pc' = [pc EXCEPT ![p] = l]
        /\ IF l = "asleep" THEN flag' = flag
           ELSE flag[p] /\ flag' = [flag EXCEPT ![p] = FALSE]
  BY ZenonT(60) DEF WaitReply
<1>5. /\ pc' \in [Procs -> PCs] /\ flag' \in [Procs -> BOOLEAN]
      /\ \A q \in Procs : pc'[q] = IF q = p THEN l ELSE pc[q]
  BY <1>4, ZenonT(60) DEF HeldInv, PCs
<1>6. ASSUME NEW q \in Procs
      PROVE  HeldAt(q)'
  <2>1. HeldAt(q)
    BY ZenonT(60) DEF HeldInv
  <2>2. CASE l = "asleep"
    BY <1>1, <1>3, <1>4, <1>5, <2>1, <2>2, ZenonT(60) DEF HeldAt, Waiting
  <2>3. CASE l # "asleep" /\ q # p
    <3>1. flag'[q] = flag[q]
      BY <1>4, <2>3, ZenonT(60) DEF HeldInv
    <3> QED
      BY <1>1, <1>3, <1>5, <2>1, <2>3, <3>1, ZenonT(60) DEF HeldAt, Waiting
  <2>4. CASE l # "asleep" /\ q = p
    <3>1. flag[p] /\ ~flag'[p]
      BY <1>4, <2>4, ZenonT(60) DEF HeldInv
    <3> QED
      BY <1>1, <1>3, <1>5, <2>1, <2>4, <3>1, ZenonT(60) DEF HeldAt, Waiting
  <2> QED
    BY <2>2, <2>3, <2>4, ZenonT(60)
<1> QED
  BY <1>1, <1>2, <1>5, <1>6, ZenonT(60) DEF HeldInv

\* req.ev.Signal moves the request from fsTask to its event.
LEMMA HeldSignal ==
    ASSUME HeldInv, TaskSignal
    PROVE  HeldInv'
<1>1. Quiet /\ cur' = NoThread /\ tpc' = "pop"
  BY ZenonT(60) DEF TaskSignal, Quiet, queueVars
<1>2. RingShape' /\ Contents' = Contents
  BY <1>1, QuietKeeps, ZenonT(60) DEF HeldInv
<1>3. \A q \in Procs : Queued(q)' = Queued(q)
  BY <1>2, ZenonT(60) DEF Queued
<1>4. PICK c \in Procs : c = cur
  BY ZenonT(60) DEF HeldInv, TaskSignal
<1>5. flag' \in [Procs -> BOOLEAN] /\ flag'[c] /\ \A q \in Procs \ {c} : flag'[q] = flag[q]
  BY <1>4, ZenonT(60) DEF TaskSignal, HeldInv
<1>6. /\ pc' \in [Procs -> PCs]
      /\ \A q \in Procs : (pc'[q] \in {"wait", "asleep"}) <=> Waiting(q)
  BY <1>4, ZenonT(60) DEF TaskSignal, HeldInv, PCs, Waiting
<1>7. ASSUME NEW q \in Procs
      PROVE  HeldAt(q)'
  <2>1. HeldAt(q) /\ cur' # q
    BY <1>1, NilAssumption, ZenonT(60) DEF HeldInv
  <2>2. CASE q = c
    BY <1>3, <1>4, <1>5, <1>6, <2>1, <2>2, ZenonT(60) DEF HeldAt, Waiting
  <2>3. CASE q # c
    BY <1>3, <1>4, <1>5, <1>6, <2>1, <2>3, ZenonT(60) DEF HeldAt, Waiting
  <2> QED
    BY <2>2, <2>3, ZenonT(60)
<1> QED
  BY <1>1, <1>2, <1>5, <1>6, <1>7, ZenonT(60) DEF HeldInv

\* Every step keeps the inductive invariant.
LEMMA HeldNext ==
    ASSUME HeldInv, [Next]_vars
    PROVE  HeldInv'
<1>1. CASE UNCHANGED vars
  BY <1>1, HeldSame, ZenonT(60) DEF vars, queueVars, procVars, taskVars, Quiet
<1>2. CASE TaskPop
  <2>1. CASE Dequeue(FsTask)
    BY <1>2, <2>1, HeldPop, ZenonT(60)
  <2>2. CASE ParkConsumer(FsTask) /\ UNCHANGED <<cur, tpc>>
    BY <1>2, <2>2, HeldSame, ZenonT(60) DEF TaskPop, ParkConsumer, procVars, Quiet
  <2> QED
    BY <1>2, <2>1, <2>2, ZenonT(60) DEF TaskPop
<1>3. CASE TaskServe \/ TaskFind \/ TaskFill
  <2>1. Quiet /\ pc' = pc /\ flag' = flag /\ cur' = cur
    BY <1>3, ZenonT(60) DEF TaskServe, TaskFind, TaskFill, queueVars, procVars, Quiet
  <2>2. tpc # "pop" /\ tpc' # "pop"
    BY <1>3, ZenonT(60) DEF TaskServe, TaskFind, TaskFill
  <2> QED
    BY <2>1, <2>2, HeldSame, ZenonT(60)
<1>4. CASE TaskSignal
  BY <1>4, HeldSignal, ZenonT(60)
<1>5. ASSUME NEW p \in Procs, PushReq(p)
      PROVE  HeldInv'
  <2>1. CASE Enqueue(p, p)
    BY <1>5, <2>1, HeldPush, ZenonT(60)
  <2>2. CASE ParkProducer(p) /\ UNCHANGED pc
    BY <1>5, <2>2, HeldSame, ZenonT(60) DEF PushReq, ParkProducer, taskVars, Quiet
  <2> QED
    BY <1>5, <2>1, <2>2, ZenonT(60) DEF PushReq
<1>6. ASSUME NEW p \in Procs, WaitReply(p)
      PROVE  HeldInv'
  BY <1>6, HeldWait, ZenonT(60)
<1>7. ASSUME NEW p \in Procs,
             CreateScan(p) \/ CreateFind(p) \/ CreateFill(p) \/ FdAppend(p) \/ Call(p)
      PROVE  HeldInv'
  <2>1. Quiet /\ flag' = flag /\ cur' = cur /\ tpc' = tpc /\ ~Waiting(p)
    BY <1>7, ZenonT(60) DEF CreateScan, CreateFind, CreateFill, FdAppend, Call, SysFsRead, SysFsList,
                SysFsWrite, Send, Open, FdWrite, queueVars, taskVars, Quiet, Waiting
  <2>2. \/ pc' = pc
        \/ \E l \in PCs \ {"wait", "asleep"} : pc' = [pc EXCEPT ![p] = l]
    BY <1>7, ZenonT(60) DEF CreateScan, CreateFind, CreateFill, FdAppend, Call, SysFsRead, SysFsList,
                SysFsWrite, Send, Open, FdWrite, PCs
  <2> QED
    BY <2>1, <2>2, HeldSame, HeldQuiet, ZenonT(60)
<1>8. ASSUME NEW t \in QThreads, Wakeup(t)
      PROVE  HeldInv'
  BY <1>8, HeldSame, ZenonT(60) DEF Wakeup, WakeDetached, procVars, taskVars, Quiet
<1> QED
  BY <1>1, <1>2, <1>3, <1>4, <1>5, <1>6, <1>7, <1>8, ZenonT(60) DEF Next, Task, Proc

\* Counting the places of a waiting process's request gives one.
LEMMA HeldCounts ==
    ASSUME HeldInv
    PROVE  RequestHeldOnce
<1> SUFFICES ASSUME NEW p \in Procs, Waiting(p)
             PROVE  Cardinality(InQueue(p)) + (IF cur = p THEN 1 ELSE 0)
                      + (IF flag[p] THEN 1 ELSE 0) = 1
  BY ZenonT(60) DEF RequestHeldOnce, Waiting
<1>1. Len(Contents) = count
  BY ContentsAt, ZenonT(60) DEF HeldInv
<1>2. CASE Queued(p)
  <2>1. PICK k \in 1..count : Contents[k] = p
    BY <1>1, <1>2, ZenonT(60) DEF Queued
  <2>2. InQueue(p) = {k}
    BY <1>1, <2>1, ZenonT(60) DEF InQueue, HeldInv
  <2>3. Cardinality(InQueue(p)) = 1
    BY <2>2, FS_Singleton, ZenonT(60)
  <2> QED
    BY <1>2, <2>3 DEF HeldInv, HeldAt
<1>3. CASE ~Queued(p)
  <2>1. InQueue(p) = {}
    BY <1>1, <1>3, ZenonT(60) DEF InQueue, Queued
  <2>2. Cardinality(InQueue(p)) = 0
    BY <2>1, FS_EmptySet, ZenonT(60)
  <2> QED
    BY <1>3, <2>2 DEF HeldInv, HeldAt
<1> QED
  BY <1>2, <1>3, ZenonT(60)

\* A process that waits for fsTask has its request in exactly one place
\* (fs.go's fsReqQ.Push, fsTask's Pop and ev.Signal): it is neither lost nor
\* answered twice, for any number of processes, names and entries and any
\* capacity of the queue.
THEOREM RequestHeld == Spec => []RequestHeldOnce
<1>1. Init => HeldInv
  BY HeldInit, ZenonT(60)
<1>2. HeldInv /\ [Next]_vars => HeldInv'
  BY HeldNext, ZenonT(60)
<1>3. HeldInv => RequestHeldOnce
  BY HeldCounts, ZenonT(60)
<1> QED
  BY <1>1, <1>2, <1>3, PTL DEF Spec

-----------------------------------------------------------------------------
(***************************************************************************)
(* No producer is stranded.                                                 *)
(***************************************************************************)
Listed(p) == \E i \in 1..Len(producers) : producers[i] = p

\* The producers list is of processes in Push, each once, and the only
\* consumer is fsTask.
Lists ==
    /\ producers \in Seq(Procs)
    /\ \A i, j \in 1..Len(producers) : producers[i] = producers[j] => i = j
    /\ consumer \in {FsTask, NoThread}
    /\ waking \in [QThreads -> QThreads \cup {NoThread}]

\* Who is listed, or detached and not woken yet, is parked, in one place only.
\* ProducersAdvance needs it: a wake-up of a thread that is listed again, or
\* that is no producer any more, would be spent on nobody.
Parked ==
    /\ \A p \in Procs : Listed(p) => p \in parked /\ pc[p] = "push"
    /\ consumer # NoThread => consumer \in parked
    /\ \A t, x \in QThreads : waking[t] = x =>
          /\ x \in parked /\ x # consumer /\ ~Listed(x)
          /\ x \in Procs => pc[x] = "push"
    /\ \A t, u \in QThreads : waking[t] = waking[u] /\ waking[t] # NoThread => t = u

AdvanceInv == Lists /\ Parked /\ ProducersAdvance

\* A step that leaves the queue alone, and every process in Push where it is.
LEMMA AdvanceSame ==
    ASSUME AdvanceInv, UNCHANGED queueVars,
           \A p \in Procs : pc[p] = "push" => pc'[p] = "push"
    PROVE  AdvanceInv'
<1>1. Lists'
  BY ZenonT(60) DEF AdvanceInv, Lists, queueVars
<1>2. Parked'
  BY ZenonT(60) DEF AdvanceInv, Parked, Listed, queueVars
<1>3. ProducersAdvance'
  BY ZenonT(60) DEF AdvanceInv, ProducersAdvance, queueVars
<1> QED
  BY <1>1, <1>2, <1>3, ZenonT(60) DEF AdvanceInv

\* Push with room: the ring is not empty and fsTask, if parked, is detached.
LEMMA AdvancePush ==
    ASSUME HeldInv, AdvanceInv, NEW p \in Procs, PushReq(p), Enqueue(p, p)
    PROVE  AdvanceInv'
<1>1. p \in QThreads /\ waking[p] = NoThread /\ p \notin parked
  BY ThreadAssumption, ZenonT(60) DEF Enqueue, Runs
<1>2. /\ producers' = producers /\ parked' = parked /\ consumer' = NoThread
      /\ waking' = [waking EXCEPT ![p] = consumer] /\ count' = count + 1
  BY ZenonT(60) DEF Enqueue
<1>3. count \in Nat
  BY CapAssumption DEF HeldInv, RingShape
<1>4. \A q \in Procs : pc[q] = "push" /\ q # p => pc'[q] = "push"
  <2>1. pc' = [pc EXCEPT ![p] = "wait"] \/ pc' = pc
    BY ZenonT(60) DEF PushReq
  <2> QED
    BY <2>1, ZenonT(60) DEF HeldInv
<1>5. Lists'
  BY <1>1, <1>2, ThreadAssumption, ZenonT(60) DEF AdvanceInv, Lists
<1>6. \A q \in QThreads \cup {NoThread} : Listed(q)' <=> Listed(q)
  BY <1>2, ZenonT(60) DEF Listed
<1>7. ~Listed(p) /\ ~Listed(FsTask)
  BY <1>1, ThreadAssumption DEF AdvanceInv, Parked, Lists, Listed
<1>8. \A t \in QThreads : waking'[t] = IF t = p THEN consumer ELSE waking[t]
  BY <1>1, <1>2, ZenonT(60) DEF AdvanceInv, Lists
<1>9. Parked'
  <2>1. \A q \in Procs : Listed(q)' => q \in parked' /\ pc'[q] = "push"
    BY <1>2, <1>4, <1>6, <1>7, ThreadAssumption, ZenonT(60) DEF AdvanceInv, Parked
  <2>2. ASSUME NEW t \in QThreads, NEW x \in QThreads, waking'[t] = x
        PROVE  /\ x \in parked' /\ x # consumer' /\ ~Listed(x)'
               /\ x \in Procs => pc'[x] = "push"
    <3>1. CASE t = p
      BY <1>2, <1>6, <1>7, <1>8, <2>2, <3>1, ThreadAssumption, NilAssumption
         DEF AdvanceInv, Parked, Lists
    <3>2. CASE t # p
      <4>1. waking[t] = x /\ x # p
        BY <1>1, <1>8, <2>2, <3>2, ZenonT(60) DEF AdvanceInv, Parked
      <4> QED
        BY <1>2, <1>4, <1>6, <4>1, ThreadAssumption, NilAssumption DEF AdvanceInv, Parked
    <3> QED
      BY <3>1, <3>2, ZenonT(60)
  <2>3. \A t, u \in QThreads : waking'[t] = waking'[u] /\ waking'[t] # NoThread => t = u
    BY <1>8, ThreadAssumption DEF AdvanceInv, Parked, Lists
  <2> QED
    BY <1>2, <2>1, <2>2, <2>3, ZenonT(60) DEF Parked
<1>10. ProducersAdvance'
  BY <1>2, <1>3 DEF ProducersAdvance
<1> QED
  BY <1>5, <1>9, <1>10, ZenonT(60) DEF AdvanceInv

\* Push without room: the ring is full, and who parks was on no list.
LEMMA AdvancePark ==
    ASSUME HeldInv, AdvanceInv, NEW p \in Procs, PushReq(p), ParkProducer(p)
    PROVE  AdvanceInv'
<1>1. /\ p \in QThreads /\ p \notin parked /\ pc[p] = "push"
      /\ producers' = <<p>> \o producers /\ parked' = parked \cup {p}
      /\ consumer' = consumer /\ waking' = waking /\ count' = count /\ pc' = pc
  <2>1. ~Room
    BY ZenonT(60) DEF ParkProducer
  <2>2. pc' = pc
    BY <2>1, ZenonT(60) DEF PushReq, Enqueue
  <2> QED
    BY <2>2, ThreadAssumption, ZenonT(60) DEF ParkProducer, Runs, PushReq
<1>2. /\ producers' \in Seq(Procs) /\ Len(producers') = Len(producers) + 1
      /\ \A i \in 1..Len(producers') :
            producers'[i] = IF i = 1 THEN p ELSE producers[i - 1]
  <2>1. producers \in Seq(Procs) /\ <<p>> \in Seq(Procs) /\ Len(<<p>>) = 1 /\ <<p>>[1] = p
    BY DEF AdvanceInv, Lists
  <2> QED
    BY <1>1, <2>1, ConcatProperties
<1>3. Len(producers) \in Nat
  BY DEF AdvanceInv, Lists
<1>4. \A q \in QThreads : Listed(q)' <=> Listed(q) \/ q = p
  <2>1. \A i \in 1..Len(producers) : producers'[i + 1] = producers[i] /\ i + 1 \in 1..Len(producers')
    BY <1>2, <1>3
  <2>2. producers'[1] = p /\ 1 \in 1..Len(producers')
    BY <1>2, <1>3
  <2>3. \A i \in 1..Len(producers') : i # 1 =>
            i - 1 \in 1..Len(producers) /\ producers'[i] = producers[i - 1]
    BY <1>2, <1>3
  <2>4. \A q \in QThreads : Listed(q) => Listed(q)'
    BY <2>1, ZenonT(60) DEF Listed
  <2>5. Listed(p)'
    BY <2>2, ZenonT(60) DEF Listed
  <2>6. \A q \in QThreads : Listed(q)' => Listed(q) \/ q = p
    BY <2>2, <2>3, ZenonT(60) DEF Listed
  <2> QED
    BY <2>4, <2>5, <2>6, ZenonT(60)
<1>5. ~Listed(p)
  BY <1>1, ZenonT(60) DEF AdvanceInv, Parked
<1>6. Lists'
  <2>1. ASSUME NEW i \in 1..Len(producers'), NEW j \in 1..Len(producers'),
               producers'[i] = producers'[j]
        PROVE  i = j
    <3>1. CASE i = 1 \/ j = 1
      <4>1. \A k \in 1..Len(producers') : k # 1 => producers'[k] # p
        BY <1>2, <1>3, <1>5 DEF Listed
      <4> QED
        BY <1>2, <2>1, <3>1, <4>1, ZenonT(60)
    <3>2. CASE i # 1 /\ j # 1
      <4>1. producers[i - 1] = producers[j - 1] /\ i - 1 \in 1..Len(producers)
            /\ j - 1 \in 1..Len(producers)
        BY <1>2, <1>3, <2>1, <3>2
      <4>2. i - 1 = j - 1
        BY <4>1, ZenonT(60) DEF AdvanceInv, Lists
      <4> QED
        BY <4>2
    <3> QED
      BY <3>1, <3>2, ZenonT(60)
  <2> QED
    BY <1>1, <1>2, <2>1, ZenonT(60) DEF AdvanceInv, Lists
<1>7. Parked'
  BY <1>1, <1>4, ThreadAssumption DEF AdvanceInv, Parked
<1>8. ProducersAdvance'
  <2>1. count > 0
    BY CapAssumption DEF ParkProducer, Room, HeldInv, RingShape
  <2> QED
    BY <1>1, <2>1, ZenonT(60) DEF ProducersAdvance
<1> QED
  BY <1>6, <1>7, <1>8, ZenonT(60) DEF AdvanceInv

\* Pop with an entry detaches the first producer of the list, if there is one.
LEMMA AdvancePop ==
    ASSUME AdvanceInv, TaskPop, Dequeue(FsTask)
    PROVE  AdvanceInv'
<1>1. /\ FsTask \in QThreads /\ FsTask \notin parked /\ waking[FsTask] = NoThread
      /\ parked' = parked /\ consumer' = consumer /\ pc' = pc
      /\ waking' = [waking EXCEPT ![FsTask] = WakesOne]
      /\ producers' = IF WakesOne = NoThread THEN producers ELSE Tail(producers)
  BY ThreadAssumption, ZenonT(60) DEF Dequeue, Runs, TaskPop, procVars
<1>2. \A t \in QThreads : waking'[t] = IF t = FsTask THEN WakesOne ELSE waking[t]
  BY <1>1, ZenonT(60) DEF AdvanceInv, Lists
<1>3. CASE producers = <<>>
  <2>1. WakesOne = NoThread /\ producers' = producers /\ waking' = waking
    BY <1>1, <1>3, ZenonT(60) DEF WakesOne, AdvanceInv, Lists
  <2> QED
    BY <1>1, <1>3, <2>1 DEF AdvanceInv, Lists, Parked, Listed, ProducersAdvance
<1>4. CASE producers # <<>>
  <2> DEFINE p == Head(producers)
  <2>1. /\ p \in Procs /\ producers[1] = p /\ Len(producers) \in Nat \ {0}
        /\ Tail(producers) \in Seq(Procs) /\ Len(Tail(producers)) = Len(producers) - 1
        /\ \A i \in 1..Len(Tail(producers)) : Tail(producers)[i] = producers[i + 1]
    BY <1>4, HeadTailProperties, EmptySeq DEF AdvanceInv, Lists
  <2>2. WakesOne = p /\ p # NoThread /\ producers' = Tail(producers)
    BY <1>1, <1>4, <2>1, NilAssumption, ZenonT(60) DEF WakesOne
  <2> HIDE DEF p
  <2>3. Listed(p) /\ p \in parked /\ pc[p] = "push"
    <3>1. Listed(p)
      BY <2>1 DEF Listed
    <3> QED
      BY <2>1, <3>1, ZenonT(60) DEF AdvanceInv, Parked
  <2>4. \A q \in QThreads : Listed(q)' => Listed(q) /\ q # p
    <3>1. \A i \in 1..Len(producers') :
             producers'[i] = producers[i + 1] /\ i + 1 \in 1..Len(producers) /\ i + 1 # 1
      BY <2>1, <2>2
    <3>2. \A i \in 1..Len(producers) : i # 1 => producers[i] # p
      BY <2>1 DEF AdvanceInv, Lists
    <3> QED
      BY <3>1, <3>2, ZenonT(60) DEF Listed
  <2>5. Lists'
    <3>1. \A i, j \in 1..Len(producers') : producers'[i] = producers'[j] => i = j
      <4>1. \A i \in 1..Len(producers') :
               producers'[i] = producers[i + 1] /\ i + 1 \in 1..Len(producers)
        BY <2>1, <2>2
      <4>2. \A i, j \in 1..Len(producers') : producers'[i] = producers'[j] => i + 1 = j + 1
        BY <4>1, ZenonT(60) DEF AdvanceInv, Lists
      <4> QED
        BY <4>2
    <3> QED
      BY <1>1, <2>1, <2>2, <3>1, ThreadAssumption, ZenonT(60) DEF AdvanceInv, Lists
  <2>6. p # consumer /\ \A t \in QThreads : waking[t] # p
    BY <2>1, <2>3, ThreadAssumption, NilAssumption DEF AdvanceInv, Lists, Parked
  <2>7. Parked'
    BY <1>1, <1>2, <2>1, <2>2, <2>3, <2>4, <2>6, ThreadAssumption DEF AdvanceInv, Parked
  <2>8. ProducersAdvance'
    BY <1>1, <1>2, <2>1, <2>2, ZenonT(60) DEF ProducersAdvance
  <2> QED
    BY <2>5, <2>7, <2>8, ZenonT(60) DEF AdvanceInv
<1> QED
  BY <1>3, <1>4, ZenonT(60)

\* Pop without an entry: fsTask becomes the parked consumer.  It was not one
\* before, so it is never put behind the producers.
LEMMA AdvanceIdle ==
    ASSUME AdvanceInv, TaskPop, ParkConsumer(FsTask)
    PROVE  AdvanceInv'
<1>1. /\ FsTask \in QThreads /\ FsTask \notin parked
      /\ parked' = parked \cup {FsTask} /\ waking' = waking /\ pc' = pc /\ count' = count
  BY ThreadAssumption, ZenonT(60) DEF ParkConsumer, Runs, TaskPop, procVars
<1>2. consumer = NoThread /\ consumer' = FsTask /\ producers' = producers
  <2>1. consumer = NoThread
    BY <1>1, ThreadAssumption, ZenonT(60) DEF AdvanceInv, Lists, Parked
  <2> QED
    BY <2>1, ZenonT(60) DEF ParkConsumer
<1>3. Lists'
  BY <1>1, <1>2, ZenonT(60) DEF AdvanceInv, Lists
<1>4. \A t \in QThreads : waking[t] # FsTask
  BY <1>1, ZenonT(60) DEF AdvanceInv, Parked
<1>5. \A q \in QThreads : Listed(q)' <=> Listed(q)
  BY <1>2, ZenonT(60) DEF Listed
<1>6. Parked'
  BY <1>1, <1>2, <1>4, <1>5, ThreadAssumption DEF AdvanceInv, Parked
<1>7. ProducersAdvance'
  BY <1>1, <1>2, ThreadAssumption, ZenonT(60) DEF AdvanceInv, ProducersAdvance
<1> QED
  BY <1>3, <1>6, <1>7 DEF AdvanceInv

\* kschedWake makes the detached thread run, which is in no other list.
LEMMA AdvanceWake ==
    ASSUME AdvanceInv, NEW t \in QThreads, Wakeup(t)
    PROVE  AdvanceInv'
<1> DEFINE w == waking[t]
<1>1. /\ w \in QThreads /\ w # NoThread /\ parked' = parked \ {w}
      /\ waking' = [waking EXCEPT ![t] = NoThread]
      /\ UNCHANGED <<count, producers, consumer, pc>>
  BY ZenonT(60) DEF Wakeup, WakeDetached, procVars, AdvanceInv, Lists
<1>2. \A u \in QThreads : waking'[u] = IF u = t THEN NoThread ELSE waking[u]
  BY <1>1, ZenonT(60) DEF AdvanceInv, Lists
<1>3. /\ w # consumer /\ ~Listed(w) /\ (w \in Procs => pc[w] = "push")
      /\ \A u \in QThreads : u # t => waking[u] # w
  BY <1>1, ZenonT(60) DEF AdvanceInv, Parked
<1>4. NoThread \notin QThreads
  BY ThreadAssumption, NilAssumption, ZenonT(60)
<1> HIDE DEF w
<1>5. Lists'
  BY <1>1, <1>2 DEF AdvanceInv, Lists
<1>6. \A q \in QThreads : Listed(q)' <=> Listed(q)
  BY <1>1, ZenonT(60) DEF Listed
<1>7. Parked'
  <2>1. \A q \in Procs : Listed(q)' => q \in parked' /\ pc'[q] = "push"
    BY <1>1, <1>3, <1>6, ThreadAssumption, ZenonT(60) DEF AdvanceInv, Parked
  <2>2. consumer' # NoThread => consumer' \in parked'
    BY <1>1, <1>3, ZenonT(60) DEF AdvanceInv, Parked
  <2>3. ASSUME NEW u \in QThreads, NEW x \in QThreads, waking'[u] = x
        PROVE  /\ x \in parked' /\ x # consumer' /\ ~Listed(x)'
               /\ x \in Procs => pc'[x] = "push"
    <3>1. u # t /\ waking[u] = x /\ x # w
      BY <1>2, <1>3, <1>4, <2>3, ZenonT(60)
    <3> QED
      BY <1>1, <1>6, <3>1, ZenonT(60) DEF AdvanceInv, Parked
  <2>4. \A u, v \in QThreads : waking'[u] = waking'[v] /\ waking'[u] # NoThread => u = v
    BY <1>2, ZenonT(60) DEF AdvanceInv, Parked
  <2> QED
    BY <2>1, <2>2, <2>3, <2>4, ZenonT(60) DEF Parked
<1>8. ProducersAdvance'
  <2>1. CASE w \in Procs
    BY <1>1, <1>3, <2>1, ZenonT(60) DEF ProducersAdvance
  <2>2. CASE w \notin Procs
    <3>1. \A u \in QThreads : waking[u] \in Procs => waking'[u] \in Procs
      BY <1>2, <2>2, ZenonT(60) DEF w
    <3> QED
      BY <1>1, <3>1, ZenonT(60) DEF AdvanceInv, ProducersAdvance
  <2> QED
    BY <2>1, <2>2, ZenonT(60)
<1> QED
  BY <1>5, <1>7, <1>8, ZenonT(60) DEF AdvanceInv

\* Every step keeps the lists, and somebody on the way to the producers.
LEMMA AdvanceNext ==
    ASSUME HeldInv, AdvanceInv, [Next]_vars
    PROVE  AdvanceInv'
<1>1. CASE UNCHANGED vars
  BY <1>1, AdvanceSame, ZenonT(60) DEF vars, procVars
<1>2. CASE TaskPop
  BY <1>2, AdvancePop, AdvanceIdle, ZenonT(60) DEF TaskPop
<1>3. CASE TaskServe \/ TaskFind \/ TaskFill
  <2>1. UNCHANGED queueVars /\ pc' = pc
    BY <1>3, ZenonT(60) DEF TaskServe, TaskFind, TaskFill, procVars
  <2> QED
    BY <2>1, AdvanceSame, ZenonT(60)
<1>4. CASE TaskSignal
  <2>1. UNCHANGED queueVars /\ \A p \in Procs : pc[p] = "push" => pc'[p] = "push"
    BY <1>4, ZenonT(60) DEF TaskSignal, HeldInv
  <2> QED
    BY <2>1, AdvanceSame, ZenonT(60)
<1>5. ASSUME NEW p \in Procs, PushReq(p)
      PROVE  AdvanceInv'
  BY <1>5, AdvancePush, AdvancePark, ZenonT(60) DEF PushReq
<1>6. ASSUME NEW p \in Procs,
             WaitReply(p) \/ CreateScan(p) \/ CreateFind(p) \/ CreateFill(p)
             \/ FdAppend(p) \/ Call(p)
      PROVE  AdvanceInv'
  <2>1. UNCHANGED queueVars /\ pc[p] # "push"
    BY <1>6, ZenonT(60) DEF WaitReply, CreateScan, CreateFind, CreateFill, FdAppend, Call, SysFsRead,
                SysFsList, SysFsWrite, Send, Open, FdWrite
  <2>2. pc' = pc \/ \E l \in PCs : pc' = [pc EXCEPT ![p] = l]
    BY <1>6, ZenonT(60) DEF WaitReply, CreateScan, CreateFind, CreateFill, FdAppend, Call, SysFsRead,
                SysFsList, SysFsWrite, Send, Open, FdWrite, PCs
  <2>3. \A q \in Procs : pc[q] = "push" => pc'[q] = "push"
    BY <2>1, <2>2, ZenonT(60) DEF HeldInv
  <2> QED
    BY <2>1, <2>3, AdvanceSame, ZenonT(60)
<1>7. ASSUME NEW t \in QThreads, Wakeup(t)
      PROVE  AdvanceInv'
  BY <1>7, AdvanceWake, ZenonT(60)
<1> QED
  BY <1>1, <1>2, <1>3, <1>4, <1>5, <1>6, <1>7, ZenonT(60) DEF Next, Task, Proc

\* KQueue.Push strands no producer (kthread_queue.go's list and its one wake-up
\* per Pop): while one is parked for room, an entry is there to be popped, or
\* a producer that was woken is about to push, or one is about to be woken.
THEOREM NoProducerStranded == Spec => []ProducersAdvance
<1>1. Init => HeldInv /\ AdvanceInv
  <2>1. Init => HeldInv
    BY HeldInit
  <2>2. Init => AdvanceInv
    <3> SUFFICES ASSUME Init PROVE AdvanceInv
      OBVIOUS
    <3>1. producers = <<>> /\ consumer = NoThread /\ waking = [t \in QThreads |-> NoThread]
      BY ZenonT(60) DEF Init, QueueInit
    <3>2. NoThread \notin QThreads
      BY ThreadAssumption, NilAssumption, ZenonT(60)
    <3> QED
      BY <3>1, <3>2 DEF AdvanceInv, Lists, Parked, Listed, ProducersAdvance
  <2> QED
    BY <2>1, <2>2, ZenonT(60)
<1>2. HeldInv /\ AdvanceInv /\ [Next]_vars => HeldInv' /\ AdvanceInv'
  BY HeldNext, AdvanceNext, ZenonT(60)
<1>3. AdvanceInv => ProducersAdvance
  BY ZenonT(60) DEF AdvanceInv
<1> QED
  BY <1>1, <1>2, <1>3, PTL DEF Spec
=============================================================================
