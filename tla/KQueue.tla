------------------------------- MODULE KQueue -------------------------------
(***************************************************************************)
(* The bounded blocking queue of kthread_queue.go (fsReqQueue, and with the *)
(* same code udpDgramQueue): a ring under a spinlock, an intrusive LIFO     *)
(* list of parked producers and one parked consumer.  An operator is one    *)
(* critical section; the kschedWake that follows a successful Push or Pop   *)
(* happens after the lock is released and is a step of its own.             *)
(***************************************************************************)
EXTENDS Naturals, Sequences

CONSTANTS
    Cap,         \* fsReqQueueCap, udpDgramQueueCap
    QThreads,    \* the threads that use the queue
    NoValue,     \* an empty ring entry
    NoThread     \* the nil *KernelThread

ASSUME CapAssumption == Cap \in Nat \ {0}

VARIABLES
    ring, head, tail, count,
    producers,   \* the producers list, most recent first
    consumer,    \* the parked consumer
    parked,      \* threads in KStateParked on this queue
    waking       \* waking[t]: the thread t has detached and is about to wake

queueVars == <<ring, head, tail, count, producers, consumer, parked, waking>>

QueueInit ==
    /\ ring = [i \in 0..(Cap - 1) |-> NoValue]
    /\ head = 0 /\ tail = 0 /\ count = 0
    /\ producers = <<>> /\ consumer = NoThread
    /\ parked = {}
    /\ waking = [t \in QThreads |-> NoThread]

\* Thread t runs: it is not parked and has no wake-up left to do.
Runs(t) == t \notin parked /\ waking[t] = NoThread

\* Wrong: runs off the end of the ring.
AfterUnwrapped(i) == i + 1

\* The next index of the ring.
After(i) == (i + 1) % Cap

\* Wrong: room for one more than the ring holds.
RoomForOneMore == count <= Cap

Room == count < Cap

\* Push (and TryPush) with room: store, take the parked consumer.
Enqueue(t, v) ==
    /\ Runs(t) /\ Room
    /\ ring' = [ring EXCEPT ![tail] = v]
    /\ tail' = After(tail)
    /\ count' = count + 1
    /\ waking' = [waking EXCEPT ![t] = consumer]
    /\ consumer' = NoThread
    /\ UNCHANGED <<head, producers, parked>>

\* Push without room: onto the producers list.
ParkProducer(t) ==
    /\ Runs(t) /\ ~Room
    /\ producers' = <<t>> \o producers
    /\ parked' = parked \cup {t}
    /\ UNCHANGED <<ring, head, tail, count, consumer, waking>>

\* Wrong: no producer is detached.
WakesNone == NoThread

\* The producer a successful Pop detaches.
WakesOne == IF producers = <<>> THEN NoThread ELSE Head(producers)

\* Wrong: the last entry.
NewestValue == ring[(tail + Cap - 1) % Cap]

\* The value a successful Pop returns.
FrontValue == ring[head]

\* Pop (and TryPop) with an entry: take it, detach one producer.
Dequeue(t) ==
    /\ Runs(t) /\ count > 0
    /\ ring' = [ring EXCEPT ![head] = NoValue]
    /\ head' = After(head)
    /\ count' = count - 1
    /\ waking' = [waking EXCEPT ![t] = WakesOne]
    /\ producers' = IF WakesOne = NoThread THEN producers ELSE Tail(producers)
    /\ UNCHANGED <<tail, consumer, parked>>

\* Pop without an entry: the consumer, or behind the producers when there
\* already is one.
ParkConsumer(t) ==
    /\ Runs(t) /\ count = 0
    /\ IF consumer = NoThread
       THEN consumer' = t /\ UNCHANGED producers
       ELSE producers' = <<t>> \o producers /\ UNCHANGED consumer
    /\ parked' = parked \cup {t}
    /\ UNCHANGED <<ring, head, tail, count, waking>>

\* kschedWake on the detached thread.
WakeDetached(t) ==
    /\ waking[t] # NoThread
    /\ parked' = parked \ {waking[t]}
    /\ waking' = [waking EXCEPT ![t] = NoThread]
    /\ UNCHANGED <<ring, head, tail, count, producers, consumer>>

\* What is in the ring, oldest first.
Contents == [i \in 1..count |-> ring[(head + i - 1) % Cap]]

QueueTypeOK ==
    /\ head \in 0..(Cap - 1) /\ tail \in 0..(Cap - 1) /\ count \in 0..Cap
    /\ tail = (head + count) % Cap
    /\ \A i \in 0..(Cap - 1) :
          (ring[i] = NoValue) <=> \A k \in 1..count : (head + k - 1) % Cap # i
    /\ parked \subseteq QThreads
=============================================================================
