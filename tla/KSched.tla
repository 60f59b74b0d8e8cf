------------------------------- MODULE KSched -------------------------------
(***************************************************************************)
(* The kernel-thread scheduler: the thread pool, the two tiers of ready    *)
(* queues, the dispatch loops of the boot processor (BSP) and of the       *)
(* application processors (APs), yield, timed park and wake, the preempt   *)
(* IPI with the per-CPU depth counters it consults, spawn and exit.        *)
(*                                                                         *)
(* One step is one critical section or one run of instructions no other    *)
(* CPU can observe.  The gaps that matter are steps of their own: a thread *)
(* that is already on a wait list or a ready queue, but has not reached    *)
(* kschedSwitch yet, is at "parking", "yielding" or "ipiyield" and is      *)
(* still executing on its CPU.                                             *)
(***************************************************************************)
EXTENDS Naturals, Sequences, FiniteSets

CONSTANTS
    CPUs,        \* online CPUs, 0 is the BSP
    Slots,       \* kthreadPool: a thread is identified with its slot
    Shell,       \* the slot of the boot shell's Ring-3 host
    BootServices,\* the service threads, in the order main() spawns them
    Dispatcher,  \* timerDispatcher, one of them
    NoThread,    \* the nil *KernelThread
    TimerCap,    \* maxPendingTimers
    DepthMod     \* 2^32: InterruptDepth and SyscallDepth are uint32

BSP == 0
APs == CPUs \ {BSP}
Services == {BootServices[i] : i \in 1..Len(BootServices)}

ASSUME CPUAssumption == CPUs \subseteq Nat /\ BSP \in CPUs

ASSUME SlotAssumption ==
    /\ IsFiniteSet(Slots)
    /\ BootServices \in Seq(Slots)
    /\ \A i, j \in 1..Len(BootServices) : BootServices[i] = BootServices[j] => i = j
    /\ Dispatcher \in Services
    /\ Shell \in Slots \ Services
    /\ NoThread \notin Slots

ASSUME BoundAssumption ==
    /\ TimerCap \in Nat
    /\ DepthMod \in Nat
    /\ Cardinality(Slots) + 2 < DepthMod

VARIABLES
    used,        \* KernelThread.Used
    state,       \* KernelThread.State
    owner,       \* KernelThread.OwnerCPU
    hosted,      \* kthreadHostedProc[slot] # nil
    pc,          \* where the thread is, or resumes when it is dispatched
    intr,        \* the position a preempt IPI interrupted
    frames,      \* ISR frames open on the thread's stack
    exitCPU,     \* idx in processExit: the CPU the thread was on
    svcq,        \* kschedQueues[cpu]
    ring3q,      \* kschedQueuesRing3[cpu]
    running,     \* kschedRunning[cpu]: the thread the CPU executes
    loop,        \* the next queue the CPU's dispatch loop looks at
    depth,       \* InterruptDepth (= SyscallDepth between handlers) of the CPU
    armed,       \* threads with an entry in timerList
    ready,       \* timerDispatcher's readyEv: expired, not yet signalled
    fired,       \* threads whose KEvent has flag = 1
    linked,      \* threads on the waiters list of their KEvent
    waking,      \* the waiter Signal has unlinked and is about to wake
    booted,      \* bspBootDone and the operational preempt phase
    shellExited  \* Exited of the boot shell

threadVars == <<used, state, owner, hosted, pc, intr, frames, exitCPU>>
queueVars  == <<svcq, ring3q>>
cpuVars    == <<running, loop, depth>>
timerVars  == <<armed, ready, fired, linked, waking>>
bootVars   == <<booted, shellExited>>
vars == <<threadVars, queueVars, cpuVars, timerVars, bootVars>>

States == {"New", "Runnable", "Running", "Parked", "Exiting"}

\* Positions at which interrupts are enabled (IF = 1) in a running thread.
\* int 0x80 is a trap gate, so the whole syscall path is among them.
Interruptible == {"wrapper", "user", "sys", "run", "wait", "parking", "yielding",
                  "signal", "wake", "closing", "exitA", "exitB", "exiting", "panic"}

\* Positions of a thread that does not execute.
Resting == {"free", "fresh", "parked", "yielded", "preempted", "dead"}

Positions == Interruptible \cup Resting \cup {"ipiyield"}

\* The position a thread is left at when it switches out.
RestOf(p) == CASE p = "parking"  -> "parked"
               [] p = "yielding" -> "yielded"
               [] p = "ipiyield" -> "preempted"
               [] p = "exiting"  -> "dead"

Leaving == {"parking", "yielding", "ipiyield", "exiting"}

\* Kernel-mode position a thread continues from: the int 0x80 handler whose
\* frame it has open, or the body of a service thread.
Base(t) == IF frames[t] = 1 THEN "sys" ELSE "run"

At(c, t, p) == running[c] = t /\ pc[t] = p

\* uint32 wrap-around.
Inc(n) == IF n = DepthMod - 1 THEN 0 ELSE n + 1
Dec(n) == IF n = 0 THEN DepthMod - 1 ELSE n - 1

-----------------------------------------------------------------------------
Init ==
    /\ used   = [t \in Slots |-> t = Shell \/ t \in Services]
    /\ state  = [t \in Slots |-> IF t = Shell \/ t \in Services
                                 THEN "Runnable" ELSE "New"]
    /\ owner  = [t \in Slots |-> BSP]
    /\ hosted = [t \in Slots |-> t = Shell]
    /\ pc     = [t \in Slots |-> IF t = Shell \/ t \in Services
                                 THEN "fresh" ELSE "free"]
    /\ intr   = [t \in Slots |-> "free"]
    /\ frames = [t \in Slots |-> 0]
    /\ exitCPU = [t \in Slots |-> BSP]
    /\ svcq    = [c \in CPUs |-> IF c = BSP THEN BootServices ELSE <<>>]
    /\ ring3q  = [c \in CPUs |-> IF c = BSP THEN <<Shell>> ELSE <<>>]
    /\ running = [c \in CPUs |-> NoThread]
    /\ loop    = [c \in CPUs |-> IF c = BSP THEN "service" ELSE "pop"]
    /\ depth   = [c \in CPUs |-> 0]
    /\ armed = {} /\ ready = {} /\ fired = {} /\ linked = {}
    /\ waking = NoThread
    /\ booted = FALSE
    /\ shellExited = FALSE

-----------------------------------------------------------------------------
(***************************************************************************)
(* Ready queues.                                                           *)
(***************************************************************************)
\* kschedPush and kschedPushRing3: h says which tier the caller routes to.
Push(t, c, h) ==
    /\ IF h
       THEN ring3q' = [ring3q EXCEPT ![c] = Append(@, t)] /\ UNCHANGED svcq
       ELSE svcq' = [svcq EXCEPT ![c] = Append(@, t)] /\ UNCHANGED ring3q
    /\ state' = [state EXCEPT ![t] = "Runnable"]
    /\ owner' = [owner EXCEPT ![t] = c]

\* The commit of a dispatch up to and including kschedSwitch, and what the
\* thread does before anyone can see it again: first entry, the return from
\* the wait loop's switch, the return from yield, or the IPI's epilogue.
Commit(c, t) ==
    /\ running' = [running EXCEPT ![c] = t]
    /\ state'   = [state EXCEPT ![t] = "Running"]
    /\ owner'   = [owner EXCEPT ![t] = c]
    /\ pc' = [pc EXCEPT ![t] = CASE @ = "fresh" /\ hosted[t] -> "wrapper"
                                 [] @ = "fresh" /\ ~hosted[t] -> "run"
                                 [] @ = "parked"    -> "wait"
                                 [] @ = "preempted" -> intr[t]
                                 [] OTHER           -> Base(t)]
    /\ IF pc[t] = "preempted"
       THEN /\ depth'  = [depth EXCEPT ![c] = Dec(@)]
            /\ frames' = [frames EXCEPT ![t] = @ - 1]
            /\ intr'   = [intr EXCEPT ![t] = "free"]
       ELSE UNCHANGED <<depth, frames, intr>>
    /\ UNCHANGED <<used, hosted, exitCPU, timerVars, bootVars>>

\* kschedLoopOnce on the BSP (the uniprocessor kernel never steals services).
PumpService ==
    /\ running[BSP] = NoThread /\ loop[BSP] = "service" /\ ~shellExited
    /\ loop' = [loop EXCEPT ![BSP] = "ring3"]
    /\ IF svcq[BSP] = <<>>
       THEN UNCHANGED <<threadVars, queueVars, running, depth, timerVars, bootVars>>
       ELSE /\ Commit(BSP, Head(svcq[BSP]))
            /\ svcq' = [svcq EXCEPT ![BSP] = Tail(@)]
            /\ UNCHANGED ring3q

\* kschedLoopRing3OnlyOnce on the BSP.
PumpRing3 ==
    /\ running[BSP] = NoThread /\ loop[BSP] = "ring3"
    /\ loop' = [loop EXCEPT ![BSP] = "service"]
    /\ IF ring3q[BSP] = <<>>
       THEN UNCHANGED <<threadVars, queueVars, running, depth, timerVars, bootVars>>
       ELSE /\ Commit(BSP, Head(ring3q[BSP]))
            /\ ring3q' = [ring3q EXCEPT ![BSP] = Tail(@)]
            /\ UNCHANGED svcq

\* kschedLoopRing3Only on an AP: its own queue first.
APPop(c) ==
    /\ booted /\ running[c] = NoThread /\ loop[c] = "pop"
    /\ IF ring3q[c] = <<>>
       THEN /\ loop' = [loop EXCEPT ![c] = "steal"]
            /\ UNCHANGED <<threadVars, queueVars, running, depth, timerVars, bootVars>>
       ELSE /\ Commit(c, Head(ring3q[c]))
            /\ ring3q' = [ring3q EXCEPT ![c] = Tail(@)]
            /\ UNCHANGED <<svcq, loop>>

\* Wrong: scans the BSP's queue as well.
StealFromAll(c) == CPUs \ {c}

\* The queues kschedStealRing3 scans: AP to AP only.
StealFrom(c) == APs \ {c}

\* ... then the other APs' queues, kschedStealRing3.
APSteal(c) ==
    /\ running[c] = NoThread /\ loop[c] = "steal"
    /\ loop' = [loop EXCEPT ![c] = "pop"]
    /\ \E d \in StealFrom(c) :
          /\ ring3q[d] # <<>>
          /\ Commit(c, Head(ring3q[d]))
          /\ ring3q' = [ring3q EXCEPT ![d] = Tail(@)]
          /\ UNCHANGED svcq

\* ... then hlt, until the wake IPI or the next timer tick.
APIdle(c) ==
    /\ running[c] = NoThread /\ loop[c] = "steal"
    /\ \A d \in StealFrom(c) : ring3q[d] = <<>>
    /\ loop' = [loop EXCEPT ![c] = "pop"]
    /\ UNCHANGED <<threadVars, queueVars, running, depth, timerVars, bootVars>>

\* The BSP's loops free an exiting thread's slot, the APs' loop does not.
Reclaims(c, t) == c = BSP /\ state[t] = "Exiting"

\* kschedSwitch to the bootstrap context and the rest of the loop body.
SwitchOut(c) ==
    \E t \in Slots :
        /\ running[c] = t /\ pc[t] \in Leaving
        /\ pc' = [pc EXCEPT ![t] = RestOf(@)]
        /\ running' = [running EXCEPT ![c] = NoThread]
        /\ used' = [used EXCEPT ![t] = @ /\ ~Reclaims(c, t)]
        /\ UNCHANGED <<state, owner, hosted, intr, frames, exitCPU, queueVars,
                       loop, depth, timerVars, bootVars>>

-----------------------------------------------------------------------------
(***************************************************************************)
(* Interrupts.                                                             *)
(***************************************************************************)
\* ring3WrapperKT's jump to Ring 3.
EnterRing3(c) ==
    \E t \in Slots :
        /\ At(c, t, "wrapper")
        /\ pc' = [pc EXCEPT ![t] = "user"]
        /\ UNCHANGED <<used, state, owner, hosted, intr, frames, exitCPU,
                       queueVars, cpuVars, timerVars, bootVars>>

\* int 0x80: isr_common bumps both depth counters of this CPU.
Syscall(c) ==
    \E t \in Slots :
        /\ At(c, t, "user")
        /\ pc'     = [pc EXCEPT ![t] = "sys"]
        /\ frames' = [frames EXCEPT ![t] = @ + 1]
        /\ depth'  = [depth EXCEPT ![c] = Inc(@)]
        /\ UNCHANGED <<used, state, owner, hosted, intr, exitCPU, queueVars,
                       running, loop, timerVars, bootVars>>

\* The epilogue of isr_common decrements those of the CPU it runs on.
SysReturn(c) ==
    \E t \in Slots :
        /\ At(c, t, "sys")
        /\ pc'     = [pc EXCEPT ![t] = "user"]
        /\ frames' = [frames EXCEPT ![t] = @ - 1]
        /\ depth'  = [depth EXCEPT ![c] = Dec(@)]
        /\ UNCHANGED <<used, state, owner, hosted, intr, exitCPU, queueVars,
                       running, loop, timerVars, bootVars>>

\* Wrong: off by one.
NotNestedByOne(c) == Inc(depth[c]) <= 2

\* handlePreemptIPI's bail-outs, after its own prologue: InterruptDepth > 1
\* and SyscallDepth > 1.
NotNested(c) == Inc(depth[c]) <= 1

\* handlePreemptIPI past its bail-outs: kschedYield inside the handler.  A
\* handler that bails out leaves everything as it was.
PreemptIPI(c) ==
    \E t \in Slots :
        /\ booted
        /\ running[c] = t /\ pc[t] \in Interruptible
        /\ NotNested(c)
        /\ Push(t, c, hosted[t])
        /\ pc'     = [pc EXCEPT ![t] = "ipiyield"]
        /\ intr'   = [intr EXCEPT ![t] = pc[t]]
        /\ frames' = [frames EXCEPT ![t] = @ + 1]
        /\ depth'  = [depth EXCEPT ![c] = Inc(@)]
        /\ UNCHANGED <<used, hosted, exitCPU, running, loop, timerVars, bootVars>>

-----------------------------------------------------------------------------
(***************************************************************************)
(* What a thread calls.                                                    *)
(***************************************************************************)
\* kschedYield, from sys_yield or from a service thread's loop.
Yield(c) ==
    \E t \in Slots :
        /\ At(c, t, Base(t)) /\ t # Dispatcher
        /\ Push(t, c, hosted[t])
        /\ pc' = [pc EXCEPT ![t] = "yielding"]
        /\ UNCHANGED <<used, hosted, intr, frames, exitCPU, cpuVars, timerVars,
                       bootVars>>

\* kschedTimedPark up to Wait: a fresh event and a timer entry.  With the
\* table full the call returns at once, which changes nothing.
TimedPark(c) ==
    \E t \in Slots :
        /\ At(c, t, Base(t)) /\ t # Dispatcher
        /\ Cardinality(armed) < TimerCap
        /\ armed' = armed \cup {t}
        /\ fired' = fired \ {t}
        /\ pc' = [pc EXCEPT ![t] = "wait"]
        /\ UNCHANGED <<used, state, owner, hosted, intr, frames, exitCPU,
                       queueVars, cpuVars, ready, linked, waking, bootVars>>

\* Wrong: Wait parks without looking at the flag.
FlagIgnored(t) == FALSE

\* The flag of the thread's event is 1.
FlagSet(t) == t \in fired

\* One round of KEvent.Wait under the event's lock.  The event is a local of
\* the waiter: it is gone when Wait returns.
WaitRound(c) ==
    \E t \in Slots :
        /\ At(c, t, "wait")
        /\ IF FlagSet(t)
           THEN /\ pc' = [pc EXCEPT ![t] = Base(t)]
                /\ fired' = fired \ {t}
                /\ UNCHANGED <<state, linked>>
           ELSE /\ pc' = [pc EXCEPT ![t] = "parking"]
                /\ state' = [state EXCEPT ![t] = "Parked"]
                /\ linked' = linked \cup {t}
                /\ UNCHANGED fired
        /\ UNCHANGED <<used, owner, hosted, intr, frames, exitCPU, queueVars, cpuVars,
                       armed, ready, waking, bootVars>>

\* timerDispatcher: take the expired entries off the table.  Which entries
\* have expired is left open.
Collect(c) ==
    /\ At(c, Dispatcher, "run")
    /\ \E E \in SUBSET armed :
          /\ armed' = armed \ E
          /\ ready' = E
    /\ pc' = [pc EXCEPT ![Dispatcher] = "signal"]
    /\ UNCHANGED <<used, state, owner, hosted, intr, frames, exitCPU,
                   queueVars, cpuVars, fired, linked, waking, bootVars>>

\* Wrong: Signal leaves the waiter on the list.
NotDetached(t) == linked

\* The waiters lists once Signal has detached t.
Detached(t) == linked \ {t}

\* KEvent.Signal, the locked part: set the flag and detach the waiter.
Signal(c) ==
    /\ At(c, Dispatcher, "signal")
    /\ \E t \in ready :
          /\ ready' = ready \ {t}
          /\ fired' = fired \cup {t}
          /\ linked' = Detached(t)
          /\ IF t \in linked
             THEN waking' = t /\ pc' = [pc EXCEPT ![Dispatcher] = "wake"]
             ELSE UNCHANGED <<waking, pc>>
    /\ UNCHANGED <<used, state, owner, hosted, intr, frames, exitCPU,
                   queueVars, cpuVars, armed, bootVars>>

\* kschedWake on the detached waiter.
Wake(c) ==
    /\ At(c, Dispatcher, "wake")
    /\ IF state[waking] = "Parked"
       THEN Push(waking, owner[waking], hosted[waking])
       ELSE UNCHANGED <<state, owner, queueVars>>
    /\ waking' = NoThread
    /\ pc' = [pc EXCEPT ![Dispatcher] = "signal"]
    /\ UNCHANGED <<used, hosted, intr, frames, exitCPU, cpuVars, armed, ready,
                   fired, linked, bootVars>>

\* The end of timerDispatcher's round.
DispatcherYield(c) ==
    /\ At(c, Dispatcher, "signal") /\ ready = {}
    /\ Push(Dispatcher, c, hosted[Dispatcher])
    /\ pc' = [pc EXCEPT ![Dispatcher] = "yielding"]
    /\ UNCHANGED <<used, hosted, intr, frames, exitCPU, cpuVars, timerVars,
                   bootVars>>

\* sys_shell_ready: the APs are released and preemption is turned on.
ShellReady(c) ==
    /\ At(c, Shell, "sys") /\ ~booted
    /\ booted' = TRUE
    /\ UNCHANGED <<threadVars, queueVars, cpuVars, timerVars, shellExited>>

\* Slots are alike, so the round-robin hint is not kept.
kthreadPoolAlloc(s) == ~used[s] /\ used' = [used EXCEPT ![s] = TRUE]

\* A slot from the pool and an initial frame.
kschedSpawnInternal(s) ==
    /\ kthreadPoolAlloc(s)
    /\ pc'     = [pc EXCEPT ![s] = "fresh"]
    /\ intr'   = [intr EXCEPT ![s] = "free"]
    /\ frames' = [frames EXCEPT ![s] = 0]

\* kschedSpawnRing3Wrapper: the new thread goes to an AP's Ring-3 queue (the
\* BSP's when there is no AP).
Spawn(c) ==
    \E t, s \in Slots :
        \E d \in (IF APs = {} THEN {BSP} ELSE APs) :
            /\ At(c, t, "sys")
            /\ kschedSpawnInternal(s)
            /\ hosted' = [hosted EXCEPT ![s] = TRUE]
            /\ Push(s, d, TRUE)
            /\ UNCHANGED <<exitCPU, cpuVars, timerVars, bootVars>>

\* kthreadPoolExhaustedPanic: the CPU stays in its hlt loop.
PoolExhausted(c) ==
    \E t \in Slots :
        /\ At(c, t, "sys")
        /\ \A s \in Slots : used[s]
        /\ pc' = [pc EXCEPT ![t] = "panic"]
        /\ UNCHANGED <<used, state, owner, hosted, intr, frames, exitCPU,
                       queueVars, cpuVars, timerVars, bootVars>>

\* Wrong: both decrements hit InterruptDepth, and neither looks first.
UncountTwice(n) == n - 2

\* processExit's decrement of a depth counter, when it is not 0.
Uncount(n) == IF n > 0 THEN n - 1 ELSE n

\* processExit up to the tear-down: Exited is set.  The syscall's frame is
\* still counted while the address space and the descriptors go away.
SetExited(c) ==
    \E t \in Slots :
        /\ At(c, t, "sys")
        /\ pc' = [pc EXCEPT ![t] = "closing"]
        /\ shellExited' = (shellExited \/ t = Shell)
        /\ UNCHANGED <<used, state, owner, hosted, intr, frames, exitCPU,
                       queueVars, cpuVars, timerVars, booted>>

\* ... then the depth counters of this CPU are decremented for the frame that
\* is abandoned, and the CPU number is kept.
ProcessExit(c) ==
    \E t \in Slots :
        /\ At(c, t, "closing")
        /\ pc'      = [pc EXCEPT ![t] = "exitA"]
        /\ frames'  = [frames EXCEPT ![t] = @ - 1]
        /\ depth'   = [depth EXCEPT ![c] = Uncount(@)]
        /\ exitCPU' = [exitCPU EXCEPT ![t] = c]
        /\ UNCHANGED <<used, state, owner, hosted, intr, queueVars, running,
                       loop, timerVars, bootVars>>

\* ... then the slot that runs on the CPU read before stops being a Ring-3
\* host.  With nothing running there the thread falls through to taskPause.
ExitClear(c) ==
    \E t \in Slots :
        /\ At(c, t, "exitA")
        /\ IF running[exitCPU[t]] # NoThread
           THEN /\ hosted' = [hosted EXCEPT ![running[exitCPU[t]]] = FALSE]
                /\ pc' = [pc EXCEPT ![t] = "exitB"]
           ELSE /\ pc' = [pc EXCEPT ![t] = "panic"]
                /\ UNCHANGED hosted
        /\ UNCHANGED <<used, state, owner, intr, frames, exitCPU, queueVars,
                       cpuVars, timerVars, bootVars>>

\* kschedExit: from processExit, or when a service thread's entry returns.
KschedExit(c) ==
    \E t \in Slots :
        /\ running[c] = t
        /\ pc[t] = "exitB" \/ (pc[t] = "run" /\ t # Dispatcher)
        /\ state' = [state EXCEPT ![t] = "Exiting"]
        /\ pc' = [pc EXCEPT ![t] = "exiting"]
        /\ UNCHANGED <<used, owner, hosted, intr, frames, exitCPU, queueVars, cpuVars,
                       timerVars, bootVars>>

-----------------------------------------------------------------------------
\* A thread that executes on two CPUs overwrites its one stack: nothing the
\* model could say about a later state would be meaningful.
OneCPUPerThread ==
    \A c, d \in CPUs : running[c] = running[d] /\ running[c] # NoThread => c = d

Dispatch(c) ==
    \/ c = BSP /\ (PumpService \/ PumpRing3)
    \/ c \in APs /\ (APPop(c) \/ APSteal(c) \/ APIdle(c))

KernelStep(c) ==
    \/ EnterRing3(c) \/ SysReturn(c) \/ Yield(c) \/ TimedPark(c) \/ WaitRound(c)
    \/ Collect(c) \/ Signal(c) \/ Wake(c) \/ DispatcherYield(c)
    \/ ShellReady(c) \/ Spawn(c) \/ PoolExhausted(c)
    \/ SetExited(c) \/ ProcessExit(c) \/ ExitClear(c) \/ KschedExit(c)

Next ==
    /\ OneCPUPerThread
    /\ \E c \in CPUs : \/ Dispatch(c) \/ SwitchOut(c)
                       \/ Syscall(c) \/ KernelStep(c) \/ PreemptIPI(c)

Spec == Init /\ [][Next]_vars

-----------------------------------------------------------------------------
(***************************************************************************)
(* Fairness, of the BSP alone: it keeps running its loop, a switch that has*)
(* begun ends, and no thread executes kernel code for ever; the timer tick *)
(* keeps raising the preempt IPI, so a CPU that may be preempted over and  *)
(* over is preempted over and over; pitTicks reaches every deadline, so the*)
(* dispatcher that looks at the table over and over finds an entry expired.*)
(* Nothing is assumed of Ring-3 code or of the APs: a process may compute  *)
(* for ever without a syscall.                                             *)
(***************************************************************************)
Executes(c, P) == \E t \in Slots : running[c] = t /\ pc[t] \in P

KernelCode == {"wrapper", "sys", "run", "wait", "signal", "wake", "closing",
               "exitA", "exitB"}

Preemptible(c) == booted /\ Executes(c, Interruptible) /\ NotNested(c)

Fairness ==
    /\ WF_vars(OneCPUPerThread /\ Dispatch(BSP))
    /\ []<>~Executes(BSP, Leaving)
    /\ []<>~Executes(BSP, KernelCode)
    /\ []<>Preemptible(BSP) => []<>Executes(BSP, {"ipiyield"})
    /\ \A t \in Services \ {Dispatcher} :
          []<>(t \in armed /\ At(BSP, Dispatcher, "run")) => []<>(t \notin armed)

LiveSpec == Spec /\ Fairness

-----------------------------------------------------------------------------
(***************************************************************************)
(* Safety.                                                                 *)
(***************************************************************************)
\* Type invariant: every slot, CPU, queue and timer entry has a value of its
\* kind (KernelThread, the per-CPU queues and the afterTicks table).
TypeOK ==
    /\ used   \in [Slots -> BOOLEAN]
    /\ state  \in [Slots -> States]
    /\ owner  \in [Slots -> CPUs]
    /\ hosted \in [Slots -> BOOLEAN]
    /\ pc     \in [Slots -> Positions]
    /\ intr   \in [Slots -> Positions]
    /\ frames \in [Slots -> Nat]
    /\ exitCPU \in [Slots -> CPUs]
    /\ svcq   \in [CPUs -> Seq(Slots)]
    /\ ring3q \in [CPUs -> Seq(Slots)]
    /\ running \in [CPUs -> Slots \cup {NoThread}]
    /\ loop   \in [CPUs -> {"service", "ring3", "pop", "steal"}]
    /\ depth  \in [CPUs -> 0..(DepthMod - 1)]
    /\ armed \subseteq Slots /\ ready \subseteq Slots
    /\ fired \subseteq Slots /\ linked \subseteq Slots
    /\ waking \in Slots \cup {NoThread}
    /\ booted \in BOOLEAN /\ shellExited \in BOOLEAN

Holds(q, t) == \E i \in 1..Len(q) : q[i] = t
NoRepeats(q) == \A i, j \in 1..Len(q) : q[i] = q[j] => i = j

\* WakeLink threads a thread onto one list only: no thread is on two ready
\* queues, twice on one, or on a ready queue and an event's waiters list.
OneListPerThread ==
    /\ \A c \in CPUs : NoRepeats(svcq[c]) /\ NoRepeats(ring3q[c])
    /\ \A c, d \in CPUs, t \in Slots :
          /\ Holds(svcq[c], t) /\ Holds(svcq[d], t) => c = d
          /\ Holds(ring3q[c], t) /\ Holds(ring3q[d], t) => c = d
          /\ ~(Holds(svcq[c], t) /\ Holds(ring3q[d], t))
    /\ \A t \in linked \cup {waking}, c \in CPUs :
          ~Holds(svcq[c], t) /\ ~Holds(ring3q[c], t)
    /\ waking \notin linked

\* A preempt IPI takes the CPU away in Ring 3, on the way there, or in the
\* tail of processExit, never inside a syscall, a park or a service thread.
PreemptSafePoint ==
    \A t \in Slots : pc[t] \in {"ipiyield", "preempted"} =>
                     intr[t] \in {"wrapper", "user", "exitA", "exitB", "exiting"}

\* A thread in Wait's park is on its way back: its event will be signalled
\* (a timer entry or the dispatcher's batch names it), or it is the waiter
\* being woken, or it is on the ready queue its host CPU looks at.
NoLostWakeup ==
    \A t \in Slots : pc[t] \in {"parking", "parked"} =>
        \/ state[t] = "Parked" /\ t \in linked /\ t \in armed \cup ready
        \/ state[t] = "Parked" /\ t = waking
        \/ state[t] = "Runnable" /\ IF hosted[t] THEN Holds(ring3q[owner[t]], t)
                                                 ELSE Holds(svcq[owner[t]], t)

\* kschedExit: the slot of a thread that has exited goes back to the pool.
ExitedSlotIsFreed == \A t \in Slots : pc[t] = "dead" => ~used[t]

\* The boot shell is never stolen, and no AP runs a service thread, as long
\* as no context is loaded twice.
BSPKeepsItsThreads ==
    OneCPUPerThread =>
        \A c \in APs, t \in Slots : running[c] = t =>
            pc[t] # "run" /\ (t = Shell => shellExited)

-----------------------------------------------------------------------------
(***************************************************************************)
(* Liveness.                                                               *)
(***************************************************************************)
Stopped == shellExited \/ \E t \in Slots : pc[t] = "panic"

\* A service thread parked with a timeout runs again, whatever the boot
\* shell and the processes on the APs do in Ring 3.
ServiceParkEnds ==
    \A t \in Services \ {Dispatcher} :
        (booted /\ ~hosted[t] /\ pc[t] = "parked")
            ~> (Stopped \/ \E c \in CPUs : running[c] = t)
=============================================================================
