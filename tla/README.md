# Verification of the gooos kernel

gooos is an x86_64 operating-system kernel written in TinyGo (`src/`). This
directory holds TLA+ models of the kernel, the TLC configurations that check
them on small instances, and proofs of the central results that TLAPS checks for
every value of the constants. Paths below are relative to `src/src/` unless they
start with a directory.

The models follow the kernel as it is built: `scheduler=none`,
`preemptEnabled`, `uniprocessorKernel` and `userspaceSMP` all on. That means:
kernel threads (not goroutines) carry everything; the *service tier* (timer
dispatcher, `netRxLoop`, `fsTask`, echo servers) and the boot shell run on the
bootstrap processor (BSP); every other process runs on an application processor
(AP), so system calls of processes on different CPUs interleave with each other
and with the BSP.

## Contents

1. The system and its models
2. Module by module: state and actions
3. Runs: what each one checks, its bounds, why they suffice
4. Fairness
5. Proofs
6. Findings
7. Where the code gives less than one might expect
8. Only model-checked
9. Counterexamples outside the runs
10. Not modelled

## 1. The system and its models

| Part of the kernel | Modules |
|---|---|
| Thread pool, ready queues, dispatch loops, yield, spawn, exit; events and the timer dispatcher; interrupt depth and the preempt IPI | `KSched`, `MCKSched`; proofs in `KSchedInv`, `KSchedEvents`, `KSchedProofs` |
| The bounded blocking queue `kthread_queue.go` and what it promises | `KQueue`, `BoundedFIFO` |
| Filesystem service and the descriptor path beside it | `FileService` (extends `KQueue`), `MCFileService`; proofs in `FileServiceProofs` |
| TCP: blocks, listeners, segment handlers, timers, socket calls, echo server | `TcpBlock` (one block's handlers), `Tcp` (composition), `MCTcp`; proofs in `TcpProofs` |
| TCP congestion window, round-trip estimator, retransmission timeout | `TcpTiming`; proofs in `TcpTimingProofs` |
| Network below TCP: e1000 rings, Ethernet, ARP, IPv4, ICMP, UDP, datagram sockets | `Net`, `Checksum`, `MCNet` |
| Processes, descriptors, wait and exit, foreground | `Process`, `MCProcess`; proofs in `ProcessProofs` |
| Pipe, page allocator, keyboard, user signals | `Pipe`, `PageAlloc`, `Keyboard`, `UserSignal` (extended by `Process`); proofs in `ComponentProofs` |

How the parts interact. `KSched` is the ground: it decides when a thread runs,
parks and wakes. The other modules use its result as an abstraction: a thread
that is runnable takes its next step at some point, service threads do not
interleave with each other except where they park or yield, and processes on APs
interleave with everything. The queue between processes and `fsTask` is composed
explicitly (`FileService` extends `KQueue`), and so are the four subsystems that
processes share (`Process` extends `Pipe`, `PageAlloc`, `Keyboard`,
`UserSignal`). `TcpTiming` looks at the arithmetic which `Tcp` leaves open: `Tcp`
lets a sender send any amount the peer's window allows, and a timer fire at any
time once it is armed, whatever the congestion window and the timeout are. The
two are not composed formally.

**The granularity of a step.** One action is one critical section, or one run of
instructions that no other CPU can observe. Where the code reads shared state and
writes it later without a lock, the read and the write are separate actions
(pipe counts, `openFileFd`, `e1000Transmit`, `tcpDispatchToTCB`, the SYN
retransmission, the stages of `processExit`). Spinlocks are not modelled as
such: a section that a lock protects is atomic.

**Abstraction of data.** File contents are lengths, keys and bytes are numbers in
order of arrival, a segment or frame is a record of the fields the handlers test.
Sequence numbers are modular (`% SeqSpace`), the depth counters are unsigned
(`% DepthMod`), as are `dupAcks` (`% DupMod`), `cwnd` (`% WordMod`) and the modifier
counters (`% HeldMod`). Internet checksums are computed
word by word in a small radix.

## 2. Module by module

### KSched

State: the pool (`used`, `state`, `owner`, `hosted`, one slot per thread), the
service queue and Ring-3 queue of each CPU (`svcq`, `ring3q`), what each CPU
executes (`running`), the next queue its loop looks at (`loop`), its
`InterruptDepth` (`depth`), the timer table and events (`armed`, `ready`,
`fired`, `linked`, `waking`). `pc[t]` is where a thread is, or where it resumes.
The windows that matter are positions of their own: `parking`, `yielding` and
`ipiyield` are a thread which is already on a list and still executes on its CPU,
because `kschedSwitch` has not saved its context.

| Actions | Code |
|---|---|
| `PumpService`, `PumpRing3`, `Commit`, `SwitchOut` | `kschedLoopOnce`, `kschedLoopRing3OnlyOnce` |
| `APPop`, `APSteal`, `APIdle` | `kschedLoopRing3Only`, `kschedPopRing3`, `kschedStealRing3` |
| `EnterRing3`, `Syscall`, `SysReturn` | `ring3WrapperKT`, `isr_common` |
| `PreemptIPI` | `handlePreemptIPI` with its bail-outs |
| `Yield`, `TimedPark`, `WaitRound` | `kschedYield`, `kschedTimedPark`, `KEvent.Wait` |
| `Collect`, `Signal`, `Wake`, `DispatcherYield` | `timerDispatcher`, `KEvent.Signal`, `kschedWake` |
| `Spawn`, `PoolExhausted` | `kschedSpawnRing3Wrapper`, `kschedSpawnInternal`, `kthreadPoolExhaustedPanic` |
| `SetExited`, `ProcessExit`, `ExitClear`, `KschedExit` | `processExit`, `kschedExit` |
| `ShellReady` | `bootActivatePostShellReady` |

`Next` has `OneCPUPerThread` as a guard: once a thread executes on two CPUs its
stack is overwritten and no later state means anything, so the model stops there.
`OneCPUPerThread` itself is checked in every such state. `processExit` is four steps:
it publishes `Exited`, much later takes its frame off the depth counters and keeps the
CPU number, then clears the host entry of whatever runs on the CPU it has kept, then
leaves.

### KQueue, BoundedFIFO, FileService

`KQueue` has the ring (`ring`, `head`, `tail`, `count`), the parked producers (an
intrusive LIFO list) and the parked consumer; `Push` and `Pop` detach a thread
under the lock and wake it in a step of its own. `BoundedFIFO` is one variable, a
sequence, with append and take-head. `FileService!Fifo` instantiates it with
`items <- Contents`, the ring read from `head`.

`FileService` has the file table, `fsTask` (`TaskPop`, `TaskServe`, `TaskFind`,
`TaskFill`, `TaskSignal`), the processes in `sys_fs_read`, `sys_fs_write`,
`sys_fs_list` (`PushReq`, `WaitReply`) and the path through `openFileFd` and
`fileFd.Write`, which does not go through `fsTask` (`Open`, `CreateScan`,
`CreateFind`, `CreateFill`, `FdWrite`, `FdAppend`).

### TcpBlock, Tcp

`TcpBlock` has one TCB as a record and the handlers that work on it alone: ACK
processing, the receive path with its partial acceptance, the retransmission
queue, the RST and FIN rules of each state. `Tcp` has the table, the listeners,
and the threads: `Arrival`/`Rx` (`tcpHandle`, whose choice of handler from an
unlocked read of the state is a step separate from the handler), `ScanPass` and
`ScanFire` (`tcpRTOScanPass`: decide in one section, fire in another), `Echo`
(`tcpEchoServer`), and for each process `Call` and `Inside` (`sysListenHandler`,
`accept`, `connect`, `send`, `recv`, `shutdown`, close, with a step per critical
section). Peers and network are one set of possible segments: any segment that a
peer could ever have sent may arrive at any time, again and in any order, which
covers loss, duplication, delay and reordering. A peer need not keep to the announced
window, and an old SYN opens a block again once its connection is gone. `clean` is a
history field: the block started with empty rings (see section 7). A *scene* says
which peers and processes take part; a behaviour keeps to one scene.

### TcpTiming

The sender side of one established connection, with the code's integer arithmetic:
`tcpCCOnAck`, `tcpCCOnDupAck`, `tcpCCOnRTO`, `tcpRTTInit`, `tcpRTTUpdate`,
`clampRTO`, and the actions `Send` (a segment leaves), `Account` (the sender's
section afterwards, which describes it in `retxQ` and starts the timer; an ACK may
come in between), `Ack`, `DupAck`, `Fire` (`tcpRTOFire`), `Tick`. Deadlines and ages
are relative, so time goes on without a bound. `cwnd` is a word of the width `WordMod`
and wraps as the code's `uint32` does.

### Net, Checksum

The receive and transmit descriptor rings with the controller as an external actor
(`Arrive`, `Depart`), `netRxLoop` and the handlers it dispatches to (ARP request
and reply, IPv4, ICMP echo, UDP, TCP), `arpResolve` with its wait,
`udpEchoServer`, and the socket calls of processes. A frame's content is chosen
when a handler looks at it. The first look into the ARP cache belongs to the step
that starts a send: before it a process works on locals only, and no other thread
writes the cache while a BSP thread comes to it. `Checksum` computes and verifies
the Internet checksum and says of a damaged packet whether verification can tell.

### Process and what it extends

`pc[p]` is where a process is in a system call. A spawn is `elfSpawn`,
`Inherit`, `Load`, `Start` (the content of the segment buffer is left out, see
section 9); wait is `SaveForeground`, `GiveForeground`, `TakeForeground`, `Reap`; exit
is `Exit`, `FreeRoot`, then `procCloseAll` and `ClearSlot` for each descriptor,
`Release`; a reference count of a pipe end changes in two steps
(`RefLoad`, `RefStore`) because `pipe.go` takes no lock. `overlap` is a history
variable that records which unlocked sections have overlapped. A blocking channel
operation in a kernel thread panics and halts the CPU: such a process is
`stuck`. `Keyboard` has the counters of shift, ctrl and alt with the keys that are
under a finger, the prefix flag (which a modifier leaves set, as in the code) and the
ring; `UserSignal` has registration, quantum accounting, delivery and `sigreturn`, which
accepts a stale frame outside a handler and ends the process on a bad one; `PageAlloc` the free stack and the bump pointer.

## 3. Runs

Runs that pass:

| Run | What it shows | Instance |
|---|---|---|
| `ksched_one_ap` | No thread executes twice, is on two lists, loses its wake-up or is preempted at an unsafe point; the shell and the services stay on the BSP; a service thread's timed park ends although the shell may compute in Ring 3 for ever | BSP and one AP, five slots (shell, dispatcher, another service, two processes, so that slots are reused and the pool runs out), two timer entries; 400 000 states |
| `fileservice` | The ring implements `BoundedFIFO`; a request is in one place; no producer is stranded; requests are answered | three processes and a ring of two, so that producers park and race; one process also opens files |
| `tcp_sockets` | What a connection that a peer opened receives is the peer's stream, in order and, after a FIN in FIN_WAIT, complete; the window fits; the timer runs while something is unacknowledged; a closing connection never reopens; a handshake ends | three scenes on one block: a process that serves, a process that connects, two peers of the echo server one after the other; peers with more bytes than the ring; sequence space 16 with initial numbers just below the wrap; windows 0 and 1 |
| `tcp_timing` | Timeout, threshold and smoothed round trip stay in range, the window does until its word wraps (which the instance reaches); a lost segment ends in an ACK or in the end of the connection | segments of one MSS, two descriptors, five ACKs of any kind, a word of four bits |
| `net_stack` | The receive ring keeps every frame in order and is drained; intact datagrams and only those reach the socket bound to the port, in order; tables stay consistent; a receiver is served | two scenes: four frames for the services alone, through a receive ring of three descriptors that holds two at a time and wraps; two frames with two processes racing for one port, one of which sends to a host behind the gateway or to the one the cache knows; a datagram queue of two, an ARP cache of two entries for three local hosts (it evicts) |
| `processes` | Ownership of pipes, pages, children and the keyboard through every interleaving of the system calls of three processes; a wait returns | the shell and two descendants, seven workloads; 330 000 states |

A workload of `processes` says which calls each process makes; a behaviour keeps
to one, so each part is explored in full and the parts are not multiplied. The
workloads are: jobs and line input, data through a pipe, duplicated descriptors,
heaps, key and line input, modifier keys, signals. `CONSTRAINT CountsSerial` does not
go on from a state in which two updates of a pipe count overlapped; `RefsExact` and
`PipeEnds` claim nothing beyond that. It cuts nothing from the jobs workload, which has
no pipe and in which `WaitReturns` has its work.

Why small is enough. The bounds let every special case of the code occur: rings
wrap and fill, caches evict, sequence numbers wrap, retransmissions run out, the
pool is exhausted, slots and blocks are recycled, counters reach their limits. A
third process adds contenders for the same resource and not another kind of step.
The second AP is the exception, and nothing that passes is claimed of it (sections 6
and 9). Bounds that cap the environment (the `frames` of a scene, `MaxSends`, `Talkers`,
`Dests`, `MaxKeys`, `MaxBytes`, `MaxOpens`, `MaxSeq`, `MaxAcks`, `NumKids`) are named as
bounds where they are declared.

Deadlock is not checked, because each of these systems may really stop: the pool-exhausted panic and the shell's exit halt the BSP, `fsTask`
panics on a file that has outgrown its array, a connection is abandoned, every
process may have exited, or the bounded environment has nothing more to send.

Runs that find a violation are listed in section 6.

Each property of a passing run has a mutant: a wrong version of a definition
(dropped guard, off-by-one, swapped order, missing reset), under which the same
run reports the property violated. The wrong versions stand in the modules under
a comment that begins with "Wrong:", and nothing uses them otherwise.

## 4. Fairness

Where it is equivalent, fairness is stated of states ("infinitely often not at this
point") and not of actions: a thread that has a step it can take does not stay where it
is for ever.

* `KSched`, of the BSP alone: it keeps executing its loop, a switch that has begun ends,
  and no thread executes kernel code for ever. The preempt IPI comes again and again
  (`handleLAPICTimer` broadcasts it 100 times a second), so a BSP that can be preempted
  over and over is preempted over and over; and a dispatcher that looks at the table
  over and over finds an entry expired (`pitTicks` passes its deadline). Ring-3 code and
  the APs owe nothing.
* `FileService`: `fsTask`, a process inside a call, and a detached wake-up go on.
  No process need make another call.
* `Tcp`: `netRxLoop` and the scanner come to the end of a segment and of a pass, a
  process to the end of a call. Strong fairness of the scanner's pass over an armed
  timer: the scanner is woken each tick and `netRxLoop` parks whenever the ring is
  empty. Peers owe nothing.
* `TcpTiming`: the clock ticks and the scanner fires.
* `Net`: the BSP goes round its threads, so `netRxLoop` stays nowhere where it can go
  on (`Pending`) and the echo service comes to the end of its queue; a call of a process
  ends or parks. The network owes nothing.
* `Process`: a process whose child has exited does not poll for ever, and does not stop
  between the poll and the reaping. Nobody need type, write, read or exit.

The first is the justification of the others: `ServiceParkEnds` is what the
fairness of service threads rests on.

## 5. Proofs

All theorems are checked by TLAPS without any unproved step. They hold for every
value of the constants that satisfies the ASSUMEs, which TLC evaluates in every
run that extends the module.

### The scheduler (KSchedInv … KSchedProofs)

Assumptions: `CPUAssumption`, `SlotAssumption` (a finite pool, distinct boot
services, the dispatcher among them, the shell not), `BoundAssumption` (more
values of the depth counter than slots), and `SingleAP`: at most one AP is
online. `SingleAP` is needed: with two APs `OneCPUPerThread` is false (section 6).
The number of slots, services and timer entries is arbitrary.

Theorems: `TypeCorrect`, `OneCPU`, `OneList`, `PreemptSafe`, `NoWakeupLost`,
`BSPKeeps`, each of the form
`SingleAP => (Spec => []P)` for the property that `ksched_one_ap` checks.

None of these is inductive by itself. The inductive invariant `IInv` is the
conjunction of

* `Exec`: a CPU executes a thread exactly when the thread is at a position of
  running code, and then the thread belongs to that CPU;
* `Kind`: which positions a Ring-3 host, a service thread and the dispatcher can be
  at, and that the CPU number cached by `processExit` is still the thread's CPU.
  This is what makes clearing the host entry of "the thread that runs there" safe;
* `StateAt`, `FramesAt`: state and open interrupt frames, by position;
* `Queued`: a thread is runnable exactly when it is on the queue of its CPU and
  tier, once. `OneListPerThread` needs the equivalence: a push is only safe if a
  thread that is not runnable is on no queue;
* `Waits`: a parked thread is linked or being woken, and its event is pending or
  fired. `NoLostWakeup` follows;
* `DepthExact`: the depth counter is the number of open frames, on which
  `PreemptSafePoint` rests. It is false with two APs (section 9);
* `ShellHome`: until its exit the shell belongs to the BSP and has a frame open
  whenever it is not in Ring 3; after its exit the BSP dispatches nothing more.

Stealing needs no clause: with one AP the set an AP steals from is empty.

There is a lemma per action (`SyscallIInv`, `PreemptIPIIInv`, ...), grouped by
module: entering Ring 3, yield and waits (`KSchedInv`), spawn, exit, switch,
preemption and timer (`KSchedEvents`), system call entry and return and the
dispatch loops (`KSchedProofs`). `NextIInv` puts them together, `Invariance` is
the temporal step.

### The request queue (FileServiceProofs)

Assumptions: `CapAssumption` (positive capacity), `NilAssumption` (nil is no
process), `ThreadAssumption` (`fsTask` and the processes are the queue's threads,
and `fsTask` is neither a process nor nil). Processes and capacity are arbitrary.

* `RequestQueueFIFO`: `Spec => RequestQueueIsFIFO`, the refinement. The ring's
  contents are a sequence only if `tail` is `count` places after `head`
  (`RingShape`); under it `EnqueueAppends` and `DequeueTakesHead` say that the two
  index updates append and take the head, across the wrap; every other action
  leaves the ring alone (`QueueStep`).
* `RequestHeld`: `Spec => []RequestHeldOnce`. A count of places cannot be carried
  through a step directly. The strengthening `HeldInv` says for which positions of
  process and `fsTask` a request is where, that it is in the ring at most once and
  never while the process is elsewhere; `HeldCounts` derives the count.
* `NoProducerStranded`: `Spec => []ProducersAdvance`. A pop wakes one producer of
  the list, so a producer could be left behind when the ring empties. `AdvanceInv`
  adds `Lists` (the lists hold threads, each once) and `Parked` (a parked thread is
  on its list or in one thread's hands to be woken, never in two).

### The TCP stack (TcpProofs)

Assumptions: `BlockAssumption` and `TableAssumption` (sizes and initial numbers are
natural numbers, the sequence space is not empty, slots and listeners are numbered,
and the zero 4-tuple is nobody's). The sets of slots, listeners, processes and
peers, the ring and queue sizes and the sequence space are arbitrary.

Theorems: `StackTyped` (`TypeOK`), `WindowAlwaysFits` (`WindowFits`), `TimerRuns`
(`RetxArmed`) and `ClosingIsFinal` (`NoRevival`), all from `StackInvariant`:
`Spec => []TcpInv`. `TcpInv` is the conjunction of

* `Blocks`: every block has well-typed fields, `active` exactly with a connection,
  the timer on while descriptors wait and, if it started with an empty ring, a
  window that fits. The timer clause holds of free slots too: `tcbAlloc` leaves the
  queue and the timer as they were, so a queue left without a timer in a freed slot
  would break `RetxArmed` with the next connection;
* `Lists`: the two queues of a listener hold slots, and no more than `Depth`.
  `tcpListenerPromote` moves an entry from one to the other, which needs the bound
  on the sum;
* `RxAt`: while `netRxLoop` holds a handler of the handshake, the block is still in
  the handshake or closed. The handler was chosen from a state read without the
  lock, and it sets ESTABLISHED: `NoRevival` rests on this clause, and the clause
  on `StaysEarly`, that no step of anyone else takes a block out of the handshake;
* `ScanAt`, `Regs`, `Socks`: what the scanner, the system calls and the sockets hold
  are blocks and listeners of the tables.

A lemma for each change of a block (`BufferedKeeps`, `AckUpdateKeeps`, ...) says
that the result is a block again, `HandledOutcome` which states a segment handler
can end in. Then there is a lemma per action, in which `SetMoved` carries a change
of one block to the table and `Framed` keeps what the action leaves alone.

### The sender's arithmetic (TcpTimingProofs)

`TimingSafe`: `Spec => []TimingInRange`, for every segment size, window, queue
length, clamp and word that `TimingAssumption` admits. Of the congestion window it says
what is true of a `uint32` that nothing caps: it is at least one segment and at most a
segment per ACK above its start, as long as that bound (`Grown`) is below the word; the
smaller of `sndWnd` and a wrapped `cwnd` can be below a segment
(`impldoc/net_tcp_flow_and_congestion.md:437-440` relies on `sndWnd` as the ceiling). The invariant `TInv` needs
`InOrder`: the descriptors' ends increase and none lies beyond what is in flight.
`retxAckTo` stops at the first descriptor an ACK does not cover; without the order
descriptors behind it could be covered too, and the ends that are kept would turn
negative (`PopsExactly`, `KeptInOrder`). `Estimate` bounds the smoothed round trip
between the smallest and largest sample through the integer divisions.

### Processes (ComponentProofs, ProcessProofs)

Assumptions: `ProcessAssumption` and the components' (sizes are natural numbers,
and a workload spawns at most `NumKids` children, which is the model's bound). The
number of processes, descriptors, programs, pages, keys and workloads is arbitrary.

* `PagesHaveOneUse`: `Spec => []PagesDisjoint`. The invariant `PageInv` says that
  the free stack holds each of its pages once and only pages below the bump
  pointer, and that what a process holds was allocated, is not on the stack, is
  nobody else's and has one use. `ComponentProofs` has what this needs of the
  allocator alone: `AllocIsFresh` (pages handed out come off the stack or from
  beyond the pointer, and are no longer there) and `FreeIsOnce` (pages given back
  that were not free are free once, also when the stack overflows and some are
  lost). `GivenPageInv` and `FreedPageInv` lift them to processes.
* `WaitsAreOwn`: `Spec => []ReapedOnce`, from `TableInv`. That a wait is for the
  caller's own child in the table is inductive only together with the life of a
  process number: the child that a spawn under way registered is unused until it is
  started, and a reference count update goes back into a spawn only if it was made for
  one. Most actions leave all of that alone; `Quiet` says what this means and
  `QuietTableInv` proves it once.
* `SignalReturns`: `Spec => []HandlerReturns`, from `SigInv`.
* `ModifiersSeen`: `Spec => []HeldKeysSeen`, from `KbdInv`. Each counter is at least the
  number of its keys that are down, whatever repeats the keyboard sends, until 2^8 make
  codes have wrapped it; a make code adds at most one element to a finite set and a break
  code removes one.

Every proof module gives the provers up to 60 seconds a leaf.

## 6. Findings

Six runs check a statement of the repository and find it violated.

* `ksched_double_dispatch`: with two APs a thread runs on two CPUs. `kschedYield`
  puts the thread on the Ring-3 queue and only then saves its context; an idle AP
  steals it in between. (`kthread_sched.go:494-497`, against
  `impldoc/no_goroutine_kernel_design/15_userspace_smp_on_aps.md:65`.)
* `ksched_slot_leak`: a thread that exits on an AP never gives its slot back.
  (`kthread_sched.go:420`, against `spinlock.go:95-98`.)
* `fs_unserialized`: two processes that open the same missing file both create it,
  because `openFileFd` works on the caller's CPU. (`fd.go:175`, against
  `fs.go:192-194`.)
* `tcp_resend`: acknowledged bytes stay in `txBuf` and go out again under new
  sequence numbers. (`netsock.go:890`, against the comment above it.)
* `tcp_stale_handler`: `netRxLoop` has chosen the handler of a segment; a process closes
  its listener, which frees the block; another process connects through the same block;
  the handler then puts the first peer's byte into the new connection. The segment's ACK
  fits because the two connections have one initial sequence number, which `isnNext`
  (`tcp.go:343`) takes from the clock: the same tick is enough. (`tcp.go:709`, against
  `tcp.go:664-669`, "each handler re-checks under tcbTableLock".)
* `keyboard_two_readers`: a background job that execs takes the foreground while the
  shell is inside its read, so two processes take keys from the ring and write one line
  buffer. (`fd.go:105`, against `fd.go:100-103`, `process.go:150-153` and
  `impldoc/shell_background_jobs.md:26`.)

## 7. Where the code gives less than one might expect

Properties are stated with these conditions, or not at all:

* Two overlapping updates of a pipe count lose one (`pipe.go:59-61` relies on a
  single CPU). `RefsExact` and `PipeEnds` are conditional.
* Once two processes read the keyboard (section 6) neither need see its keys in order,
  and restores out of order can leave the foreground with a process that has exited.
  `KeysInOrder` and `ForegroundChain` are conditional.
* In ESTABLISHED (and so in SYN_RECEIVED) a FIN counts even if its segment did not fit
  the ring: `tcpHandleEstablished` writes what fits, then advances `rcvNxt` by one for
  the FIN (`tcp.go:788-803`; `impldoc/net_tcp_state_machine.md:208` has "Advance rcvNxt
  past the FIN" with no condition). `FinMeansComplete` is stated for the states that
  FIN_WAIT_1 and FIN_WAIT_2 lead to, where the code does look (`tcp.go:963-975`).
  Extended to CLOSE_WAIT TLC refutes it in six steps: listen, SYN, the SYN|ACK in two
  steps, the arrival of a segment with both bytes and the FIN, and its handler, after
  which the ring of one holds one byte and the FIN is counted. A peer that keeps to the
  announced window does not send such a segment.
* What a connection receives in order is stated for connections that a peer opened
  (`RxInOrder`); for the others see `tcp_stale_handler`.
* `tcbAlloc` does not empty the rings of a recycled block. The stream properties
  are stated for blocks that start with empty ones (`clean`).
* A block that is freed stays in its listener's queue (`QueuesHoldConnections` in
  `Tcp` states the opposite and does not hold).
* In CLOSE_WAIT with bytes in the ring the echo server does nothing more.
* `rtoFastRetx` may outlive its fast retransmission: an ACK before the scanner
  fires leaves it set and a later timeout skips the collapse of the window
  (`tcp.go:130-133`, `tcp_retx.go:249-255`).
* A round-trip sample may come from a retransmitted descriptor when a younger,
  pristine one is acknowledged with it (`tcp_retx.go:76-78` says otherwise).
* Beyond `tcpRetxMax` descriptors a segment is sent without one, so
  `LostSegmentEnds` and `RetxArmed` speak of described segments.
* `e1000Transmit` takes no lock: two senders can fill one descriptor.
* `freeProcPML4` frees the PML4 page alone (`proc_pml4.go:94-96` says everything
  beneath); pages beyond `maxUserPages` are not recorded and so not freed.
* `sys_sigaction` inside a handler allows a nested delivery that loses the saved
  frame; `HandlerReturns` excludes it. A `sigreturn` after the handler's own is accepted
  and resumes the old frame once more. Signals are delivered on the BSP only.
* A typematic repeat of a held shift counts it again, so a released key may stay
  counted: `HeldKeysSeen` says only that a key which is down is (section 9).
* A file that outgrows its array makes `fsTask` panic; `RequestAnswered` says so.

## 8. Only model-checked

* Liveness (`ServiceParkEnds`, `RequestAnswered`, `HandshakeEnds`,
  `LostSegmentEnds`, `RingDrained`, `ReceiverServed`, `WaitReturns`): temporal
  reasoning with fairness is beyond the prover.
* `RxInOrder` and `FinMeansComplete` of `Tcp`: what they say of a stream needs an
  invariant that relates every segment in hand to the block it was routed to.
* `Net`, all of it (`Delivery`, `TablesConsistent`, `RxRingExact` and the types).
  `Checksum` is a recursive definition, about which the prover cannot reason by
  induction.
* `RefsExact` and `PipeEnds` of `Process`, which count descriptor slots.
* `ForegroundChain` and `KeysInOrder`: the chain of waits is a recursive function,
  and what it is after a step takes an induction along the chain.
* The types of `FileService` and `Process`. The latter bounds the counts of a pipe
  (`PipeType`), which no step enforces once updates overlap.
* Two APs are explored only up to the double dispatch of section 6.

## 9. Counterexamples outside the runs

What follows is behaviour of the code that has no run of its own; no property of a
passing run claims the opposite.

**Two APs and the depth counters** (`process.go:628`, `goroutine_irq.go:74-103`).
`InterruptDepth` and `SyscallDepth` belong to a CPU, a frame to a thread, and
`kschedStealRing3` moves threads. `KSched` with `CPUs = {0, 1, 2}` and four slots, after
the boot (seven steps up to the shell's system call, one for `ShellReady`):

* 14 steps: the shell spawns k1, AP 1 dispatches it, the IPI preempts it and counts one
  frame on AP 1; the switch completes, AP 2 finds its own queue empty, steals k1, and
  the way out of the IPI decrements AP 2's counter from 0: it wraps, and AP 1's stays at 1.
  From then on AP 1 looks nested and is not preempted any more.
* 17 steps: k1 enters a system call on AP 1 and yields in it, AP 2 steals it, and the IPI
  finds AP 2's counter at 1, its own: it preempts inside the system call
  (`PreemptSafePoint`), against `goroutine_irq.go:80-82`, "SyscallDepth > 1 -> a real int
  0x80 syscall handler is active above us".
* 21 steps: the shell spawns k1 and k2; k1 runs on AP 1 and exits, its `processExit`
  has taken the frame off the counter and kept the CPU number 1 (`process.go:627`) when
  the IPI preempts it; AP 1 dispatches k2, AP 2 steals k1, and k1 clears the host entry
  of the thread that runs on AP 1, which is k2.

In each of these the steal comes after the switch, so they are apart from the double
dispatch. With one AP nothing is stolen and none of them can happen.

**Two spawns and the segment buffer** (`elf.go:83-92`). `elfParse` returns a slice of one
static array, and `elf.go:91-92` asks that callers "consume the data before calling
elfParse again". `elfSpawn` consumes it while it allocates and copies, with no lock: a
process on AP 1 parses program A, a process on AP 2 parses program B over it, and the
first loads B's segments with A's entry point. `Process` leaves the content of the buffer
out; what could be said of it is that without overlap it holds what was put there.

**Modifier counters** (`keyboard.go:114-133`). Each make code increments a `uint8` and
each break code decrements it if it is not zero. Press shift, one repeat, release: the
counter is 1 and every later key is shifted. Hold it for 256 make codes: the counter is
0 and the key does not count as held. `Keyboard` has both, with `HeldMod` for 2^8; the
first is why `HeldKeysSeen` is one-sided, the second is the `wrapped` in it.

## 10. Not modelled

* Boot, PCI enumeration, interrupt controllers, page-table contents, device reset:
  sequential register and table writes by one CPU, whose correctness is a matter
  of hardware manuals and not of interleaved state. The hand-over to the
  operational phase is `ShellReady`.
* Console, serial port, VGA, counters, diagnostics, `ps`: output only; no modelled
  decision reads it.
* Spinlocks as an algorithm, and the lock order.
* ELF header validation, page faults, contiguous allocation, header encodings:
  layout and translation with no state between calls.
* `fileFd` as an entry of a process's descriptor table (its effect on files is in
  `FileService`), `getargs`, the VGA calls.
* The netbuf pool and delayed ACKs: no code outside a self-test uses or arms them.
* The goroutine runtime shims and the code of the goroutine build, which this
  configuration does not enter (`kschedPark`, `kschedLoop`, `fsDelete` have no
  caller either).
* The programs under `user/`: they are any sequence of the system calls.
