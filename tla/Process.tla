------------------------------ MODULE Process -------------------------------
(* Processes and their system calls: spawn, exec, wait, exit (process.go,    *)
(* userspace.go), the descriptor table (fd.go) and the parts those calls     *)
(* share between CPUs: the pipe, the page allocator and the keyboard.  The   *)
(* boot shell runs on the bootstrap CPU and its descendants on the others,   *)
(* so the system calls of different processes interleave; procLock makes     *)
(* single steps of them atomic.                                              *)
(*                                                                           *)
(* pc[p] = "user" is Ring 3.  A blocking operation on a Go channel panics    *)
(* in a kernel thread and halts its CPU: pc[p] = "stuck".                    *)
EXTENDS Pipe, PageAlloc, Keyboard, UserSignal

CONSTANTS NumKids,      \* bound: processes ever spawned
          procMaxFDs,
          Workloads,    \* the calls each process makes, and how many children
          ReadBytes,    \* bytes asked for by one read
          MaxLine,      \* capacity of sysReadLineBuf
          maxUserPages,
          HeapPages     \* userHeapLimit, in pages

Shell == 0
Kids == 1 .. NumKids
Procs == Shell .. NumKids
Fds == 1 .. procMaxFDs
Nil == "nil"
Descs == {Nil, "console"} \cup Ends

ASSUME ProcessAssumption ==
    /\ {NumKids, procMaxFDs, ReadBytes, MaxLine, maxUserPages, HeapPages} \subseteq Nat
    /\ Workloads # {}
    /\ \A w \in Workloads : w.kids \in 0 .. NumKids

VARIABLES work,         \* the workload of this behaviour
          nextPID, parent, listed, exited,  \* the process table
          foreground,
          fds,
          pages, root, tables,  \* recorded user pages, PML4 page, lower tables
          grown,        \* HeapBreak: pages of heap
          line,         \* sysReadLineBuf: the events of the line so far
          pc, loc,
          eof, epipe,   \* history: a reader saw EOF, a writer EPIPE
          overlap       \* history: unlocked sections that overlapped

table == <<nextPID, parent, listed, exited>>
memory == <<mem, pages, root, tables, grown>>
control == <<pc, loc>>
history == <<eof, epipe, overlap>>
vars == <<work, table, foreground, fds, memory, line, control, history,
          pipe, kbd, sig>>

\* exec also says, of a keyboard read, that it reads a line.
Idle == [c |-> 0, prev |-> 0, fd |-> 0, end |-> "rd", by |-> 0, val |-> 0,
         then |-> "user", n |-> 0, got |-> 0, exec |-> FALSE]

Goto(p, label) == pc' = [pc EXCEPT ![p] = label] /\ UNCHANGED loc
Enter(p, label, locals) ==
    pc' = [pc EXCEPT ![p] = label] /\ loc' = [loc EXCEPT ![p] = locals]
Return(p) == Enter(p, "user", Idle)

\* Process p, in Ring 3, makes the named system call.
Call(p, name) == pc[p] = "user" /\ name \in work.calls[p]

\* Page identities are followed in the workloads that grow the heap.
Frames(n) == IF \E p \in Procs : "sbrk" \in work.calls[p] THEN n ELSE 0

-----------------------------------------------------------------------------
(* elfSpawn.                                                                 *)

\* The address space of a new process: a PML4 page and the private tables
\* under its first entry.
newProcPML4(c) ==
    LET got == allocPage(mem, Frames(2))
    IN  /\ root' = [root EXCEPT ![c] = IF got = {} THEN {} ELSE {Min(got)}]
        /\ tables' = [tables EXCEPT ![c] = IF got = {} THEN {} ELSE {Max(got)}]
        /\ mem' = Allocated(mem, Frames(2))

\* It enters the process table under procLock.  exec goes on to wait for it.
elfSpawn(p, exec) ==
    LET c == nextPID
    IN  /\ c <= work.kids
        /\ nextPID' = c + 1
        /\ parent' = [parent EXCEPT ![c] = p]
        /\ listed' = listed \cup {c}
        /\ newProcPML4(c)
        /\ Enter(p, "inherit", [Idle EXCEPT !.c = c, !.fd = 1, !.exec = exec])
        /\ UNCHANGED <<work, exited, foreground, fds, pages, grown, line,
                       history, pipe, kbd, sig>>

sysSpawn(p) == Call(p, "spawn") /\ elfSpawn(p, FALSE)
sysExec(p) == Call(p, "exec") /\ elfSpawn(p, TRUE)

\* The slots from loc.fd up to the next pipe end are copied, and that end
\* gains a reference.
Pending(p) == {i \in Fds : i >= loc[p].fd /\ fds[p][i] \in Ends}

Inherit(p) ==
    LET c == loc[p].c
        last == IF Pending(p) = {} THEN procMaxFDs ELSE Min(Pending(p))
        copied == [i \in Fds |-> IF i \in loc[p].fd .. last THEN fds[p][i]
                                 ELSE fds[c][i]]
    IN  /\ pc[p] = "inherit"
        /\ fds' = [fds EXCEPT ![c] = copied]
        /\ IF Pending(p) = {}
           THEN Enter(p, "load", [loc[p] EXCEPT !.fd = 0])
           ELSE Enter(p, "ref", [loc[p] EXCEPT !.fd = last + 1, !.by = 1,
                                 !.end = fds[p][last], !.then = "inherit"])
        /\ UNCHANGED <<work, table, foreground, memory, line, history, pipe,
                       kbd, sig>>

\* Wrong: pages are recorded beyond the limit.
AlwaysRecords(recorded, new) == recorded \cup new

\* The segments, the argument page and the stack are mapped through a table
\* page of their own and recorded.
processRecordPage(recorded, new) ==
    IF Cardinality(recorded) + Cardinality(new) <= maxUserPages
    THEN recorded \cup new ELSE recorded

\* mapPageInto takes a page for the table walkOrCreate adds.
Mapped(got) == IF got = {} THEN {} ELSE {Max(got)}

Load(p) ==
    LET c == loc[p].c  got == allocPage(mem, Frames(2))
    IN  /\ pc[p] = "load"
        /\ tables' = [tables EXCEPT ![c] = @ \cup Mapped(got)]
        /\ pages' = [pages EXCEPT ![c] = processRecordPage({}, got \ Mapped(got))]
        /\ mem' = Allocated(mem, Frames(2))
        /\ Goto(p, "start")
        /\ UNCHANGED <<work, table, foreground, fds, root, grown, line,
                       history, pipe, kbd, sig>>

\* kschedSpawnRing3Wrapper queues the child's thread; spawn returns and exec
\* goes on to wait.
AfterSpawn(p) == IF loc[p].exec THEN "wait" ELSE "user"

Start(p) ==
    /\ pc[p] = "start"
    /\ pc' = [pc EXCEPT ![p] = AfterSpawn(p), ![loc[p].c] = "ready"]
    /\ loc' = [loc EXCEPT ![p] = [Idle EXCEPT !.c = IF loc[p].exec THEN loc[p].c
                                                    ELSE 0]]
    /\ UNCHANGED <<work, table, foreground, fds, memory, line, history, pipe,
                   kbd, sig>>

\* The child's thread is dispatched and enters Ring 3.
ring3WrapperKT(p) ==
    /\ pc[p] = "ready"
    /\ Goto(p, "user")
    /\ UNCHANGED <<work, table, foreground, fds, memory, line, history, pipe,
                   kbd, sig>>

-----------------------------------------------------------------------------
(* processWait and sys_waitpid.                                              *)

\* Wrong: anybody's child.
AnyListed(p, c) == c \in listed
IsChild(p, c) == c \in listed /\ parent[c] = p

sysWait(p) ==
    \E c \in Kids :
        /\ Call(p, "wait")
        /\ IsChild(p, c)
        /\ Enter(p, "wait", [Idle EXCEPT !.c = c])
        /\ UNCHANGED <<work, table, foreground, fds, memory, line, history,
                       pipe, kbd, sig>>

\* A wait begun by a process that does not own the keyboard is remembered.
SaveForeground(p) ==
    /\ pc[p] = "wait"
    /\ overlap' = IF foreground # p THEN overlap \cup {"foreground"} ELSE overlap
    /\ Enter(p, "give", [loc[p] EXCEPT !.prev = foreground])
    /\ UNCHANGED <<work, table, foreground, fds, memory, line, eof, epipe,
                   pipe, kbd, sig>>

GiveForeground(p) ==
    /\ pc[p] = "give"
    /\ foreground' = loc[p].c
    /\ Goto(p, "poll")
    /\ UNCHANGED <<work, table, fds, memory, line, history, pipe, kbd, sig>>

\* Wrong: the keyboard is not given back.
KeepsForeground(p) == foreground
Previous(p) == loc[p].prev

\* Wrong: only a child that still has the keyboard is done.
DoneInFront(p) == loc[p].c \in exited /\ foreground = loc[p].c
Done(p) == loc[p].c \in exited

\* The caller parks for a tick at a time until Exited is set.
TakeForeground(p) ==
    /\ pc[p] = "poll"
    /\ Done(p)
    /\ foreground' = Previous(p)
    /\ Goto(p, "reap")
    /\ UNCHANGED <<work, table, fds, memory, line, history, pipe, kbd, sig>>

Reap(p) ==
    /\ pc[p] = "reap"
    /\ listed' = listed \ {loc[p].c}
    /\ Return(p)
    /\ UNCHANGED <<work, nextPID, parent, exited, foreground, fds, memory,
                   line, history, pipe, kbd, sig>>

\* WNOHANG: an exited child is reaped at once, a running one left alone.
sysWaitpid(p) ==
    \E c \in Kids :
        /\ Call(p, "waitpid")
        /\ IsChild(p, c)
        /\ c \in exited
        /\ listed' = listed \ {c}
        /\ UNCHANGED <<work, nextPID, parent, exited, foreground, fds, memory,
                       line, control, history, pipe, kbd, sig>>

-----------------------------------------------------------------------------
(* processExit.  The boot shell does not exit.                               *)

\* Under procLock: the user pages are freed and the exit published.
Exit(p) ==
    /\ Call(p, "exit")
    /\ p # Shell
    /\ mem' = freePage(mem, pages[p])
    /\ pages' = [pages EXCEPT ![p] = {}]
    /\ exited' = exited \cup {p}
    /\ Goto(p, "untable")
    /\ UNCHANGED <<work, nextPID, parent, listed, foreground, fds, root,
                   tables, grown, line, history, pipe, kbd, sig>>

\* freeProcPML4 walks PML4[1..511], which are empty: the tables under PML4[0]
\* stay allocated for good.
freeProcPML4(p) ==
    /\ mem' = freePage(mem, root[p])
    /\ root' = [root EXCEPT ![p] = {}]
    /\ UNCHANGED tables

FreeRoot(p) ==
    /\ pc[p] = "untable"
    /\ freeProcPML4(p)
    /\ Goto(p, "closeall")
    /\ UNCHANGED <<work, table, foreground, fds, pages, grown, line, history,
                   pipe, kbd, sig>>

\* A pipe end at a time: Close, then the slot is cleared.
procCloseAll(p) ==
    LET held == {i \in Fds : fds[p][i] \in Ends}
    IN  /\ pc[p] = "closeall"
        /\ IF held = {}
           THEN fds' = [fds EXCEPT ![p] = [i \in Fds |-> Nil]] /\ Enter(p, "release", Idle)
           ELSE /\ Enter(p, "ref", [Idle EXCEPT !.fd = Min(held), !.by = -1,
                                    !.end = fds[p][Min(held)], !.then = "clear"])
                /\ UNCHANGED fds
        /\ UNCHANGED <<work, table, foreground, memory, line, history, pipe,
                       kbd, sig>>

ClearSlot(p) ==
    /\ pc[p] = "clear"
    /\ fds' = [fds EXCEPT ![p][loc[p].fd] = Nil]
    /\ Enter(p, "closeall", Idle)
    /\ UNCHANGED <<work, table, foreground, memory, line, history, pipe, kbd,
                   sig>>

\* The pool slot and the hosting thread are given up.
Release(p) ==
    /\ pc[p] = "release"
    /\ Goto(p, "dead")
    /\ UNCHANGED <<work, table, foreground, fds, memory, line, history, pipe,
                   kbd, sig>>

-----------------------------------------------------------------------------
(* sys_sbrk: pages past maxUserPages are mapped but not recorded.  A heap    *)
(* that grows into the next 2 MiB also needs a table page.                   *)

sysSbrk(p) ==
    \E n \in 1 .. 2 :
        LET got == allocPage(mem, n)
            table2M == IF n = 1 THEN {} ELSE Mapped(got)
        IN  /\ Call(p, "sbrk")
            /\ grown[p] < HeapPages
            /\ grown' = [grown EXCEPT ![p] = @ + 1]
            /\ tables' = [tables EXCEPT ![p] = @ \cup table2M]
            /\ pages' = [pages EXCEPT ![p] = processRecordPage(@, got \ table2M)]
            /\ mem' = Allocated(mem, n)
            /\ UNCHANGED <<work, table, foreground, fds, root, line, control,
                           history, pipe, kbd, sig>>

-----------------------------------------------------------------------------
(* Reference counts: fdAddRef (by = 1) and Close (by = -1) on loc.end, then  *)
(* on to loc.then.                                                           *)

Continue(p) ==
    IF loc[p].then = "user" THEN Return(p)
    ELSE Enter(p, loc[p].then, [loc[p] EXCEPT !.by = 0, !.val = 0, !.end = "rd",
                                              !.then = "user"])

\* Another process is between its load of the count and its last look at it.
Counting(q, e) == pc[q] \in {"store", "check"} /\ loc[q].end = e

RefLoad(p) ==
    LET e == loc[p].end
    IN  /\ pc[p] = "ref"
        /\ overlap' = IF \E q \in Procs \ {p} : Counting(q, e)
                      THEN overlap \cup {"pipe"} ELSE overlap
        /\ CASE loc[p].by < 0 /\ pipe.closed[e] -> Continue(p)
             [] loc[p].by < 0 /\ ~pipe.closed[e] /\ pipe.refs[e] <= 0 ->
                    Goto(p, "check")
             [] OTHER -> Enter(p, "store", [loc[p] EXCEPT !.val = pipe.refs[e]])
        /\ UNCHANGED <<work, table, foreground, fds, memory, line, eof, epipe,
                       pipe, kbd, sig>>

\* Wrong: a child's new reference is not counted.
NoBump(p) == IF loc[p].then = "inherit" THEN loc[p].val ELSE loc[p].val + loc[p].by
Counted(p) == loc[p].val + loc[p].by

RefStore(p) ==
    /\ pc[p] = "store"
    /\ pipe' = [pipe EXCEPT !.refs[loc[p].end] = Counted(p)]
    /\ IF loc[p].by > 0 THEN Continue(p)
       ELSE Enter(p, "check", [loc[p] EXCEPT !.val = 0])
    /\ UNCHANGED <<work, table, foreground, fds, memory, line, history, kbd,
                   sig>>

\* Closing a closed channel panics.
RefCheck(p) ==
    LET e == loc[p].end
    IN  /\ pc[p] = "check"
        /\ IF LastReference(e)
           THEN IF e = "wr" /\ pipe.chClosed
                THEN Enter(p, "stuck", Idle) /\ UNCHANGED pipe
                ELSE Continue(p) /\ pipe' = Closed(e)
           ELSE Continue(p) /\ UNCHANGED pipe
        /\ UNCHANGED <<work, table, foreground, fds, memory, line, history, kbd,
                       sig>>

-----------------------------------------------------------------------------
(* The descriptor table.                                                     *)

Free(p) == {i \in Fds : fds[p][i] = Nil}

\* sys_pipe takes the two lowest free slots.  With fewer it undoes what it
\* did and fails.
sysPipe(p) ==
    /\ Call(p, "pipe")
    /\ ~pipe.made
    /\ Cardinality(Free(p)) >= 2
    /\ LET r == Min(Free(p))  w == Min(Free(p) \ {r})
       IN  fds' = [fds EXCEPT ![p][r] = "rd", ![p][w] = "wr"]
    /\ newPipe
    /\ UNCHANGED <<work, table, foreground, memory, line, control, history, kbd,
                   sig>>

\* procClose clears the slot, then drops the reference.
procClose(p, i) ==
    /\ fds[p][i] # Nil
    /\ fds' = [fds EXCEPT ![p][i] = Nil]
    /\ IF fds[p][i] \in Ends
       THEN Enter(p, "ref", [Idle EXCEPT !.by = -1, !.end = fds[p][i]])
       ELSE UNCHANGED control

sysClose(p) ==
    /\ Call(p, "close")
    /\ \E i \in Fds : procClose(p, i)
    /\ UNCHANGED <<work, table, foreground, memory, line, history, pipe, kbd,
                   sig>>

\* procDup2 closes what newfd holds, then overwrites it with oldfd (in loc.n).
procDup2(p, i, j) ==
    LET at == [Idle EXCEPT !.n = i, !.fd = j]
    IN  /\ i # j
        /\ fds[p][i] # Nil
        /\ IF fds[p][j] \in Ends
           THEN Enter(p, "ref", [at EXCEPT !.by = -1, !.end = fds[p][j],
                                           !.then = "dup"])
           ELSE Enter(p, "dup", at)

sysDup2(p) ==
    /\ Call(p, "dup2")
    /\ \E i, j \in Fds : procDup2(p, i, j)
    /\ UNCHANGED <<work, table, foreground, fds, memory, line, history, pipe, kbd,
                   sig>>

DupCopy(p) ==
    LET d == fds[p][loc[p].n]
    IN  /\ pc[p] = "dup"
        /\ fds' = [fds EXCEPT ![p][loc[p].fd] = d]
        /\ IF d \in Ends THEN Enter(p, "ref", [Idle EXCEPT !.by = 1, !.end = d])
           ELSE Return(p)
        /\ UNCHANGED <<work, table, foreground, memory, line, history, pipe,
                       kbd, sig>>

-----------------------------------------------------------------------------
(* Reading and writing the pipe.  A write is of one byte: a longer one       *)
(* repeats the same two steps.                                               *)

Holds(p, d) == \E i \in Fds : fds[p][i] = d
Writing == {q \in Procs : pc[q] \in {"rdcheck", "send"}}

sysWrite(p) ==
    /\ Call(p, "write")
    /\ Holds(p, "wr")
    /\ ~pipe.closed["wr"]
    /\ pipe.sent + Cardinality(Writing) < MaxBytes
    /\ Goto(p, "rdcheck")
    /\ UNCHANGED <<work, table, foreground, fds, memory, line, history, pipe,
                   kbd, sig>>

CheckReader(p) ==
    /\ pc[p] = "rdcheck"
    /\ IF pipe.closed["rd"] THEN Return(p) /\ epipe' = TRUE
       ELSE Goto(p, "send") /\ UNCHANGED epipe
    /\ UNCHANGED <<work, table, foreground, fds, memory, line, eof, overlap,
                   pipe, kbd, sig>>

\* Sending on a closed channel panics, and so does waiting on a full one.
SendByte(p) ==
    /\ pc[p] = "send"
    /\ IF pipe.chClosed \/ pipe.ch = pipeBufBytes
       THEN Enter(p, "stuck", Idle) /\ UNCHANGED pipe
       ELSE Return(p) /\ Send
    /\ UNCHANGED <<work, table, foreground, fds, memory, line, history, kbd,
                   sig>>

sysRead(p) ==
    /\ Call(p, "read")
    /\ Holds(p, "rd")
    /\ Enter(p, "recv", [Idle EXCEPT !.n = ReadBytes])
    /\ UNCHANGED <<work, table, foreground, fds, memory, line, history, pipe,
                   kbd, sig>>

\* A read goes on until its buffer is full or the channel is closed; waiting
\* on an empty open channel panics.
ReceiveByte(p) ==
    /\ pc[p] = "recv"
    /\ CASE pipe.ch > 0 ->
                /\ Receive
                /\ UNCHANGED eof
                /\ IF loc[p].n = 1 THEN Return(p)
                   ELSE Enter(p, "recv", [loc[p] EXCEPT !.n = @ - 1, !.got = 1])
         [] pipe.ch = 0 /\ pipe.chClosed ->
                /\ eof' = (eof \/ loc[p].got = 0)
                /\ Return(p)
                /\ UNCHANGED pipe
         [] OTHER -> Enter(p, "stuck", Idle) /\ UNCHANGED <<pipe, eof>>
    /\ UNCHANGED <<work, table, foreground, fds, memory, line, epipe, overlap,
                   kbd, sig>>

-----------------------------------------------------------------------------
(* Reading the keyboard: consoleStdin.Read and sys_read_key.  Any process    *)
(* but the foreground one is turned away at once.                            *)

\* Wrong: anybody may read.
AnyReader(p) == TRUE
OwnsKeyboard(p) == foreground = p

Reading == {p \in Procs : pc[p] \in {"key", "tail"}}

\* That a second process begins to read is remembered.
TakesKeyboard(p) ==
    /\ OwnsKeyboard(p)
    /\ overlap' = IF Reading # {} THEN overlap \cup {"readers"} ELSE overlap
    /\ UNCHANGED <<work, table, foreground, fds, memory, eof, epipe, pipe, kbd,
                   sig>>

\* consoleStdin.Read, which starts the shared line buffer afresh.
ReadLine(p) ==
    /\ Call(p, "readline")
    /\ TakesKeyboard(p)
    /\ line' = <<>>
    /\ Enter(p, "key", [Idle EXCEPT !.exec = TRUE])

sysReadKey(p) ==
    /\ Call(p, "readkey")
    /\ TakesKeyboard(p)
    /\ UNCHANGED line
    /\ Goto(p, "key")

\* keyboardReadEventBlocking parks for a tick at a time while there is none.
LoadEvent(p) ==
    /\ pc[p] = "key"
    /\ HasEvent
    /\ Enter(p, "tail", [loc[p] EXCEPT !.val = kbd.tail, !.got = EventAt(kbd.tail)])
    /\ UNCHANGED <<work, table, foreground, fds, memory, line, history, pipe,
                   kbd, sig>>

\* The key is a character, Backspace or Enter, which ends the line: its
\* reader copies it out.
StoreEvent(p) ==
    /\ pc[p] = "tail"
    /\ StoreTail(loc[p].val)
    /\ \/ ~loc[p].exec /\ Return(p) /\ UNCHANGED line
       \/ loc[p].exec /\ Return(p) /\ line' = <<>>
       \/ /\ loc[p].exec
          /\ Enter(p, "key", [Idle EXCEPT !.exec = TRUE])
          /\ line' \in {IF line = <<>> THEN line ELSE SubSeq(line, 1, Len(line) - 1),
                        IF Len(line) < MaxLine THEN Append(line, loc[p].got)
                        ELSE line}
    /\ UNCHANGED <<work, table, foreground, fds, memory, history, pipe, sig>>

Typing ==
    /\ \/ "keys" \in work.calls[Shell] /\ KeyDown
       \/ "modifiers" \in work.calls[Shell] /\ (KeyUp \/ Prefix)
       \/ "modifiers" \in work.calls[Shell] /\ \E k \in ModKeys : ModDown(k) \/ ModUp(k)
    /\ UNCHANGED <<work, table, foreground, fds, memory, line, control, history,
                   pipe, sig>>

-----------------------------------------------------------------------------
(* Signals of the boot shell.  A frame that fails the checks of sys_sigreturn*)
(* ends the process.                                                         *)

Signals ==
    /\ "sigaction" \in work.calls[Shell]
    /\ \/ Call(Shell, "sigaction") /\ (sysSigaction \/ sysSigreturn) /\ UNCHANGED control
       \/ handleLAPICTimer(pc[Shell] = "user") /\ UNCHANGED control
       \/ Call(Shell, "sigaction") /\ BadFrame /\ Enter(Shell, "dead", Idle)
    /\ UNCHANGED <<work, table, foreground, fds, memory, line, history, pipe,
                   kbd>>

-----------------------------------------------------------------------------
\* elfLoad starts the boot shell as the foreground process with the console
\* on its standard descriptors.
Init ==
    /\ work \in Workloads
    /\ nextPID = 1
    /\ parent = [p \in Kids |-> Shell]
    /\ listed = {}
    /\ exited = {}
    /\ foreground = Shell
    /\ fds = [p \in Procs |-> [i \in Fds |-> IF p = Shell /\ i = 1 THEN "console"
                                             ELSE Nil]]
    /\ pages = [p \in Procs |-> {}]
    /\ root = [p \in Procs |-> {}]
    /\ tables = [p \in Procs |-> {}]
    /\ grown = [p \in Procs |-> 0]
    /\ line = <<>>
    /\ pc = [p \in Procs |-> IF p = Shell THEN "user" ELSE "unused"]
    /\ loc = [p \in Procs |-> Idle]
    /\ eof = FALSE /\ epipe = FALSE /\ overlap = {}
    /\ PipeInit /\ MemInit /\ KbdInit /\ SigInit

SystemCall(p) ==
    \/ sysSpawn(p) \/ sysExec(p) \/ sysWait(p) \/ sysWaitpid(p) \/ Exit(p) \/ sysSbrk(p)
    \/ sysPipe(p) \/ sysClose(p) \/ sysDup2(p) \/ sysWrite(p) \/ sysRead(p)
    \/ ReadLine(p) \/ sysReadKey(p)

\* The rest of a system call, once begun.
Kernel(p) ==
    \/ Inherit(p) \/ Load(p) \/ Start(p) \/ ring3WrapperKT(p)
    \/ SaveForeground(p) \/ GiveForeground(p) \/ TakeForeground(p) \/ Reap(p)
    \/ FreeRoot(p) \/ procCloseAll(p) \/ ClearSlot(p) \/ Release(p)
    \/ RefLoad(p) \/ RefStore(p) \/ RefCheck(p) \/ DupCopy(p)
    \/ CheckReader(p) \/ SendByte(p) \/ ReceiveByte(p)
    \/ LoadEvent(p) \/ StoreEvent(p)

Next == (\E p \in Procs : SystemCall(p) \/ Kernel(p)) \/ Typing \/ Signals

Spec == Init /\ [][Next]_vars

\* The scheduler gives every runnable process its turn: a process whose child
\* has exited does not poll for ever, nor stop before it reaps.
Fairness ==
    \A p \in Procs : /\ []<>~(pc[p] = "poll" /\ Done(p))
                      /\ []<>(pc[p] # "reap")

LiveSpec == Spec /\ Fairness

-----------------------------------------------------------------------------
(* Properties.                                                               *)

\* Type invariant: the process table, descriptors, locals and components have
\* the shapes the handlers rely on.
TypeOK ==
    /\ nextPID \in 1 .. NumKids + 1
    /\ parent \in [Kids -> Procs]
    /\ listed \subseteq 1 .. nextPID - 1
    /\ exited \subseteq 1 .. nextPID - 1
    /\ foreground \in Procs
    /\ fds \in [Procs -> [Fds -> Descs]]
    /\ \A p \in Procs : Cardinality(pages[p]) <= maxUserPages
    /\ pipe \in PipeType /\ kbd \in KbdType /\ sig \in SigType
    /\ Len(mem.free) <= freeStackCap
    /\ Len(line) <= MaxLine

\* The slots that refer to an end.  procCloseAll and procDup2 close before they
\* clear or overwrite a slot; what such a slot still holds is no reference.
Dropped ==
    {<<p, loc[p].fd>> : p \in {q \in Procs :
        \/ pc[q] \in {"clear", "dup"}
        \/ pc[q] = "check" /\ loc[q].then # "user"}}
Slots(e) == {s \in Procs \X Fds : fds[s[1]][s[2]] = e} \ Dropped

Adding(e) ==
    {p \in Procs : pc[p] \in {"ref", "store"} /\ loc[p].end = e /\ loc[p].by = 1}
Dropping(e) ==
    {p \in Procs : pc[p] \in {"ref", "store"} /\ loc[p].end = e /\ loc[p].by = -1
                   /\ loc[p].then = "user"}

\* A pipe end's count is the number of descriptor slots that refer to the end,
\* but for the updates still under way, through any sequence of spawn, dup2,
\* close and exit of several processes: as long as no two of them updated it
\* at once (pipe.go takes no lock).
RefsExact ==
    "pipe" \notin overlap =>
        \A e \in Ends :
            pipe.refs[e] = Cardinality(Slots(e)) + Cardinality(Dropping(e))
                               - Cardinality(Adding(e))

Referenced(e) ==
    Slots(e) # {} \/ \E p \in Procs : pc[p] \in {"ref", "store", "check"}
                                      /\ loc[p].end = e

\* Under the same condition the two ends close exactly when their last holder
\* is gone, so a reader that saw EOF had read every byte that was or will be
\* written, a writer got EPIPE only when nobody can read, and no channel
\* operation meets a closed channel (pipeWriter.Close, pipeReader.Close).
PipeEnds ==
    "pipe" \notin overlap =>
        /\ \A e \in Ends : pipe.closed[e] => Slots(e) = {}
        /\ \A e \in Ends : pipe.made /\ ~Referenced(e) => pipe.closed[e]
        /\ eof => Slots("wr") = {} /\ pipe.sent = pipe.received
        /\ epipe => Slots("rd") = {}
        /\ pipe.ch = pipe.sent - pipe.received

WaitChain[p \in Procs] == IF pc[p] = "poll" THEN WaitChain[loc[p].c] ELSE p

\* As long as only foreground processes begin to wait, the keyboard belongs to
\* the process at the end of the chain of waits that starts at the boot shell:
\* exec inside exec gives it down and every exit gives it back up
\* (processWait).
ForegroundChain ==
    "foreground" \notin overlap => foreground = WaitChain[Shell]

\* "Keeps two concurrent Ring-3 processes from racing on keyboardCh"
\* (fd.go:100): one process at a time is between the test of ownership and the
\* end of its read of the keyboard (consoleStdin.Read, sys_read_key).
OneReader == Cardinality(Reading) <= 1

\* As long as no second process began to read, no key is lost but to a full
\* ring: the events not yet read are in the ring as they were sent, while the
\* interrupt and the reader move its two ends, and a line holds its keys in
\* the order they were typed (keyboardIRQSend, keyboardIRQRecv).
KeysInOrder ==
    "readers" \notin overlap =>
        /\ \A n \in kbd.tail .. kbd.head - 1 : EventAt(n) = n
        /\ \A i, j \in 1 .. Len(line) : i < j => line[i] < line[j]
        /\ \A i \in 1 .. Len(line) : line[i] < kbd.tail

Owned == UNION {pages[p] \cup root[p] \cup tables[p] : p \in Procs}
Owners(f) == Cardinality({p \in Procs : f \in pages[p]})
             + Cardinality({p \in Procs : f \in root[p]})
             + Cardinality({p \in Procs : f \in tables[p]})

\* A physical page has one use: it is free once, or it is one process's user
\* page, PML4 or lower table, whatever spawns, heap growth and exits of
\* several processes interleave (allocPage, freePage, processExit).
PagesDisjoint ==
    /\ IsInjective(mem.free)
    /\ \A f \in Owned : Owners(f) = 1 /\ f \notin Range(mem.free) /\ f < mem.next

\* A child that a process waits for stays in the table until that process
\* reaps it, and what the table holds that has exited was reaped by nobody:
\* no wait returns for a child somebody else collected (sys_wait, sys_waitpid).
ReapedOnce ==
    /\ \A p \in Procs : pc[p] \in {"wait", "give", "poll", "reap"} =>
           loc[p].c \in listed /\ parent[loc[p].c] = p
    /\ \A c \in 1 .. nextPID - 1 : c \notin listed => c \in exited

\* Unless a handler registers the signal again, a handler is never interrupted
\* by another and its sigreturn resumes what the signal interrupted
\* (maybeDeliverSignal, sys_sigreturn).
HandlerReturns ==
    ~sig.rehooked =>
        /\ sig.running = IF sig.inProgress THEN 1 ELSE 0
        /\ sig.running = 1 => sig.saved = 1 /\ sig.frames[sig.saved] = 0

\* A modifier key under a finger counts as held, however often its make code
\* repeats and whatever other modifiers are pressed and released meanwhile,
\* until its counter has run through the range of a uint8
\* (processKeyboardScancode).
HeldKeysSeen ==
    \A m \in Modifiers :
        m \notin kbd.wrapped =>
            kbd.held[m] >= Cardinality({k \in kbd.down : Counter(k) = m})

\* A wait for a child that exits returns to its caller, however many other
\* processes spawn, wait and exit meanwhile (processWait's poll of Exited).
WaitReturns ==
    \A p \in Procs : pc[p] = "poll" /\ loc[p].c \in exited ~> pc[p] = "user"
=============================================================================
