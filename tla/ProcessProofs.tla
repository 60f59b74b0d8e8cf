---------------------------- MODULE ProcessProofs ---------------------------
(***************************************************************************)
(* Process keeps its promises for any number of processes, descriptors,    *)
(* pages and keys: signals and modifier keys, the process table and the    *)
(* page allocator, each with the inductive invariant it needs.             *)
(***************************************************************************)
EXTENDS Process, ComponentProofs

\* The time a leaf is given.
USE SMTT(60), ZenonT(60)

-----------------------------------------------------------------------------
(***************************************************************************)
(* Which steps touch what.                                                 *)
(***************************************************************************)
\* A system call touches neither the signal state nor the keyboard.
LEMMA CallFrame ==
    ASSUME NEW p \in Procs, SystemCall(p)
    PROVE  UNCHANGED <<sig, kbd>>
  BY ZenonT(60) DEF SystemCall, sysSpawn, sysExec, elfSpawn, sysWait, sysWaitpid, Exit, sysSbrk,
         sysPipe, sysClose, sysDup2, sysWrite, sysRead, ReadLine, sysReadKey, TakesKeyboard

\* What follows it only moves the keyboard's tail.
LEMMA KernelFrame ==
    ASSUME NEW p \in Procs, Kernel(p)
    PROVE  UNCHANGED sig /\ (UNCHANGED kbd \/ StoreTail(loc[p].val))
  BY ZenonT(60) DEF Kernel, Inherit, Load, Start, ring3WrapperKT, SaveForeground,
         GiveForeground, TakeForeground, Reap, FreeRoot, procCloseAll, ClearSlot, Release,
         RefLoad, RefStore, RefCheck, DupCopy, CheckReader, SendByte, ReceiveByte, LoadEvent,
         StoreEvent

-----------------------------------------------------------------------------
(***************************************************************************)
(* Signals.                                                                *)
(***************************************************************************)
\* A handler of the boot shell always returns to what its signal interrupted,
\* for any quantum and any nesting the user stack allows (maybeDeliverSignal,
\* sys_sigreturn).
THEOREM SignalReturns == Spec => []HandlerReturns
<1>1. Init => SigInv
  BY SignalAssumption DEF Init, SigInit, SigInv, IsSig, Returns
<1>2. SigInv /\ [Next]_vars => SigInv'
  <2> SUFFICES ASSUME SigInv, [Next]_vars PROVE SigInv'
    BY ZenonT(60)
  <2>1. CASE sysSigaction \/ sysSigreturn \/ handleLAPICTimer(pc[Shell] = "user")
    BY <2>1, SigactionSigInv, SigreturnSigInv, TimerSigInv, ZenonT(60)
  <2>2. CASE UNCHANGED sig
    BY <2>2, ZenonT(60) DEF SigInv, IsSig, Returns
  <2> QED
    BY <2>1, <2>2, CallFrame, KernelFrame, ZenonT(60)
       DEF Next, Typing, Signals, BadFrame, vars
<1>3. SigInv => HandlerReturns
  BY DEF SigInv, IsSig, Returns, HandlerReturns
<1> QED
  BY <1>1, <1>2, <1>3, PTL DEF Spec

-----------------------------------------------------------------------------
(***************************************************************************)
(* Modifier keys.                                                          *)
(***************************************************************************)
\* A modifier key under a finger counts as held, after any sequence of make
\* codes, repeats, break codes and prefixes of the modifier keys, until its
\* counter overflows (processKeyboardScancode).
THEOREM ModifiersSeen == Spec => []HeldKeysSeen
<1>1. Init => KbdInv
  <2> SUFFICES ASSUME Init PROVE KbdInv
    BY ZenonT(60)
  <2>1. \A m : HeldBy({}, m) = {}
    BY ZenonT(60) DEF HeldBy
  <2> QED
    <3>1. kbd.held = [m \in Modifiers |-> 0] /\ kbd.down = {}
      BY ZenonT(60) DEF Init, KbdInit
    <3>2. Counts(kbd)
      BY <2>1, <3>1, FS_EmptySet DEF Counts
    <3>3. kbd.held \in [Modifiers -> 0 .. HeldMod - 1]
      BY <3>1, KeyboardAssumption
    <3> QED
      BY <3>2, <3>3, ZenonT(60) DEF Init, KbdInit, KbdInv, IsKbd
<1>2. KbdInv /\ [Next]_vars => KbdInv'
  <2> SUFFICES ASSUME KbdInv, [Next]_vars PROVE KbdInv'
    OBVIOUS
  <2>1. CASE UNCHANGED kbd
    BY <2>1, ZenonT(60) DEF KbdInv, IsKbd, Counts
  <2>2. CASE \E p \in Procs : StoreTail(loc[p].val)
    BY <2>2, ZenonT(60) DEF KbdInv, IsKbd, Counts, StoreTail
  <2>3. CASE KeyUp \/ Prefix
    BY <2>3, ZenonT(60) DEF KbdInv, IsKbd, Counts, KeyUp, Prefix
  <2>4. CASE KeyDown
    BY <2>4, ZenonT(60) DEF KbdInv, IsKbd, Counts, KeyDown, keyboardIRQSend
  <2> QED
    BY <2>1, <2>2, <2>3, <2>4, CallFrame, KernelFrame, ModDownKbdInv, ModUpKbdInv, ZenonT(60)
       DEF Next, Typing, Signals, vars
<1>3. KbdInv => HeldKeysSeen
  BY ZenonT(60) DEF KbdInv, IsKbd, Counts, HeldBy, HeldKeysSeen
<1> QED
  BY <1>1, <1>2, <1>3, PTL DEF Spec

-----------------------------------------------------------------------------
(***************************************************************************)
(* The process table.                                                      *)
(***************************************************************************)
IsRec(l) ==
    l = [c |-> l.c, prev |-> l.prev, fd |-> l.fd, end |-> l.end, by |-> l.by,
         val |-> l.val, then |-> l.then, n |-> l.n, got |-> l.got, exec |-> l.exec]

\* p has registered a child and not started it.
Spawning(p) ==
    \/ pc[p] \in {"inherit", "load", "start"}
    \/ pc[p] \in {"ref", "store"} /\ loc[p].then = "inherit"

Waiting(p) == pc[p] \in {"wait", "give", "poll", "reap"}

\* Where a reference count update goes on to: only a child's new reference is
\* part of a spawn.
CountsFor(p) ==
    pc[p] \in {"ref", "store", "check"} =>
        \/ loc[p].then \in {"user", "clear", "dup"}
        \/ loc[p].then = "inherit" /\ loc[p].by = 1 /\ pc[p] # "check"

Shapes ==
    /\ work \in Workloads
    /\ nextPID \in Nat \ {0}
    /\ parent \in [Kids -> Procs]
    /\ pc = [q \in Procs |-> pc[q]]
    /\ loc = [q \in Procs |-> loc[q]] /\ \A q \in Procs : IsRec(loc[q])

\* No number is used before it is given.
Pids ==
    /\ nextPID <= work.kids + 1
    /\ listed \subseteq 1 .. nextPID - 1
    /\ \A c \in Procs : c >= nextPID => pc[c] = "unused"

\* The child a process is starting or waiting for is its own and in the table.
Own(p) ==
    /\ Spawning(p) \/ Waiting(p) => loc[p].c \in listed /\ parent[loc[p].c] = p
    /\ pc[p] = "reap" => loc[p].c \in exited

Gone == \A c \in 1 .. nextPID - 1 : c \notin listed => c \in exited

TableInv ==
    /\ Shapes /\ Pids /\ Gone
    /\ \A p \in Procs : Own(p) /\ CountsFor(p)

Alone(p) ==
    /\ pc' = [q \in Procs |-> pc'[q]] /\ loc' = [q \in Procs |-> loc'[q]]
    /\ \A q \in Procs \ {p} : pc'[q] = pc[q] /\ loc'[q] = loc[q]

TableStays(p) ==
    /\ UNCHANGED <<work, nextPID, parent, listed>>
    /\ exited \subseteq exited'
    /\ pc[p] # "unused"

\* A step of p that leaves the table as it was.
Quiet(p) ==
    /\ TableStays(p) /\ Alone(p)
    /\ IsRec(loc[p])' /\ Own(p)' /\ CountsFor(p)'
    /\ pc'[p] # "unused"

\* Such a step preserves the table's invariant.
LEMMA QuietTableInv ==
    ASSUME TableInv, NEW p \in Procs, Quiet(p)
    PROVE  TableInv'
<1>1. Shapes'
  BY ZenonT(60) DEF TableInv, Shapes, Quiet, TableStays, Alone
<1>2. Pids'
  BY ZenonT(60) DEF TableInv, Pids, Quiet, TableStays, Alone
<1>3. Gone'
  BY ZenonT(60) DEF TableInv, Gone, Quiet, TableStays
<1>4. \A q \in Procs : (Own(q) /\ CountsFor(q))'
  BY DEF TableInv, Own, CountsFor, Spawning, Waiting, Quiet, TableStays, Alone
<1> QED
  BY <1>1, <1>2, <1>3, <1>4, ZenonT(60) DEF TableInv

Settled(l, r) ==
    /\ IsRec(r)
    /\ l \notin {"unused", "inherit", "load", "start",
                 "wait", "give", "poll", "reap"}
    /\ l \in {"ref", "store", "check"} => r.then \in {"user", "clear", "dup"}

\* Entering a label moves one process.
LEMMA EnterAlone ==
    ASSUME Shapes, NEW p \in Procs, NEW l, NEW r, Enter(p, l, r)
    PROVE  Alone(p) /\ pc'[p] = l /\ loc'[p] = r
  BY ZenonT(60) DEF Shapes, Alone, Enter

\* So does a jump, which keeps its locals.
LEMMA GotoAlone ==
    ASSUME Shapes, NEW p \in Procs, NEW l, Goto(p, l)
    PROVE  Alone(p) /\ pc'[p] = l /\ loc'[p] = loc[p] /\ IsRec(loc[p])
  BY ZenonT(60) DEF Shapes, Alone, Goto

\* A step that enters a label outside spawn and wait is quiet.
LEMMA EnterQuiet ==
    ASSUME Shapes, NEW p \in Procs, TableStays(p), NEW l, NEW r, Enter(p, l, r),
           Settled(l, r)
    PROVE  Quiet(p)
  BY EnterAlone DEF Quiet, Settled, Own, CountsFor, Spawning, Waiting

\* So is one that jumps to such a label.
LEMMA GotoQuiet ==
    ASSUME Shapes, NEW p \in Procs, TableStays(p), NEW l, Goto(p, l),
           l \notin {"unused", "inherit", "load", "start", "wait", "give",
                     "poll", "reap", "ref", "store", "check"}
    PROVE  Quiet(p)
  BY GotoAlone, ZenonT(60) DEF Quiet, Own, CountsFor, Spawning, Waiting

\* Most system calls begin that way,
LEMMA CallQuiet ==
    ASSUME TableInv, NEW p \in Procs,
           Exit(p) \/ sysSbrk(p) \/ sysPipe(p) \/ sysClose(p) \/ sysDup2(p) \/ sysWrite(p)
               \/ sysRead(p) \/ ReadLine(p) \/ sysReadKey(p)
    PROVE  Quiet(p)
<1>s. Shapes
  BY ZenonT(60) DEF TableInv
<1>t. TableStays(p)
  BY ZenonT(60) DEF TableStays, Exit, sysSbrk, sysPipe, sysClose, sysDup2, sysWrite, sysRead,
         ReadLine, sysReadKey, TakesKeyboard, Call, table, history
<1>k. pc[p] = "user" /\ UNCHANGED control => Quiet(p)
  BY <1>s, <1>t, ZenonT(60) DEF Shapes, Quiet, Alone, Own, CountsFor, Spawning, Waiting, control
<1>1. CASE Exit(p) \/ sysWrite(p) \/ sysReadKey(p)
  <2>1. \E l \in {"untable", "rdcheck", "key"} : Goto(p, l)
    BY <1>1, ZenonT(60) DEF Exit, sysWrite, sysReadKey
  <2> QED
    BY <1>s, <1>t, <2>1, GotoQuiet, ZenonT(60)
<1>2. CASE sysSbrk(p) \/ sysPipe(p)
  BY <1>2, <1>k, ZenonT(60) DEF sysSbrk, sysPipe, Call
<1>3. CASE sysClose(p)
  <2>1. PICK i \in Fds : procClose(p, i)
    BY <1>3, ZenonT(60) DEF sysClose
  <2>2. ASSUME NEW r, r = [Idle EXCEPT !.by = -1, !.end = fds[p][i]], Enter(p, "ref", r)
        PROVE  Quiet(p)
    <3>1. Settled("ref", r)
      BY <2>2, ZenonT(60) DEF Settled, IsRec, Idle
    <3> QED
      BY <1>s, <1>t, <2>2, <3>1, EnterQuiet, ZenonT(60)
  <2> QED
    BY <1>3, <1>k, <2>1, <2>2, ZenonT(60) DEF procClose, sysClose, Call
<1>4. CASE sysDup2(p)
  <2>1. PICK i \in Fds, j \in Fds : procDup2(p, i, j)
    BY <1>4, ZenonT(60) DEF sysDup2
  <2>2. PICK at, r : /\ at = [Idle EXCEPT !.n = i, !.fd = j]
                     /\ r = [at EXCEPT !.by = -1, !.end = fds[p][j], !.then = "dup"]
                     /\ Enter(p, "ref", r) \/ Enter(p, "dup", at)
    BY <2>1, ZenonT(60) DEF procDup2
  <2>3. Settled("ref", r) /\ Settled("dup", at)
    BY <2>2, ZenonT(60) DEF Settled, IsRec, Idle
  <2> QED
    BY <1>s, <1>t, <2>2, <2>3, EnterQuiet, ZenonT(60)
<1>5. CASE sysRead(p) \/ ReadLine(p)
  <2>1. PICK r : /\ r \in {[Idle EXCEPT !.n = ReadBytes], [Idle EXCEPT !.exec = TRUE]}
                 /\ Enter(p, "recv", r) \/ Enter(p, "key", r)
    BY <1>5, ZenonT(60) DEF sysRead, ReadLine
  <2>2. Settled("recv", r) /\ Settled("key", r)
    BY <2>1, ZenonT(60) DEF Settled, IsRec, Idle
  <2> QED
    BY <1>s, <1>t, <2>1, <2>2, EnterQuiet, ZenonT(60)
<1> QED
  BY <1>1, <1>2, <1>3, <1>4, <1>5, ZenonT(60)

\* and most of what follows them goes on that way.
LEMMA KernelQuiet ==
    ASSUME TableInv, NEW p \in Procs,
           \/ ring3WrapperKT(p) \/ FreeRoot(p) \/ procCloseAll(p) \/ ClearSlot(p) \/ Release(p)
           \/ RefCheck(p) \/ DupCopy(p) \/ CheckReader(p) \/ SendByte(p)
           \/ ReceiveByte(p) \/ LoadEvent(p) \/ StoreEvent(p)
           \/ loc[p].then # "inherit" /\ (RefLoad(p) \/ RefStore(p))
    PROVE  Quiet(p)
<1>s. Shapes /\ IsRec(loc[p]) /\ CountsFor(p)
  BY ZenonT(60) DEF TableInv, Shapes
<1>t. TableStays(p)
  BY ZenonT(60) DEF TableStays, ring3WrapperKT, FreeRoot, procCloseAll, ClearSlot, Release, RefCheck, DupCopy,
         CheckReader, SendByte, ReceiveByte, LoadEvent, StoreEvent, RefLoad, RefStore,
         table, history
<1>r. /\ Settled("user", Idle) /\ Settled("stuck", Idle)
      /\ Settled("release", Idle) /\ Settled("closeall", Idle)
  BY ZenonT(60) DEF Settled, IsRec, Idle
<1>u. Return(p) => Quiet(p)
  BY <1>s, <1>t, <1>r, EnterQuiet, ZenonT(60) DEF Return
<1>c. loc[p].then \in {"user", "clear", "dup"} /\ Continue(p) => Quiet(p)
  <2> SUFFICES ASSUME loc[p].then \in {"clear", "dup"}, NEW r,
                      r = [loc[p] EXCEPT !.by = 0, !.val = 0, !.end = "rd", !.then = "user"],
                      Enter(p, loc[p].then, r)
               PROVE  Quiet(p)
    BY <1>u, ZenonT(60) DEF Continue
  <2>1. Settled(loc[p].then, r)
    BY <1>s, ZenonT(60) DEF Settled, IsRec
  <2> QED
    BY <1>s, <1>t, <2>1, EnterQuiet, ZenonT(60)
<1>1. CASE ring3WrapperKT(p) \/ FreeRoot(p) \/ Release(p)
  <2>1. \E l \in {"user", "closeall", "dead"} : Goto(p, l)
    BY <1>1, ZenonT(60) DEF ring3WrapperKT, FreeRoot, Release
  <2> QED
    BY <1>s, <1>t, <2>1, GotoQuiet, ZenonT(60)
<1>2. CASE procCloseAll(p) \/ ClearSlot(p)
  <2>1. PICK i, d, r : /\ r = [Idle EXCEPT !.fd = i, !.by = -1, !.end = d, !.then = "clear"]
                       /\ \/ Enter(p, "release", Idle) \/ Enter(p, "closeall", Idle)
                          \/ Enter(p, "ref", r)
    BY <1>2, ZenonT(60) DEF procCloseAll, ClearSlot
  <2>2. Settled("ref", r)
    BY <2>1, ZenonT(60) DEF Settled, IsRec, Idle
  <2> QED
    BY <1>s, <1>t, <1>r, <2>1, <2>2, EnterQuiet, ZenonT(60)
<1>3. CASE RefCheck(p)
  <2>1. loc[p].then \in {"user", "clear", "dup"}
    BY <1>3, <1>s, ZenonT(60) DEF RefCheck, CountsFor
  <2>2. Enter(p, "stuck", Idle) \/ Continue(p)
    BY <1>3, ZenonT(60) DEF RefCheck
  <2> QED
    BY <1>s, <1>t, <1>r, <1>c, <2>1, <2>2, EnterQuiet, ZenonT(60)
<1>4. CASE DupCopy(p)
  <2>1. PICK d, r : /\ r = [Idle EXCEPT !.by = 1, !.end = d]
                    /\ Return(p) \/ Enter(p, "ref", r)
    BY <1>4, ZenonT(60) DEF DupCopy
  <2>2. Settled("ref", r)
    BY <2>1, ZenonT(60) DEF Settled, IsRec, Idle
  <2> QED
    BY <1>s, <1>t, <1>u, <2>1, <2>2, EnterQuiet, ZenonT(60)
<1>5. CASE CheckReader(p) \/ SendByte(p)
  <2>1. Return(p) \/ Goto(p, "send") \/ Enter(p, "stuck", Idle)
    BY <1>5, ZenonT(60) DEF CheckReader, SendByte
  <2> QED
    BY <1>s, <1>t, <1>r, <1>u, <2>1, EnterQuiet, GotoQuiet, ZenonT(60)
<1>6. CASE ReceiveByte(p)
  <2>1. PICK r : /\ r = [loc[p] EXCEPT !.n = @ - 1, !.got = 1]
                 /\ Return(p) \/ Enter(p, "stuck", Idle) \/ Enter(p, "recv", r)
    BY <1>6, ZenonT(60) DEF ReceiveByte
  <2>2. Settled("recv", r)
    BY <1>s, <2>1, ZenonT(60) DEF Settled, IsRec
  <2> QED
    BY <1>s, <1>t, <1>r, <1>u, <2>1, <2>2, EnterQuiet, ZenonT(60)
<1>7. CASE LoadEvent(p)
  <2>1. PICK r : /\ r = [loc[p] EXCEPT !.val = kbd.tail, !.got = EventAt(kbd.tail)]
                 /\ Enter(p, "tail", r)
    BY <1>7, ZenonT(60) DEF LoadEvent
  <2>2. Settled("tail", r)
    BY <1>s, <2>1, ZenonT(60) DEF Settled, IsRec
  <2> QED
    BY <1>s, <1>t, <2>1, <2>2, EnterQuiet, ZenonT(60)
<1>8. CASE StoreEvent(p)
  <2>1. PICK r : r = [Idle EXCEPT !.exec = TRUE] /\ (Return(p) \/ Enter(p, "key", r))
    BY <1>8, ZenonT(60) DEF StoreEvent
  <2>2. Settled("key", r)
    BY <2>1, ZenonT(60) DEF Settled, IsRec, Idle
  <2> QED
    BY <1>s, <1>t, <1>u, <2>1, <2>2, EnterQuiet, ZenonT(60)
<1>9. CASE loc[p].then # "inherit" /\ (RefLoad(p) \/ RefStore(p))
  <2>0. loc[p].then \in {"user", "clear", "dup"}
    BY <1>9, <1>s, ZenonT(60) DEF RefLoad, RefStore, CountsFor
  <2>1. /\ \A v : Settled("store", [loc[p] EXCEPT !.val = v])
        /\ Settled("check", loc[p]) /\ Settled("check", [loc[p] EXCEPT !.val = 0])
    BY <1>s, <2>0 DEF Settled, IsRec
  <2>2. \/ Continue(p) \/ Goto(p, "check")
        \/ \E v : Enter(p, "store", [loc[p] EXCEPT !.val = v])
        \/ Enter(p, "check", [loc[p] EXCEPT !.val = 0])
    BY <1>9, ZenonT(60) DEF RefLoad, RefStore
  <2>3. Goto(p, "check") => Quiet(p)
    <3> SUFFICES ASSUME Goto(p, "check") PROVE Quiet(p)
      BY ZenonT(60)
    <3>1. Alone(p) /\ pc'[p] = "check" /\ loc'[p] = loc[p]
      BY <1>s, GotoAlone, ZenonT(60)
    <3>2. IsRec(loc[p])'
      BY <1>s, <3>1, ZenonT(60)
    <3>3. Own(p)'
      BY <3>1, ZenonT(60) DEF Own, Spawning, Waiting
    <3>4. CountsFor(p)'
      BY <2>0, <3>1, ZenonT(60) DEF CountsFor
    <3> QED
      BY <1>t, <3>1, <3>2, <3>3, <3>4, ZenonT(60) DEF Quiet
  <2> QED
    BY <1>s, <1>t, <1>c, <2>0, <2>1, <2>2, <2>3, EnterQuiet, ZenonT(60)
<1> QED
  BY <1>1, <1>2, <1>3, <1>4, <1>5, <1>6, <1>7, <1>8, <1>9, ZenonT(60)

\* A spawn that goes on to copy descriptors or to load the program is quiet,
\* and so is a count it makes for its child.
LEMMA InheritQuiet ==
    ASSUME TableInv, NEW p \in Procs,
           \/ Inherit(p) \/ Load(p)
           \/ loc[p].then = "inherit" /\ (RefLoad(p) \/ RefStore(p))
    PROVE  Quiet(p)
<1>s. Shapes /\ IsRec(loc[p]) /\ CountsFor(p) /\ Own(p)
  BY ZenonT(60) DEF TableInv, Shapes
<1>t. TableStays(p)
  BY ZenonT(60) DEF TableStays, Inherit, Load, RefLoad, RefStore, table, history
<1>u. Spawning(p)
  BY ZenonT(60) DEF Spawning, Inherit, Load, RefLoad, RefStore
<1>1. PICK l, r : /\ Enter(p, l, r) /\ IsRec(r) /\ r.c = loc[p].c
                  /\ \/ l \in {"inherit", "load", "start"}
                     \/ l \in {"ref", "store"} /\ r.then = "inherit" /\ r.by = 1
  <2>1. CASE Inherit(p)
    <3> DEFINE last == IF Pending(p) = {} THEN procMaxFDs ELSE Min(Pending(p))
               done == [loc[p] EXCEPT !.fd = 0]
               found == [loc[p] EXCEPT !.fd = last + 1, !.by = 1, !.end = fds[p][last],
                                       !.then = "inherit"]
    <3>1. Enter(p, "load", done) \/ Enter(p, "ref", found)
      BY <2>1, ZenonT(60) DEF Inherit
    <3> HIDE DEF last
    <3>2. ASSUME NEW r, r = done PROVE IsRec(r) /\ r.c = loc[p].c
      BY <1>s, <3>2, ZenonT(60) DEF IsRec
    <3>3. ASSUME NEW r, r = found
          PROVE  IsRec(r) /\ r.c = loc[p].c /\ r.then = "inherit" /\ r.by = 1
      BY <1>s, <3>3, ZenonT(60) DEF IsRec
    <3> HIDE DEF done, found
    <3> QED
      BY <3>1, <3>2, <3>3, ZenonT(60)
  <2>2. CASE loc[p].then = "inherit" /\ RefLoad(p)
    <3>1. loc[p].by = 1
      BY <1>s, <2>2, ZenonT(60) DEF RefLoad, CountsFor
    <3>2. PICK v, r : r = [loc[p] EXCEPT !.val = v] /\ Enter(p, "store", r)
      BY <2>2, <3>1 DEF RefLoad
    <3> QED
      BY <1>s, <2>2, <3>1, <3>2 DEF IsRec
  <2>3. CASE loc[p].then = "inherit" /\ RefStore(p)
    <3>1. loc[p].by = 1
      BY <1>s, <2>3, ZenonT(60) DEF RefStore, CountsFor
    <3>2. Continue(p)
      BY <2>3, <3>1 DEF RefStore
    <3> DEFINE on == [loc[p] EXCEPT !.by = 0, !.val = 0, !.end = "rd", !.then = "user"]
    <3>3. Enter(p, "inherit", on)
      BY <2>3, <3>2, ZenonT(60) DEF Continue
    <3>4. ASSUME NEW r, r = on PROVE IsRec(r) /\ r.c = loc[p].c
      BY <1>s, <3>4, ZenonT(60) DEF IsRec
    <3> HIDE DEF on
    <3> QED
      BY <3>3, <3>4, ZenonT(60)
  <2>4. CASE Load(p)
    <3>1. Enter(p, "start", loc[p])
      BY <1>s, <2>4, ZenonT(60) DEF Load, Goto, Enter, Shapes
    <3> QED
      BY <1>s, <3>1, ZenonT(60)
  <2> QED
    BY <2>1, <2>2, <2>3, <2>4, ZenonT(60)
<1>2. Alone(p) /\ pc'[p] = l /\ loc'[p] = r
  BY <1>s, <1>1, EnterAlone, ZenonT(60)
<1>3. Own(p)' /\ CountsFor(p)'
  BY <1>s, <1>t, <1>u, <1>1, <1>2, ZenonT(60) DEF Own, CountsFor, Spawning, Waiting, TableStays
<1> QED
  BY <1>t, <1>u, <1>1, <1>2, <1>3, ZenonT(60) DEF Quiet

\* A wait finds its child in the table and keeps it there.
LEMMA WaitQuiet ==
    ASSUME TableInv, NEW p \in Procs,
           sysWait(p) \/ SaveForeground(p) \/ GiveForeground(p) \/ TakeForeground(p)
    PROVE  Quiet(p)
<1>s. Shapes /\ IsRec(loc[p]) /\ Own(p)
  BY ZenonT(60) DEF TableInv, Shapes
<1>t. TableStays(p)
  BY ZenonT(60) DEF TableStays, sysWait, SaveForeground, GiveForeground, TakeForeground, Call,
         table, history
<1>1. CASE sysWait(p)
  <2>1. PICK c, r : /\ c \in Kids /\ r = [Idle EXCEPT !.c = c]
                    /\ IsChild(p, c) /\ Enter(p, "wait", r)
    BY <1>1, ZenonT(60) DEF sysWait
  <2>2. IsRec(r) /\ r.c = c
    BY <2>1, ZenonT(60) DEF IsRec, Idle
  <2>3. Alone(p) /\ pc'[p] = "wait" /\ loc'[p] = r
    BY <1>s, <2>1, EnterAlone, ZenonT(60)
  <2>4. Own(p)'
    BY <1>t, <2>1, <2>2, <2>3, ZenonT(60) DEF Own, IsChild, TableStays
  <2> QED
    BY <1>t, <2>2, <2>3, <2>4, ZenonT(60) DEF Quiet, CountsFor
<1>2. CASE SaveForeground(p)
  <2>1. PICK r : r = [loc[p] EXCEPT !.prev = foreground] /\ Enter(p, "give", r)
    BY <1>2, ZenonT(60) DEF SaveForeground
  <2>2. IsRec(r) /\ r.c = loc[p].c
    BY <1>s, <2>1, ZenonT(60) DEF IsRec
  <2>3. Alone(p) /\ pc'[p] = "give" /\ loc'[p] = r
    BY <1>s, <2>1, EnterAlone, ZenonT(60)
  <2>4. Own(p)'
    BY <1>2, <1>s, <1>t, <2>2, <2>3, ZenonT(60) DEF Own, Waiting, SaveForeground, TableStays
  <2> QED
    BY <1>t, <2>2, <2>3, <2>4, ZenonT(60) DEF Quiet, CountsFor
<1>3. CASE GiveForeground(p) \/ TakeForeground(p)
  <2>1. PICK l \in {"poll", "reap"} : Goto(p, l) /\ (l = "reap" => loc[p].c \in exited)
    BY <1>3, ZenonT(60) DEF GiveForeground, TakeForeground, Done
  <2>2. loc[p].c \in listed /\ parent[loc[p].c] = p
    BY <1>3, <1>s, ZenonT(60) DEF Own, Waiting, GiveForeground, TakeForeground
  <2>3. Alone(p) /\ pc'[p] = l /\ loc'[p] = loc[p]
    BY <1>s, <2>1, GotoAlone, ZenonT(60)
  <2>4. Own(p)'
    BY <1>t, <2>1, <2>2, <2>3, ZenonT(60) DEF Own, TableStays
  <2> QED
    BY <1>s, <1>t, <2>3, <2>4, ZenonT(60) DEF Quiet, CountsFor
<1> QED
  BY <1>1, <1>2, <1>3, ZenonT(60)

\* A child in the table has a number the bounds allow.
LEMMA ListedKids ==
    ASSUME TableInv
    PROVE  /\ work.kids \in 0 .. NumKids /\ nextPID \in Nat
           /\ nextPID <= work.kids + 1
           /\ listed \subseteq Kids /\ listed \subseteq Procs
<1>1. work.kids \in 0 .. NumKids /\ nextPID \in Nat
  BY ProcessAssumption, ZenonT(60) DEF TableInv, Shapes
<1> QED
  BY <1>1, ProcessAssumption DEF TableInv, Pids, Kids, Procs, Shell

\* The new number was used by nobody.
LEMMA SpawnTableInv ==
    ASSUME TableInv, NEW p \in Procs, pc[p] = "user", NEW exec, elfSpawn(p, exec)
    PROVE  TableInv'
<1> DEFINE c == nextPID
<1>0. c \in Kids /\ c \in Procs /\ pc[c] = "unused" /\ c \notin listed /\ c <= work.kids
  <2>1. c <= work.kids
    BY ZenonT(60) DEF elfSpawn
  <2> QED
    BY <2>1, ListedKids, ProcessAssumption DEF TableInv, Shapes, Pids, Kids, Procs, Shell
<1>1. PICK r : r = [Idle EXCEPT !.c = c, !.fd = 1, !.exec = exec] /\ Enter(p, "inherit", r)
  BY ZenonT(60) DEF elfSpawn
<1>2. IsRec(r) /\ r.c = c
  BY <1>1, ZenonT(60) DEF IsRec, Idle
<1>3. Alone(p) /\ pc'[p] = "inherit" /\ loc'[p] = r
  BY <1>1, EnterAlone, ZenonT(60) DEF TableInv
<1>4. /\ UNCHANGED <<work, exited>> /\ p # c
      /\ nextPID' = c + 1 /\ listed' = listed \cup {c} /\ parent' = [parent EXCEPT ![c] = p]
  BY <1>0, ZenonT(60) DEF elfSpawn
<1>5. Shapes'
  BY <1>0, <1>2, <1>3, <1>4 DEF TableInv, Shapes, Alone
<1>6. Pids'
  BY <1>0, <1>3, <1>4, ListedKids DEF TableInv, Pids, Alone, Procs, Shell
<1>7. Gone'
  BY <1>4, ListedKids DEF TableInv, Gone
<1>8. \A q \in Procs : (Own(q) /\ CountsFor(q))'
  BY <1>0, <1>2, <1>3, <1>4, ListedKids
     DEF TableInv, Shapes, Own, CountsFor, Spawning, Waiting, Alone
<1> QED
  BY <1>5, <1>6, <1>7, <1>8, ZenonT(60) DEF TableInv

\* A child that starts is its parent's.
LEMMA StartTableInv ==
    ASSUME TableInv, NEW p \in Procs, Start(p)
    PROVE  TableInv'
<1> DEFINE c == loc[p].c
<1>0. c \in Procs /\ c \in listed /\ parent[c] = p /\ pc[p] = "start"
  BY ListedKids, ZenonT(60) DEF TableInv, Own, Spawning, Start
<1>1. PICK n, r : /\ n = (IF loc[p].exec THEN c ELSE 0) /\ r = [Idle EXCEPT !.c = n]
                  /\ loc' = [loc EXCEPT ![p] = r]
  BY ZenonT(60) DEF Start
<1>2. IsRec(r) /\ r.c = n /\ r.then = "user"
  BY <1>1, ZenonT(60) DEF IsRec, Idle
<1>3. /\ pc' = [q \in Procs |-> pc'[q]] /\ pc'[c] = "ready"
      /\ p # c => pc'[p] \in {"wait", "user"} /\ (pc'[p] = "wait" => n = c)
      /\ \A q \in Procs \ {p, c} : pc'[q] = pc[q]
  BY <1>0, <1>1, ZenonT(60) DEF Start, AfterSpawn, TableInv, Shapes
<1>4. /\ loc' = [q \in Procs |-> loc'[q]] /\ loc'[p] = r
      /\ \A q \in Procs \ {p} : loc'[q] = loc[q]
  BY <1>1, ZenonT(60) DEF TableInv, Shapes
<1>5. UNCHANGED <<work, nextPID, parent, listed, exited>>
  BY ZenonT(60) DEF Start, table, history
<1>6. Shapes'
  BY <1>2, <1>3, <1>4, <1>5, ZenonT(60) DEF TableInv, Shapes
<1>7. Pids'
  BY <1>0, <1>3, <1>5, ListedKids DEF TableInv, Pids, Procs, Shell
<1>8. Gone'
  BY <1>5, ZenonT(60) DEF TableInv, Gone
<1>9. \A q \in Procs : (Own(q) /\ CountsFor(q))'
  BY <1>0, <1>2, <1>3, <1>4, <1>5 DEF TableInv, Own, CountsFor, Spawning, Waiting
<1> QED
  BY <1>6, <1>7, <1>8, <1>9 DEF TableInv

\* Only a child's parent takes it out of the table, once it has exited.
LEMMA ReapTableInv ==
    ASSUME TableInv, NEW p \in Procs, Reap(p) \/ sysWaitpid(p)
    PROVE  TableInv'
<1>1. PICK c : /\ listed' = listed \ {c} /\ c \in listed /\ parent[c] = p /\ c \in exited
               /\ Alone(p) /\ pc'[p] = "user" /\ pc[p] \in {"user", "reap"} /\ IsRec(loc'[p])
  <2>1. CASE Reap(p)
    <3>1. IsRec(Idle)
      BY ZenonT(60) DEF IsRec, Idle
    <3> QED
      BY <2>1, <3>1, EnterAlone DEF Reap, Return, TableInv, Own, Waiting
  <2>2. CASE sysWaitpid(p)
    BY <2>2, ZenonT(60) DEF sysWaitpid, Call, IsChild, control, TableInv, Shapes, Alone
  <2> QED
    BY <2>1, <2>2, ZenonT(60)
<1>2. UNCHANGED <<work, nextPID, parent, exited>>
  BY ZenonT(60) DEF Reap, sysWaitpid
<1>3. Shapes' /\ Gone'
  BY <1>1, <1>2, ZenonT(60) DEF TableInv, Shapes, Gone, Alone
<1>4. Pids'
  BY <1>1, <1>2, ZenonT(60) DEF TableInv, Pids, Alone
<1>5. \A q \in Procs : (Own(q) /\ CountsFor(q))'
  BY <1>1, <1>2 DEF TableInv, Own, CountsFor, Spawning, Waiting, Alone
<1> QED
  BY <1>3, <1>4, <1>5, ZenonT(60) DEF TableInv

\* Every step preserves the table's invariant.
LEMMA NextTableInv == ASSUME TableInv, [Next]_vars PROVE TableInv'
<1>1. ASSUME UNCHANGED <<work, table, control>> PROVE TableInv'
  <2>1. UNCHANGED <<work, nextPID, parent, listed, exited, pc, loc>>
    BY <1>1, ZenonT(60) DEF table, control
  <2>2. Shapes' /\ Gone' /\ Pids'
    BY <2>1, ZenonT(60) DEF TableInv, Shapes, Gone, Pids
  <2>3. \A q \in Procs : (Own(q) /\ CountsFor(q))'
    BY <2>1, ZenonT(60) DEF TableInv, Own, CountsFor, Spawning, Waiting
  <2> QED
    BY <2>2, <2>3, ZenonT(60) DEF TableInv
<1>2. ASSUME NEW p \in Procs, SystemCall(p) PROVE TableInv'
  <2>1. CASE sysSpawn(p) \/ sysExec(p)
    BY <2>1, SpawnTableInv, ZenonT(60) DEF sysSpawn, sysExec, Call
  <2>2. CASE sysWait(p)
    BY <2>2, WaitQuiet, QuietTableInv, ZenonT(60)
  <2>3. CASE sysWaitpid(p)
    BY <2>3, ReapTableInv, ZenonT(60)
  <2> QED
    BY <1>2, <2>1, <2>2, <2>3, CallQuiet, QuietTableInv, ZenonT(60) DEF SystemCall
<1>3. ASSUME NEW p \in Procs, Kernel(p) PROVE TableInv'
  <2>1. CASE Inherit(p) \/ Load(p) \/ (loc[p].then = "inherit" /\ (RefLoad(p) \/ RefStore(p)))
    BY <2>1, InheritQuiet, QuietTableInv, ZenonT(60)
  <2>2. CASE SaveForeground(p) \/ GiveForeground(p) \/ TakeForeground(p)
    BY <2>2, WaitQuiet, QuietTableInv, ZenonT(60)
  <2>3. CASE Start(p) \/ Reap(p)
    BY <2>3, StartTableInv, ReapTableInv, ZenonT(60)
  <2> QED
    BY <1>3, <2>1, <2>2, <2>3, KernelQuiet, QuietTableInv, ZenonT(60) DEF Kernel
<1>4. ASSUME Signals PROVE TableInv'
  <2>1. CASE UNCHANGED control
    BY <1>1, <1>4, <2>1, ZenonT(60) DEF Signals
  <2>2. CASE Call(Shell, "sigaction") /\ Enter(Shell, "dead", Idle)
    <3>1. Shell \in Procs
      BY ProcessAssumption DEF Procs, Shell
    <3>2. Settled("dead", Idle)
      BY ZenonT(60) DEF Settled, IsRec, Idle
    <3>3. TableStays(Shell)
      BY <1>4, <2>2, ZenonT(60) DEF TableStays, Signals, Call, table
    <3> QED
      BY <2>2, <3>1, <3>2, <3>3, EnterQuiet, QuietTableInv, ZenonT(60) DEF TableInv
  <2> QED
    BY <1>4, <2>1, <2>2, ZenonT(60) DEF Signals
<1> QED
  BY <1>1, <1>2, <1>3, <1>4, ZenonT(60) DEF Next, Typing, vars

\* It holds when the boot shell starts.
LEMMA InitTableInv == Init => TableInv
<1> SUFFICES ASSUME Init PROVE TableInv
  OBVIOUS
<1>1. Shapes
  <2>1. IsRec(Idle)
    BY ZenonT(60) DEF IsRec, Idle
  <2>2. parent \in [Kids -> Procs]
    <3>1. Shell \in Procs
      BY ProcessAssumption DEF Procs, Shell
    <3>2. parent = [q \in Kids |-> Shell]
      BY ZenonT(60) DEF Init
    <3> QED
      BY ONLY <3>1, <3>2, SMTT(60)
  <2>3. /\ pc = [q \in Procs |-> IF q = Shell THEN "user" ELSE "unused"]
        /\ loc = [q \in Procs |-> Idle]
        /\ nextPID = 1 /\ work \in Workloads
    BY ZenonT(60) DEF Init
  <2>4. pc = [q \in Procs |-> pc[q]]
    BY ONLY <2>3, SMTT(60)
  <2>5. loc = [q \in Procs |-> loc[q]] /\ \A q \in Procs : IsRec(loc[q])
    <3>1. \A q \in Procs : loc[q] = Idle
      BY ONLY <2>3, SMTT(60)
    <3>2. loc = [q \in Procs |-> loc[q]]
      BY ONLY <2>3, SMTT(60)
    <3> QED
      BY ONLY <2>1, <3>1, <3>2, ZenonT(60)
  <2>6. nextPID \in Nat \ {0} /\ work \in Workloads
    BY ONLY <2>3, SMTT(60)
  <2> QED
    BY ONLY <2>2, <2>4, <2>5, <2>6, ZenonT(60) DEF Shapes
<1>2. Pids
  <2>1. /\ pc = [q \in Procs |-> IF q = Shell THEN "user" ELSE "unused"]
        /\ nextPID = 1 /\ work \in Workloads /\ listed = {}
    BY ZenonT(60) DEF Init
  <2>2. work.kids \in 0 .. NumKids /\ NumKids \in Nat
    BY <2>1, ProcessAssumption, ZenonT(60)
  <2> QED
    BY ONLY <2>1, <2>2, SMTT(60) DEF Pids, Procs, Shell
<1>3. Gone /\ \A p \in Procs : Own(p) /\ CountsFor(p)
  BY DEF Init, Gone, Own, CountsFor, Spawning, Waiting, Kids, Procs, Shell
<1> QED
  BY <1>1, <1>2, <1>3, ZenonT(60) DEF TableInv

\* The table's invariant holds throughout.
LEMMA TableInvHolds == Spec => []TableInv
  BY InitTableInv, NextTableInv, PTL DEF Spec

\* However many processes spawn, wait and exit on however many CPUs, a wait is
\* for a child of the caller's that nobody else collects, and a number that is
\* given and not in the table belongs to a process that exited
\* (sys_wait, sys_waitpid).
THEOREM WaitsAreOwn == Spec => []ReapedOnce
<1>1. TableInv => ReapedOnce
  BY ZenonT(60) DEF TableInv, Own, Waiting, Gone, ReapedOnce
<1> QED
  BY <1>1, TableInvHolds, PTL

-----------------------------------------------------------------------------
(***************************************************************************)
(* The page allocator.                                                     *)
(***************************************************************************)
Held(p) == pages[p] \cup root[p] \cup tables[p]

\* What processes hold is theirs alone, was allocated and is not free.
PageInv ==
    /\ IsMem(mem)
    /\ {pages, root, tables} \subseteq [Procs -> SUBSET Nat]
    /\ \A p \in Procs : \A f \in Held(p) : f < mem.next /\ ~OnStack(mem, f)
    /\ \A p, q \in Procs : p # q => Held(p) \cap Held(q) = {}
    /\ \A p \in Procs : /\ pages[p] \cap root[p] = {}
                        /\ pages[p] \cap tables[p] = {}
                        /\ root[p] \cap tables[p] = {}

\* Only c's pages change.
OnlyOf(c) ==
    /\ {pages', root', tables'} \subseteq [Procs -> SUBSET Nat]
    /\ \A q \in Procs \ {c} : pages'[q] = pages[q] /\ root'[q] = root[q] /\ tables'[q] = tables[q]

\* Pages that one process is given, each for one use, are its alone.
LEMMA GivenPageInv ==
    ASSUME PageInv, NEW c \in Procs, OnlyOf(c), NEW n \in Nat, mem' = Allocated(mem, n),
           NEW A \in SUBSET allocPage(mem, n), NEW B \in SUBSET allocPage(mem, n),
           NEW C \in SUBSET allocPage(mem, n),
           A \cap B = {}, A \cap C = {}, B \cap C = {},
           pages'[c] \subseteq pages[c] \cup A, root'[c] \subseteq root[c] \cup B,
           tables'[c] \subseteq tables[c] \cup C
    PROVE  PageInv'
<1>1. /\ IsMem(mem') /\ mem'.next \in Nat /\ mem'.next >= mem.next /\ mem.next \in Nat
      /\ \A f : OnStack(mem', f) => OnStack(mem, f)
      /\ \A f \in allocPage(mem, n) : /\ f \in Nat /\ f < mem'.next /\ ~OnStack(mem', f)
                                      /\ OnStack(mem, f) \/ f >= mem.next
  BY AllocIsFresh, ZenonT(60) DEF PageInv, IsMem
<1>2. \A p \in Procs : \A f \in Held(p) : f \in Nat /\ f < mem.next /\ ~OnStack(mem, f)
  BY DEF PageInv, Held
<1>3. \A p \in Procs : \A f \in Held(p) : f \notin allocPage(mem, n)
  BY <1>1, <1>2
<1>4. \A q \in Procs \ {c} : Held(q)' = Held(q)
  BY ZenonT(60) DEF OnlyOf, Held
<1>5. Held(c)' \subseteq Held(c) \cup allocPage(mem, n)
  BY ZenonT(60) DEF Held
<1>6. \A p \in Procs : \A f \in Held(p)' : f < mem'.next /\ ~OnStack(mem', f)
  <2>1. \A p \in Procs : \A f \in Held(p) : f < mem'.next /\ ~OnStack(mem', f)
    BY <1>1, <1>2
  <2> QED
    BY <1>1, <1>4, <1>5, <2>1, ZenonT(60)
<1>7. \A p, q \in Procs : p # q => Held(p)' \cap Held(q)' = {}
  BY <1>3, <1>4, <1>5 DEF PageInv
<1>8. \A p \in Procs \ {c} : /\ pages'[p] \cap root'[p] = {} /\ pages'[p] \cap tables'[p] = {}
                             /\ root'[p] \cap tables'[p] = {}
  BY ZenonT(60) DEF PageInv, OnlyOf
<1>9. /\ pages'[c] \cap root'[c] = {} /\ pages'[c] \cap tables'[c] = {}
      /\ root'[c] \cap tables'[c] = {}
  <2>1. \A f \in allocPage(mem, n) : f \notin pages[c] /\ f \notin root[c] /\ f \notin tables[c]
    BY <1>3, ZenonT(60) DEF Held
  <2> QED
    BY <2>1, ZenonT(60) DEF PageInv
<1>10. IsMem(mem)'
  BY <1>1, ZenonT(60) DEF IsMem
<1>11. (\A p \in Procs : \A f \in Held(p) : f < mem.next /\ ~OnStack(mem, f))'
  BY <1>6, ZenonT(60) DEF OnStack
<1> QED
  BY <1>7, <1>8, <1>9, <1>10, <1>11, ZenonT(60) DEF PageInv, OnlyOf

\* Pages that a process gives back it does not keep.
LEMMA FreedPageInv ==
    ASSUME PageInv, NEW c \in Procs, OnlyOf(c), NEW S \in SUBSET Held(c),
           mem' = freePage(mem, S), Held(c)' \cap S = {},
           pages'[c] \subseteq pages[c], root'[c] \subseteq root[c], tables'[c] \subseteq tables[c]
    PROVE  PageInv'
<1>0. S \in SUBSET Nat /\ \A f \in S : f < mem.next /\ ~OnStack(mem, f)
  BY ZenonT(60) DEF PageInv, Held
<1>1. /\ IsMem(mem') /\ mem'.next = mem.next
      /\ \A f : OnStack(mem', f) => OnStack(mem, f) \/ f \in S
  BY <1>0, FreeIsOnce, ZenonT(60) DEF PageInv
<1>2. \A q \in Procs \ {c} : Held(q)' = Held(q)
  BY ZenonT(60) DEF OnlyOf, Held
<1>3. Held(c)' \subseteq Held(c)
  BY ZenonT(60) DEF Held
<1>4. \A p \in Procs : \A f \in Held(p)' : f < mem'.next /\ ~OnStack(mem', f)
  BY <1>1, <1>2, <1>3 DEF PageInv
<1>5. \A p, q \in Procs : p # q => Held(p)' \cap Held(q)' = {}
  BY <1>2, <1>3 DEF PageInv
<1>6. \A p \in Procs : /\ pages'[p] \cap root'[p] = {} /\ pages'[p] \cap tables'[p] = {}
                       /\ root'[p] \cap tables'[p] = {}
  BY DEF PageInv, OnlyOf
<1>7. IsMem(mem)' /\ (\A p \in Procs : \A f \in Held(p) : f < mem.next /\ ~OnStack(mem, f))'
  BY <1>1, <1>4, ZenonT(60) DEF IsMem, OnStack
<1> QED
  BY <1>5, <1>6, <1>7, ZenonT(60) DEF PageInv, OnlyOf

\* The pages for an address space, or none, and the two that Min and Max name.
LEMMA FramesTaken ==
    ASSUME PageInv, NEW got, got = allocPage(mem, Frames(2)), got # {}
    PROVE  Min(got) \in got /\ Max(got) \in got /\ Min(got) # Max(got)
<1>1. Frames(2) \in {0, 2}
  BY ZenonT(60) DEF Frames
<1> QED
  BY <1>1, MinAndMaxOfTwo, ZenonT(60) DEF PageInv

\* The child's number is a process's.
LEMMA ChildIsProc ==
    ASSUME TableInv, NEW p \in Procs
    PROVE  /\ nextPID <= work.kids => nextPID \in Procs
           /\ pc[p] = "load" => loc[p].c \in Procs
<1>1. nextPID <= work.kids => nextPID \in Procs
  BY ListedKids, ProcessAssumption DEF TableInv, Shapes, Procs, Shell
<1>2. ASSUME pc[p] = "load" PROVE loc[p].c \in Procs
  BY <1>2, ListedKids, ZenonT(60) DEF TableInv, Own, Spawning
<1> QED
  BY <1>1, <1>2, ZenonT(60)

\* newProcPML4 gives its two pages a use each.
LEMMA SpawnPageInv ==
    ASSUME TableInv, PageInv, NEW p \in Procs, NEW exec, elfSpawn(p, exec)
    PROVE  PageInv'
<1> DEFINE got == allocPage(mem, Frames(2))
           B == IF got = {} THEN {} ELSE {Min(got)}
           C == IF got = {} THEN {} ELSE {Max(got)}
<1>1. /\ pages' = pages /\ root' = [root EXCEPT ![nextPID] = B]
      /\ tables' = [tables EXCEPT ![nextPID] = C] /\ mem' = Allocated(mem, Frames(2))
  BY ZenonT(60) DEF elfSpawn, newProcPML4
<1>2. nextPID \in Procs /\ Frames(2) \in Nat
  BY ChildIsProc, ZenonT(60) DEF elfSpawn, Frames
<1>3. B \in SUBSET got /\ C \in SUBSET got /\ B \cap C = {} /\ got \in SUBSET Nat
  <2>1. got \in SUBSET Nat
    BY <1>2, AllocIsFresh DEF PageInv
  <2>2. got # {} => Min(got) \in got /\ Max(got) \in got /\ Min(got) # Max(got)
    BY FramesTaken, ZenonT(60)
  <2> HIDE DEF got
  <2> QED
    BY <2>1, <2>2
<1>t. pages \in [Procs -> SUBSET Nat] /\ root \in [Procs -> SUBSET Nat]
      /\ tables \in [Procs -> SUBSET Nat]
  BY ZenonT(60) DEF PageInv
<1> HIDE DEF B, C
<1>4. OnlyOf(nextPID) /\ pages'[nextPID] \subseteq pages[nextPID] \cup {}
      /\ root'[nextPID] \subseteq root[nextPID] \cup B
      /\ tables'[nextPID] \subseteq tables[nextPID] \cup C
  BY <1>1, <1>2, <1>3, <1>t DEF OnlyOf
<1>5. {} \in SUBSET got /\ {} \cap B = {} /\ {} \cap C = {}
  BY ZenonT(60)
<1> QED
  BY <1>1, <1>2, <1>3, <1>4, <1>5, GivenPageInv, ZenonT(60)

\* A page is recorded or not.
LEMMA RecordedPages ==
    ASSUME NEW R, NEW N
    PROVE  processRecordPage(R, N) \subseteq R \cup N
  BY ZenonT(60) DEF processRecordPage

\* Loading takes pages for the program and one for its table.
LEMMA LoadPageInv ==
    ASSUME TableInv, PageInv, NEW p \in Procs, Load(p)
    PROVE  PageInv'
<1> DEFINE got == allocPage(mem, Frames(2))
           C == Mapped(got)
           A == processRecordPage({}, got \ C)
<1>1. PICK c : /\ c = loc[p].c /\ root' = root /\ pages' = [pages EXCEPT ![c] = A]
               /\ tables' = [tables EXCEPT ![c] = tables[c] \cup C]
               /\ mem' = Allocated(mem, Frames(2))
  BY ZenonT(60) DEF Load
<1>2. c \in Procs /\ Frames(2) \in Nat
  BY <1>1, ChildIsProc, ZenonT(60) DEF Load, Frames
<1>3. A \in SUBSET got /\ C \in SUBSET got /\ A \cap C = {} /\ got \in SUBSET Nat
  <2>1. got \in SUBSET Nat
    BY <1>2, AllocIsFresh DEF PageInv
  <2>2. got # {} => Max(got) \in got
    BY FramesTaken, ZenonT(60)
  <2>3. A \subseteq got \ C
    BY RecordedPages
  <2> HIDE DEF got
  <2>4. C \subseteq got
    BY <2>2, ZenonT(60) DEF Mapped
  <2> QED
    BY <2>1, <2>3, <2>4, ZenonT(60)
<1>t. pages \in [Procs -> SUBSET Nat] /\ root \in [Procs -> SUBSET Nat]
      /\ tables \in [Procs -> SUBSET Nat]
  BY DEF PageInv
<1> HIDE DEF A, C
<1>4. OnlyOf(c) /\ pages'[c] \subseteq pages[c] \cup A /\ root'[c] \subseteq root[c] \cup {}
      /\ tables'[c] \subseteq tables[c] \cup C
  BY <1>1, <1>2, <1>3, <1>t DEF OnlyOf
<1>5. {} \in SUBSET got /\ A \cap {} = {} /\ {} \cap C = {}
  BY ZenonT(60)
<1> QED
  BY <1>1, <1>2, <1>3, <1>4, <1>5, GivenPageInv, ZenonT(60)

\* The heap grows by a page of its own, and perhaps one for its table.
LEMMA SbrkPageInv ==
    ASSUME PageInv, NEW p \in Procs, sysSbrk(p)
    PROVE  PageInv'
<1>1. PICK n, got, C :
          /\ n \in 1 .. 2
          /\ got = allocPage(mem, n) /\ C = (IF n = 1 THEN {} ELSE Mapped(got))
          /\ pages' = [pages EXCEPT ![p] = processRecordPage(pages[p], got \ C)]
          /\ tables' = [tables EXCEPT ![p] = tables[p] \cup C]
          /\ root' = root /\ mem' = Allocated(mem, n)
  BY ZenonT(60) DEF sysSbrk
<1> DEFINE A == got \ C
           P == processRecordPage(pages[p], A)
<1>2. P \subseteq pages[p] \cup A
  BY RecordedPages
<1>3. C \in SUBSET got /\ got \in SUBSET Nat /\ n \in Nat
  <2>1. got \in SUBSET Nat /\ n \in Nat
    BY <1>1, AllocIsFresh DEF PageInv
  <2>2. CASE n = 1
    BY <1>1, <2>1, <2>2, ZenonT(60)
  <2>3. CASE n = 2 /\ got # {}
    BY <1>1, <2>1, <2>3, MinAndMaxOfTwo, ZenonT(60) DEF Mapped, PageInv
  <2>4. CASE got = {}
    BY <1>1, <2>1, <2>4, ZenonT(60) DEF Mapped
  <2>5. n = 1 \/ n = 2
    BY <1>1
  <2> QED
    BY <2>2, <2>3, <2>4, <2>5, ZenonT(60)
<1>t. pages \in [Procs -> SUBSET Nat] /\ root \in [Procs -> SUBSET Nat]
      /\ tables \in [Procs -> SUBSET Nat]
  BY ZenonT(60) DEF PageInv
<1>4. A \in SUBSET got /\ A \in SUBSET Nat /\ A \cap C = {}
  BY <1>3, ZenonT(60)
<1>5. pages' = [pages EXCEPT ![p] = P]
  BY <1>1, ZenonT(60)
<1> HIDE DEF A, P
<1>6. OnlyOf(p) /\ pages'[p] \subseteq pages[p] \cup A /\ root'[p] \subseteq root[p] \cup {}
      /\ tables'[p] \subseteq tables[p] \cup C
  <2>1. P \in SUBSET Nat /\ tables[p] \cup C \in SUBSET Nat
    BY <1>2, <1>3, <1>4, <1>t, ZenonT(60)
  <2>2. {pages', root', tables'} \subseteq [Procs -> SUBSET Nat]
    <3>1. pages' \in [Procs -> SUBSET Nat]
      BY ONLY <1>5, <1>t, <2>1, SMTT(60)
    <3>2. tables' \in [Procs -> SUBSET Nat]
      BY ONLY <1>1, <1>t, <2>1, SMTT(60)
    <3> QED
      BY <1>1, <1>t, <3>1, <3>2, ZenonT(60)
  <2> QED
    BY <1>1, <1>2, <1>5, <1>t, <2>2, ZenonT(60) DEF OnlyOf
<1>7. {} \in SUBSET got /\ A \cap {} = {} /\ {} \cap C = {}
  BY ZenonT(60)
<1> QED
  BY <1>1, <1>3, <1>4, <1>6, <1>7, GivenPageInv, ZenonT(60)

\* An exit frees the recorded pages, then the PML4.
LEMMA ExitPageInv ==
    ASSUME PageInv, NEW p \in Procs, Exit(p) \/ FreeRoot(p)
    PROVE  PageInv'
<1>1. CASE Exit(p)
  <2>1. /\ pages' = [pages EXCEPT ![p] = {}] /\ root' = root /\ tables' = tables
        /\ mem' = freePage(mem, pages[p])
    BY <1>1, ZenonT(60) DEF Exit
  <2>2. OnlyOf(p) /\ pages'[p] = {}
    BY <2>1 DEF OnlyOf, PageInv
  <2>3. Held(p)' \cap pages[p] = {} /\ pages[p] \in SUBSET Held(p)
    BY <2>1, <2>2, ZenonT(60) DEF Held, PageInv
  <2> QED
    BY <2>1, <2>2, <2>3, FreedPageInv, ZenonT(60)
<1>2. CASE FreeRoot(p)
  <2>1. /\ root' = [root EXCEPT ![p] = {}] /\ pages' = pages /\ tables' = tables
        /\ mem' = freePage(mem, root[p])
    BY <1>2, ZenonT(60) DEF FreeRoot, freeProcPML4
  <2>2. OnlyOf(p) /\ root'[p] = {}
    BY <2>1 DEF OnlyOf, PageInv
  <2>3. Held(p)' \cap root[p] = {} /\ root[p] \in SUBSET Held(p)
    BY <2>1, <2>2, ZenonT(60) DEF Held, PageInv
  <2> QED
    BY <2>1, <2>2, <2>3, FreedPageInv, ZenonT(60)
<1> QED
  BY <1>1, <1>2, ZenonT(60)

\* Nothing else touches pages.
LEMMA PagesFrame ==
    ASSUME NEW p \in Procs, SystemCall(p) \/ Kernel(p),
           ~sysSpawn(p), ~sysExec(p), ~Load(p), ~sysSbrk(p), ~Exit(p), ~FreeRoot(p)
    PROVE  UNCHANGED <<mem, pages, root, tables>>
<1>1. CASE SystemCall(p)
  BY <1>1, ZenonT(60) DEF SystemCall, sysWait, sysWaitpid, sysPipe, sysClose, sysDup2,
              sysWrite, sysRead, ReadLine, sysReadKey, TakesKeyboard, memory
<1>2. CASE Kernel(p)
  BY <1>2, ZenonT(60) DEF Kernel, Inherit, Start, ring3WrapperKT, SaveForeground, GiveForeground,
              TakeForeground, Reap, procCloseAll, ClearSlot, Release, RefLoad, RefStore, RefCheck,
              DupCopy, CheckReader, SendByte, ReceiveByte, LoadEvent, StoreEvent, memory
<1> QED
  BY <1>1, <1>2, ZenonT(60)

\* Every step preserves the pages' invariant.
LEMMA NextPageInv == ASSUME TableInv, PageInv, [Next]_vars PROVE PageInv'
<1>1. ASSUME UNCHANGED <<mem, pages, root, tables>> PROVE PageInv'
  BY <1>1 DEF PageInv, IsMem, OnStack, Held
<1>2. ASSUME NEW p \in Procs, SystemCall(p) \/ Kernel(p) PROVE PageInv'
  BY <1>1, <1>2, PagesFrame, SpawnPageInv, LoadPageInv, SbrkPageInv, ExitPageInv, ZenonT(60)
     DEF sysSpawn, sysExec
<1> QED
  BY <1>1, <1>2, ZenonT(60) DEF Next, Typing, Signals, vars, memory

\* What is held once is held by one process in one way.
LEMMA HeldOnce ==
    ASSUME PageInv, NEW f \in Owned
    PROVE  Owners(f) = 1 /\ ~OnStack(mem, f) /\ f < mem.next
<1> DEFINE P == {p \in Procs : f \in pages[p]}
           R == {p \in Procs : f \in root[p]}
           T == {p \in Procs : f \in tables[p]}
<1>1. PICK p \in Procs : f \in Held(p)
  BY ZenonT(60) DEF Owned, Held
<1>2. \A q \in Procs : q # p => f \notin pages[q] /\ f \notin root[q] /\ f \notin tables[q]
  BY <1>1, ZenonT(60) DEF PageInv, Held
<1>3. \/ P = {p} /\ R = {} /\ T = {}
      \/ P = {} /\ R = {p} /\ T = {}
      \/ P = {} /\ R = {} /\ T = {p}
  BY <1>1, <1>2 DEF PageInv, Held
<1>4. Cardinality({}) = 0 /\ Cardinality({p}) = 1
  BY FS_EmptySet, FS_Singleton, ZenonT(60)
<1> HIDE DEF P, R, T
<1>5. Cardinality(P) + Cardinality(R) + Cardinality(T) = 1
  BY <1>3, <1>4
<1> QED
  BY <1>1, <1>5, ZenonT(60) DEF PageInv, Owners, P, R, T

\* However spawns, heap growth and exits of any number of processes interleave,
\* a physical page is free once or has one use in one process (allocPage,
\* freePage, processExit).
THEOREM PagesHaveOneUse == Spec => []PagesDisjoint
<1>1. Init => PageInv
  <2> SUFFICES ASSUME Init PROVE PageInv
    OBVIOUS
  <2>1. IsMem(mem)
    BY DEF Init, MemInit, IsMem, IsStack
  <2> QED
    BY <2>1, ZenonT(60) DEF Init, PageInv, Held
<1>2. PageInv => PagesDisjoint
  <2> SUFFICES ASSUME PageInv PROVE PagesDisjoint
    BY ZenonT(60)
  <2>1. DOMAIN mem.free = 1 .. Len(mem.free) /\ IsStack(mem.free, mem.next)
    BY DEF PageInv, IsMem
  <2>2. IsInjective(mem.free)
    BY <2>1, ZenonT(60) DEF IsInjective, IsStack
  <2>3. \A f : ~OnStack(mem, f) => f \notin Range(mem.free)
    BY <2>1, ZenonT(60) DEF OnStack, Range
  <2> QED
    BY <2>2, <2>3, HeldOnce, ZenonT(60) DEF PagesDisjoint
<1> QED
  BY <1>1, <1>2, NextPageInv, TableInvHolds, PTL DEF Spec
=============================================================================
