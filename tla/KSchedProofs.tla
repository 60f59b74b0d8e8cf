---------------------------- MODULE KSchedProofs ----------------------------
(***************************************************************************)
(* With at most one AP online there is nobody to steal from, and KSched    *)
(* keeps its promises for any number of threads, timers and services: a    *)
(* thread executes on one CPU at most, is on one list at most, is never    *)
(* preempted inside the kernel's park or syscall paths, and no wake-up is  *)
(* lost.  The theorems are about behaviours of Spec in which SingleAP      *)
(* holds; with two APs the first of them is false.                         *)
(***************************************************************************)
EXTENDS KSchedEvents, FiniteSetTheorems

\* The time a leaf is given.
USE SMTT(60), ZenonT(60)

\* int 0x80.
LEMMA SyscallIInv ==
    ASSUME SlotCounting, IInv, NEW c \in CPUs, Syscall(c)
    PROVE  IInv'
<1>1. PICK t \in Slots :
        /\ running[c] = t /\ pc[t] = "user"
        /\ pc'     = [pc EXCEPT ![t] = "sys"]
        /\ frames' = [frames EXCEPT ![t] = @ + 1]
        /\ depth'  = [depth EXCEPT ![c] = Inc(@)]
        /\ UNCHANGED <<used, state, owner, hosted, intr, exitCPU, queueVars,
                       running, loop, timerVars, bootVars>>
  BY ZenonT(60) DEF Syscall, At
<1>t. pc \in [Slots -> Positions] /\ frames \in [Slots -> Nat] /\
         depth \in [CPUs -> 0..(DepthMod - 1)]
  BY ZenonT(60) DEF IInv, TypeOK
<1>2. /\ \A x \in Slots : pc'[x] = IF x = t THEN "sys" ELSE pc[x]
      /\ \A x \in Slots : frames'[x] = IF x = t THEN frames[t] + 1 ELSE frames[x]
      /\ \A d \in CPUs : depth'[d] = IF d = c THEN Inc(depth[c]) ELSE depth[d]
      /\ used' = used /\ state' = state /\ owner' = owner /\ hosted' = hosted /\
         intr' = intr /\ exitCPU' = exitCPU /\ svcq' = svcq /\
         ring3q' = ring3q /\ running' = running /\ loop' = loop /\
         armed' = armed /\ ready' = ready /\ fired' = fired /\
         linked' = linked /\ waking' = waking /\ booted' = booted /\
         shellExited' = shellExited
  BY <1>t, <1>1, ZenonT(60) DEF queueVars, timerVars, bootVars
<1>3. /\ Dispatcher \in Slots /\ Shell \in Slots /\ Dispatcher # Shell
      /\ NoThread \notin Slots /\ BSP \in CPUs
      /\ owner[t] = c /\ t # NoThread /\ running[c] = t
      /\ pc[t] = "user" /\ t # Dispatcher /\ frames[t] = 0 /\ frames'[t] = 1
  BY <1>1, <1>2, Consts DEF IInv, Exec, Kind, FramesAt
<1>4. /\ Cardinality(Owing(c)') = Cardinality(Owing(c)) + 1
      /\ \A d \in CPUs \ {c} : Owing(d)' = Owing(d)
  BY <1>2, <1>3, OweMore, ZenonT(60)
<1>5. Inc(depth[c]) = depth[c] + 1 /\ Inc(depth[c]) \in 0..(DepthMod - 1)
  BY DepthSmall, ZenonT(60) DEF IInv
<1>10. DepthExact'
  BY <1>2, <1>4, <1>5, ZenonT(60) DEF IInv, DepthExact
<1>11. TypeOK'
  <2>1. /\ pc' \in [Slots -> Positions]
        /\ frames' \in [Slots -> Nat]
        /\ depth' \in [CPUs -> 0..(DepthMod - 1)]
    BY <1>t, <1>1, <1>3, <1>5 DEF Positions, Interruptible, Resting
  <2> QED
    BY <1>2, <2>1, ZenonT(60) DEF IInv, TypeOK
<1> USE <1>2, <1>3
<1>12. Exec'
  BY DEF IInv, Exec, Resting
<1>13. Kind'
  BY DEF IInv, Kind, SafePoints
<1>14. StateAt'
  BY DEF IInv, StateAt
<1>15. Queued'
  BY ZenonT(60) DEF IInv, Queued
<1>16. Waits'
  BY DEF IInv, Waits, InWait
<1>17. FramesAt'
  BY DEF IInv, FramesAt, Kind
<1>18. ShellHome'
  BY DEF IInv, ShellHome, Halting
<1> QED
  BY <1>10, <1>11, <1>12, <1>13, <1>14, <1>15, <1>16, <1>17, <1>18, ZenonT(60) DEF IInv

\* The return from int 0x80.
LEMMA SysReturnIInv ==
    ASSUME SlotCounting, IInv, NEW c \in CPUs, SysReturn(c)
    PROVE  IInv'
<1>1. PICK t \in Slots :
        /\ running[c] = t /\ pc[t] = "sys"
        /\ pc'     = [pc EXCEPT ![t] = "user"]
        /\ frames' = [frames EXCEPT ![t] = @ - 1]
        /\ depth'  = [depth EXCEPT ![c] = Dec(@)]
        /\ UNCHANGED <<used, state, owner, hosted, intr, exitCPU, queueVars,
                       running, loop, timerVars, bootVars>>
  BY ZenonT(60) DEF SysReturn, At
<1>t. pc \in [Slots -> Positions] /\ frames \in [Slots -> Nat] /\
         depth \in [CPUs -> 0..(DepthMod - 1)]
  BY ZenonT(60) DEF IInv, TypeOK
<1>2. /\ \A x \in Slots : pc'[x] = IF x = t THEN "user" ELSE pc[x]
      /\ \A x \in Slots : frames'[x] = IF x = t THEN frames[t] - 1 ELSE frames[x]
      /\ \A d \in CPUs : depth'[d] = IF d = c THEN Dec(depth[c]) ELSE depth[d]
      /\ used' = used /\ state' = state /\ owner' = owner /\ hosted' = hosted /\
         intr' = intr /\ exitCPU' = exitCPU /\ svcq' = svcq /\
         ring3q' = ring3q /\ running' = running /\ loop' = loop /\
         armed' = armed /\ ready' = ready /\ fired' = fired /\
         linked' = linked /\ waking' = waking /\ booted' = booted /\
         shellExited' = shellExited
  BY <1>t, <1>1, ZenonT(60) DEF queueVars, timerVars, bootVars
<1>3. /\ Dispatcher \in Slots /\ Shell \in Slots /\ Dispatcher # Shell
      /\ NoThread \notin Slots /\ BSP \in CPUs
      /\ owner[t] = c /\ t # NoThread /\ running[c] = t
      /\ pc[t] = "sys" /\ t # Dispatcher /\ frames[t] = 1 /\ frames'[t] = 0
  BY <1>1, <1>2, Consts DEF IInv, Exec, Kind, FramesAt
<1>4. /\ Cardinality(Owing(c)) > 0
      /\ Cardinality(Owing(c)') = Cardinality(Owing(c)) - 1
      /\ \A d \in CPUs \ {c} : Owing(d)' = Owing(d)
  BY <1>2, <1>3, OweLess, ZenonT(60)
<1>5. /\ depth[c] = Cardinality(Owing(c)) /\ depth[c] > 0
      /\ Dec(depth[c]) = depth[c] - 1 /\ Dec(depth[c]) \in 0..(DepthMod - 1)
  <2>1. depth[c] = Cardinality(Owing(c)) /\ depth[c] > 0
    BY <1>4, ZenonT(60) DEF IInv, DepthExact
  <2> QED
    BY <2>1, DepthSmall, BoundAssumption DEF IInv
<1>10. DepthExact'
  BY <1>2, <1>4, <1>5, ZenonT(60) DEF IInv, DepthExact
<1>11. TypeOK'
  <2>1. /\ pc' \in [Slots -> Positions]
        /\ frames' \in [Slots -> Nat]
        /\ depth' \in [CPUs -> 0..(DepthMod - 1)]
    BY <1>t, <1>1, <1>3, <1>5 DEF Positions, Interruptible, Resting
  <2> QED
    BY <1>2, <2>1, ZenonT(60) DEF IInv, TypeOK
<1> USE <1>2, <1>3
<1>12. Exec'
  BY DEF IInv, Exec, Resting
<1>13. Kind'
  BY DEF IInv, Kind, SafePoints
<1>14. StateAt'
  BY DEF IInv, StateAt
<1>15. Queued'
  BY ZenonT(60) DEF IInv, Queued
<1>16. Waits'
  BY ZenonT(60) DEF IInv, Waits, InWait
<1>17. FramesAt'
  BY DEF IInv, FramesAt, Kind
<1>18. ShellHome'
  BY DEF IInv, ShellHome, Halting
<1> QED
  BY <1>10, <1>11, <1>12, <1>13, <1>14, <1>15, <1>16, <1>17, <1>18, ZenonT(60) DEF IInv

-----------------------------------------------------------------------------
\* The pool is finite, so sets of threads can be counted.
LEMMA Counting == SlotCounting
<1>1. ASSUME NEW S \in SUBSET Slots
      PROVE  /\ Cardinality(S) \in Nat /\ Cardinality(S) <= Cardinality(Slots)
             /\ Cardinality(S) = 0 => S = {}
             /\ \A t \in Slots \ S : Cardinality(S \cup {t}) = Cardinality(S) + 1
             /\ \A t \in S : Cardinality(S \ {t}) = Cardinality(S) - 1
  <2>1. IsFiniteSet(S) /\ Cardinality(S) <= Cardinality(Slots)
    BY SlotAssumption, FS_Subset, ZenonT(60)
  <2>2. Cardinality(S) \in Nat /\ (Cardinality(S) = 0 => S = {})
    BY <2>1, FS_CardinalityType, FS_EmptySet, ZenonT(60)
  <2>3. \A t \in Slots \ S : Cardinality(S \cup {t}) = Cardinality(S) + 1
    BY <2>1, FS_AddElement, ZenonT(60)
  <2>4. \A t \in S : Cardinality(S \ {t}) = Cardinality(S) - 1
    BY <2>1, FS_RemoveElement, ZenonT(60)
  <2> QED
    BY <2>1, <2>2, <2>3, <2>4, ZenonT(60)
<1>2. Cardinality({}) = 0 /\ Cardinality(Slots) \in Nat
  BY SlotAssumption, FS_EmptySet, FS_CardinalityType, ZenonT(60)
<1> QED
  BY <1>1, <1>2, ZenonT(60) DEF SlotCounting

\* What taking t off a ready queue of c leaves for the commit to rely on.
Popped(c, t) ==
    /\ running[c] = NoThread /\ owner[t] = c /\ state[t] = "Runnable"
    /\ Queued' /\ svcq' \in [CPUs -> Seq(Slots)] /\ ring3q' \in [CPUs -> Seq(Slots)]
    /\ loop' \in [CPUs -> {"service", "ring3", "pop", "steal"}]
    /\ IF c = BSP THEN /\ ~shellExited
                       /\ loop'[BSP] = "service" \/ (loop'[BSP] = "ring3" /\ ~hosted[t])
                  ELSE loop'[BSP] = loop[BSP]

\* Dispatch of a preempted thread: the handler's epilogue closes the frame.
LEMMA CommitPreemptedIInv ==
    ASSUME SlotCounting, IInv, NEW c \in CPUs, NEW t \in Slots, Commit(c, t), Popped(c, t),
           pc[t] = "preempted"
    PROVE  IInv'
<1>1. /\ running' = [running EXCEPT ![c] = t]
      /\ state'   = [state EXCEPT ![t] = "Running"]
      /\ owner'   = [owner EXCEPT ![t] = c]
      /\ pc'      = [pc EXCEPT ![t] = intr[t]]
      /\ depth'   = [depth EXCEPT ![c] = Dec(@)]
      /\ frames'  = [frames EXCEPT ![t] = @ - 1]
      /\ intr'    = [intr EXCEPT ![t] = "free"]
      /\ UNCHANGED <<used, hosted, exitCPU, timerVars, bootVars>>
  BY ZenonT(60) DEF Commit
<1>a. owner' = owner
  BY <1>1, ZenonT(60) DEF IInv, TypeOK, Popped
<1>t. state \in [Slots -> States] /\ owner \in [Slots -> CPUs] /\
         pc \in [Slots -> Positions] /\ intr \in [Slots -> Positions] /\ frames \in [Slots -> Nat] /\
         svcq \in [CPUs -> Seq(Slots)] /\ ring3q \in [CPUs -> Seq(Slots)] /\
         running \in [CPUs -> Slots \cup {NoThread}] /\
         loop \in [CPUs -> {"service", "ring3", "pop", "steal"}] /\
         depth \in [CPUs -> 0..(DepthMod - 1)]
  BY ZenonT(60) DEF IInv, TypeOK
<1>2. /\ \A d \in CPUs : running'[d] = IF d = c THEN t ELSE running[d]
      /\ \A x \in Slots : state'[x] = IF x = t THEN "Running" ELSE state[x]
      /\ \A x \in Slots : pc'[x] = IF x = t THEN intr[t] ELSE pc[x]
      /\ \A x \in Slots : intr'[x] = IF x = t THEN "free" ELSE intr[x]
      /\ \A d \in CPUs : depth'[d] = IF d = c THEN Dec(depth[c]) ELSE depth[d]
      /\ \A x \in Slots : frames'[x] = IF x = t THEN frames[t] - 1 ELSE frames[x]
      /\ used' = used /\ hosted' = hosted /\
         exitCPU' = exitCPU /\ armed' = armed /\ ready' = ready /\
         fired' = fired /\ linked' = linked /\ waking' = waking /\
         booted' = booted /\ shellExited' = shellExited
  BY <1>t, <1>1, ZenonT(60) DEF timerVars, bootVars
<1>3. /\ Dispatcher \in Slots /\ Shell \in Slots /\ Dispatcher # Shell
      /\ NoThread \notin Slots /\ BSP \in CPUs
      /\ owner[t] = c /\ t # NoThread /\ running[c] = NoThread
      /\ pc[t] = "preempted" /\ t # Dispatcher /\ state[t] = "Runnable"
      /\ frames[t] = 1 /\ frames'[t] = 0 /\ used[t]
      /\ intr[t] \in SafePoints /\ (hosted[t] <=> intr[t] \in {"wrapper", "user", "exitA"})
      /\ IF c = BSP THEN /\ ~shellExited
                         /\ loop'[BSP] = "service" \/ (loop'[BSP] = "ring3" /\ ~hosted[t])
                    ELSE loop'[BSP] = loop[BSP]
      /\ owner' = owner
  BY <1>1, <1>2, <1>a, Consts DEF IInv, Exec, Kind, FramesAt, Popped
<1>4. /\ Cardinality(Owing(c)) > 0
      /\ Cardinality(Owing(c)') = Cardinality(Owing(c)) - 1
      /\ \A d \in CPUs \ {c} : Owing(d)' = Owing(d)
  BY <1>2, <1>3, OweLess, ZenonT(60)
<1>5. /\ depth[c] = Cardinality(Owing(c)) /\ depth[c] > 0
      /\ Dec(depth[c]) = depth[c] - 1 /\ Dec(depth[c]) \in 0..(DepthMod - 1)
  <2>1. depth[c] = Cardinality(Owing(c)) /\ depth[c] > 0
    BY <1>4, ZenonT(60) DEF IInv, DepthExact
  <2> QED
    BY <2>1, DepthSmall, BoundAssumption DEF IInv
<1>10. DepthExact'
  BY <1>2, <1>4, <1>5 DEF IInv, DepthExact
<1>11. TypeOK'
  <2>1. state' \in [Slots -> States]
    BY <1>t, <1>1, ZenonT(60) DEF States
  <2>2. owner' \in [Slots -> CPUs]
    BY <1>t, <1>1, ZenonT(60)
  <2>3. pc' \in [Slots -> Positions]
    <3>1. intr[t] \in Positions
      BY <1>3, ZenonT(60) DEF SafePoints, Positions, Interruptible
    <3> QED
      BY <1>t, <1>1, <3>1, ZenonT(60)
  <2>10. intr' \in [Slots -> Positions]
    BY <1>t, <1>1, ZenonT(60) DEF Positions, Resting
  <2>4. frames' \in [Slots -> Nat]
    BY <1>t, <1>1, <1>3
  <2>5. svcq' \in [CPUs -> Seq(Slots)]
    BY ZenonT(60) DEF Popped
  <2>6. ring3q' \in [CPUs -> Seq(Slots)]
    BY ZenonT(60) DEF Popped
  <2>7. running' \in [CPUs -> Slots \cup {NoThread}]
    BY <1>t, <1>1, ZenonT(60)
  <2>8. loop' \in [CPUs -> {"service", "ring3", "pop", "steal"}]
    BY ZenonT(60) DEF Popped
  <2>9. depth' \in [CPUs -> 0..(DepthMod - 1)]
    BY <1>t, <1>1, <1>5, ZenonT(60)
  <2> QED
    BY <1>2, <2>1, <2>2, <2>3, <2>4, <2>5, <2>6, <2>7, <2>8, <2>9, <2>10, ZenonT(60) DEF IInv, TypeOK
<1>12. Exec'
  BY <1>2, <1>3 DEF IInv, Exec, Resting, SafePoints
<1>13. StateAt'
  BY <1>2, <1>3 DEF IInv, StateAt, SafePoints
<1>14. Queued'
  BY ZenonT(60) DEF Popped
<1>6. /\ \A x \in Slots \ {t} : pc'[x] = pc[x] /\ state'[x] = state[x] /\
                                frames'[x] = frames[x] /\
                                intr'[x] = intr[x]
      /\ pc'[t] = intr[t] /\ state'[t] = "Running"
  BY <1>2, ZenonT(60)
<1>15. Waits'
  <2>1. armed' = armed /\ ready' = ready /\ fired' = fired /\ linked' = linked /\
        waking' = waking
    BY <1>2, ZenonT(60)
  <2>2. /\ t # Dispatcher /\ Dispatcher \in Slots
        /\ pc[t] \notin InWait /\ pc'[t] \notin InWait /\ state[t] # "Parked"
    BY <1>3, <1>6, ZenonT(60) DEF SafePoints, InWait
  <2> QED
    BY <1>6, <2>1, <2>2, ZenonT(60) DEF IInv, Waits
<1>16. FramesAt'
  <2>1. hosted' = hosted /\ frames'[t] = 0 /\ pc'[t] \in SafePoints
    BY <1>2, <1>3, <1>6, ZenonT(60)
  <2> QED
    BY <1>6, <2>1, ZenonT(60) DEF IInv, FramesAt, SafePoints
<1>17. ShellHome'
  BY <1>2, <1>3 DEF IInv, ShellHome, Halting, SafePoints
<1> USE <1>2, <1>3
<1>18. Kind'
  BY DEF IInv, Kind, SafePoints
<1> QED
  BY <1>10, <1>11, <1>12, <1>13, <1>14, <1>15, <1>16, <1>17, <1>18, ZenonT(60) DEF IInv

\* Dispatch of a fresh thread, or one that yielded or parked.
LEMMA CommitOtherIInv ==
    ASSUME IInv, NEW c \in CPUs, NEW t \in Slots, Commit(c, t), Popped(c, t),
           pc[t] # "preempted"
    PROVE  IInv'
<1>0. pc[t] \in {"fresh", "parked", "yielded"}
  <2>1. pc[t] \in Resting
    BY Consts DEF IInv, Exec, Popped
  <2> QED
    BY <2>1, ZenonT(60) DEF IInv, StateAt, Resting, Popped
<1>1. /\ running' = [running EXCEPT ![c] = t]
      /\ state'   = [state EXCEPT ![t] = "Running"]
      /\ owner'   = [owner EXCEPT ![t] = c]
      /\ pc' = [pc EXCEPT ![t] = IF pc[t] = "parked" THEN "wait"
                                 ELSE IF ~hosted[t] THEN "run"
                                 ELSE IF pc[t] = "fresh" THEN "wrapper" ELSE "sys"]
      /\ UNCHANGED <<used, hosted, intr, exitCPU, depth, frames, timerVars, bootVars>>
  <2>1. pc[t] = "yielded" => Base(t) = IF hosted[t] THEN "sys" ELSE "run"
    BY DEF IInv, FramesAt, Base
  <2>2. (CASE pc[t] = "fresh" /\ hosted[t] -> "wrapper"
           [] pc[t] = "fresh" /\ ~hosted[t] -> "run"
           [] pc[t] = "parked"    -> "wait"
           [] pc[t] = "preempted" -> intr[t]
           [] OTHER               -> Base(t))
        = IF pc[t] = "parked" THEN "wait"
          ELSE IF ~hosted[t] THEN "run"
          ELSE IF pc[t] = "fresh" THEN "wrapper" ELSE "sys"
    BY <1>0, <2>1, ZenonT(60)
  <2> QED
    BY <1>0, <2>2, ZenonT(60) DEF Commit
<1>a. owner' = owner
  BY <1>1, ZenonT(60) DEF IInv, TypeOK, Popped
<1>b. t \notin linked /\ t # waking
  BY Consts DEF IInv, Waits, Popped
<1>t. state \in [Slots -> States] /\ owner \in [Slots -> CPUs] /\
         pc \in [Slots -> Positions] /\ svcq \in [CPUs -> Seq(Slots)] /\
         ring3q \in [CPUs -> Seq(Slots)] /\
         running \in [CPUs -> Slots \cup {NoThread}] /\
         loop \in [CPUs -> {"service", "ring3", "pop", "steal"}]
  BY ZenonT(60) DEF IInv, TypeOK
<1>2. /\ \A d \in CPUs : running'[d] = IF d = c THEN t ELSE running[d]
      /\ \A x \in Slots : state'[x] = IF x = t THEN "Running" ELSE state[x]
      /\ \A x \in Slots \ {t} : pc'[x] = pc[x]
      /\ \/ pc[t] = "parked" /\ pc'[t] = "wait"
         \/ pc[t] \in {"fresh", "yielded"} /\ ~hosted[t] /\ pc'[t] = "run"
         \/ pc[t] = "fresh" /\ hosted[t] /\ pc'[t] = "wrapper"
         \/ pc[t] = "yielded" /\ hosted[t] /\ pc'[t] = "sys"
      /\ used' = used /\ hosted' = hosted /\ intr' = intr /\ frames' = frames /\
         exitCPU' = exitCPU /\ depth' = depth /\ armed' = armed /\
         ready' = ready /\ fired' = fired /\ linked' = linked /\
         waking' = waking /\ booted' = booted /\ shellExited' = shellExited
  BY <1>t, <1>1, <1>0, ZenonT(60) DEF timerVars, bootVars
<1>3. /\ Dispatcher \in Slots /\ Shell \in Slots /\ Dispatcher # Shell
      /\ NoThread \notin Slots /\ BSP \in CPUs
      /\ owner[t] = c /\ t # NoThread /\ running[c] = NoThread
      /\ state[t] = "Runnable" /\ used[t] /\ t \notin linked /\ t # waking
      /\ IF c = BSP THEN /\ ~shellExited
                         /\ loop'[BSP] = "service" \/ (loop'[BSP] = "ring3" /\ ~hosted[t])
                    ELSE loop'[BSP] = loop[BSP]
      /\ owner' = owner
  <2>1. used[t]
    BY <1>0, ZenonT(60) DEF IInv, Exec
  <2> QED
    BY <1>a, <1>b, <2>1, Consts, ZenonT(60) DEF Popped
<1>10. TypeOK'
  <2>1. /\ state' \in [Slots -> States]
        /\ owner' \in [Slots -> CPUs]
        /\ pc' \in [Slots -> Positions]
        /\ svcq' \in [CPUs -> Seq(Slots)]
        /\ ring3q' \in [CPUs -> Seq(Slots)]
        /\ running' \in [CPUs -> Slots \cup {NoThread}]
        /\ loop' \in [CPUs -> {"service", "ring3", "pop", "steal"}]
    BY <1>t, <1>1, ZenonT(60) DEF States, Positions, Interruptible, Resting, Popped
  <2> QED
    BY <1>2, <2>1, ZenonT(60) DEF IInv, TypeOK
<1>11. Queued'
  BY ZenonT(60) DEF Popped
<1> USE <1>2, <1>3
<1>12. DepthExact'
  <2>1. \A d \in CPUs : Owing(d)' = Owing(d)
    BY OweSame, ZenonT(60)
  <2>2. depth' = depth /\ DepthExact
    BY ZenonT(60) DEF IInv
  <2> QED
    BY ONLY <2>1, <2>2, ZenonT(60) DEF DepthExact
<1>13. Exec'
  BY DEF IInv, Exec, Resting
<1>14. Kind'
  BY DEF IInv, Kind, SafePoints
<1>15. StateAt'
  BY DEF IInv, StateAt
<1>16. Waits'
  BY DEF IInv, Waits, InWait
<1>17. FramesAt'
  BY DEF IInv, FramesAt, Kind
<1>18. ShellHome'
  BY DEF IInv, ShellHome, Halting
<1> QED
  BY <1>10, <1>11, <1>12, <1>13, <1>14, <1>15, <1>16, <1>17, <1>18, ZenonT(60) DEF IInv

\* A dispatch loop that finds its queue empty, or a step of nobody.
LEMMA LoopIInv ==
    ASSUME IInv, UNCHANGED <<threadVars, queueVars, running, depth, timerVars, bootVars>>,
           loop' \in [CPUs -> {"service", "ring3", "pop", "steal"}],
           \/ loop'[BSP] = loop[BSP]
           \/ /\ running[BSP] = NoThread /\ ~shellExited
              /\ loop'[BSP] \in {"service", "ring3"}
    PROVE  IInv'
<1>1. UNCHANGED <<threadVars, queueVars, running, depth, timerVars, bootVars>>
  BY ZenonT(60)
<1>t. loop \in [CPUs -> {"service", "ring3", "pop", "steal"}]
  BY ZenonT(60) DEF IInv, TypeOK
<1>2. /\ used' = used /\ state' = state /\ owner' = owner /\ hosted' = hosted /\
         pc' = pc /\ intr' = intr /\ frames' = frames /\ exitCPU' = exitCPU /\
         svcq' = svcq /\ ring3q' = ring3q /\ running' = running /\
         depth' = depth /\ armed' = armed /\ ready' = ready /\ fired' = fired /\
         linked' = linked /\ waking' = waking /\ booted' = booted /\
         shellExited' = shellExited
  BY <1>1, ZenonT(60) DEF threadVars, queueVars, timerVars, bootVars
<1>3. /\ Dispatcher \in Slots /\ Shell \in Slots /\ Dispatcher # Shell
      /\ NoThread \notin Slots /\ BSP \in CPUs
      /\ \/ loop'[BSP] = loop[BSP]
         \/ /\ running[BSP] = NoThread /\ ~shellExited
            /\ loop'[BSP] \in {"service", "ring3"}
  BY Consts, ZenonT(60)
<1>10. TypeOK'
  <2>1. loop' \in [CPUs -> {"service", "ring3", "pop", "steal"}]
    BY ZenonT(60)
  <2> QED
    BY <1>2, <2>1, ZenonT(60) DEF IInv, TypeOK
<1> USE <1>2, <1>3
<1>11. DepthExact'
  BY OweSame, ZenonT(60) DEF IInv, DepthExact
<1>12. Exec'
  BY ZenonT(60) DEF IInv, Exec, Resting
<1>13. Kind'
  BY ZenonT(60) DEF IInv, Kind, SafePoints
<1>14. StateAt'
  BY ZenonT(60) DEF IInv, StateAt
<1>15. Queued'
  BY ZenonT(60) DEF IInv, Queued
<1>16. Waits'
  BY ZenonT(60) DEF IInv, Waits, InWait
<1>17. FramesAt'
  BY ZenonT(60) DEF IInv, FramesAt, Kind
<1>18. ShellHome'
  BY ZenonT(60) DEF IInv, ShellHome, Halting
<1> QED
  BY <1>10, <1>11, <1>12, <1>13, <1>14, <1>15, <1>16, <1>17, <1>18, ZenonT(60) DEF IInv

\* kschedLoopOnce pops a service thread and commits it.
LEMMA PumpServiceIInv ==
    ASSUME IInv, PumpService
    PROVE  IInv'
<1>1. /\ running[BSP] = NoThread /\ loop[BSP] = "service" /\ ~shellExited
      /\ loop' = [loop EXCEPT ![BSP] = "ring3"]
  BY ZenonT(60) DEF PumpService
<1>2. /\ loop' \in [CPUs -> {"service", "ring3", "pop", "steal"}]
      /\ loop'[BSP] = "ring3" /\ BSP \in CPUs
  BY <1>1, Ranges, ZenonT(60) DEF IInv, TypeOK
<1>3. CASE svcq[BSP] = <<>>
  <2>1. UNCHANGED <<threadVars, queueVars, running, depth, timerVars, bootVars>>
    BY <1>3, ZenonT(60) DEF PumpService
  <2> QED
    BY <1>1, <1>2, <2>1, LoopIInv, ZenonT(60)
<1>4. CASE svcq[BSP] # <<>>
  <2> DEFINE t == Head(svcq[BSP])
  <2>1. Commit(BSP, t) /\ svcq' = [svcq EXCEPT ![BSP] = Tail(@)] /\ ring3q' = ring3q
    BY <1>4, ZenonT(60) DEF PumpService
  <2>2. svcq[BSP] \in Seq(Slots) /\ NoRepeats(svcq[BSP])
    BY <1>2, ZenonT(60) DEF IInv, TypeOK, Queued
  <2>3. t \in Slots /\ Holds(svcq[BSP], t)
    BY <1>4, <2>2, PopHead, ZenonT(60)
  <2>4. owner[t] = BSP /\ ~hosted[t] /\ state[t] = "Runnable"
    BY <1>2, <2>3, ZenonT(60) DEF IInv, Queued
  <2>5. /\ state' = [state EXCEPT ![t] = "Running"] /\ owner' = [owner EXCEPT ![t] = BSP]
        /\ hosted' = hosted
    BY <2>1, ZenonT(60) DEF Commit
  <2> HIDE DEF t
  <2>6. t = Head(svcq[BSP])
    BY ZenonT(60) DEF t
  <2>7. Queued' /\ svcq' \in [CPUs -> Seq(Slots)] /\ ring3q' \in [CPUs -> Seq(Slots)]
    <3>1. Queued' /\ svcq' \in [CPUs -> Seq(Slots)]
      BY <1>2, <1>4, <2>1, <2>3, <2>5, <2>6, PopServiceQueued, ZenonT(60) DEF IInv
    <3> QED
      BY <2>1, <3>1, ZenonT(60) DEF IInv, TypeOK
  <2>8. Popped(BSP, t)
    BY <1>1, <1>2, <2>4, <2>7, ZenonT(60) DEF Popped
  <2> QED
    BY <1>2, <2>1, <2>3, <2>8, CommitPreemptedIInv, CommitOtherIInv, Counting, ZenonT(60)
<1> QED
  BY <1>3, <1>4, ZenonT(60)

\* A pop of a Ring-3 queue and the commit of the thread.
LEMMA PopRing3IInv ==
    ASSUME IInv, NEW c \in CPUs, ring3q[c] # <<>>, running[c] = NoThread,
           Commit(c, Head(ring3q[c])),
           ring3q' = [ring3q EXCEPT ![c] = Tail(@)], svcq' = svcq,
           loop' \in [CPUs -> {"service", "ring3", "pop", "steal"}],
           IF c = BSP THEN ~shellExited /\ loop'[BSP] = "service"
                      ELSE loop'[BSP] = loop[BSP]
    PROVE  IInv'
<1> DEFINE t == Head(ring3q[c])
<1>1. ring3q[c] \in Seq(Slots) /\ NoRepeats(ring3q[c])
  BY ZenonT(60) DEF IInv, TypeOK, Queued
<1>2. t \in Slots /\ Holds(ring3q[c], t)
  BY <1>1, PopHead, ZenonT(60)
<1>3. owner[t] = c /\ state[t] = "Runnable"
  BY <1>2 DEF IInv, Queued
<1>4. /\ state' = [state EXCEPT ![t] = "Running"] /\ owner' = [owner EXCEPT ![t] = c]
      /\ hosted' = hosted
  BY ZenonT(60) DEF Commit
<1>5. Commit(c, t) /\ t = Head(ring3q[c])
  BY ZenonT(60)
<1> HIDE DEF t
<1>6. Queued' /\ ring3q' \in [CPUs -> Seq(Slots)]
  BY <1>2, <1>4, <1>5, PopRing3Queued, ZenonT(60) DEF IInv
<1>7. svcq' \in [CPUs -> Seq(Slots)]
  BY ZenonT(60) DEF IInv, TypeOK
<1>8. Popped(c, t)
  BY <1>3, <1>6, <1>7, ZenonT(60) DEF Popped
<1> QED
  BY <1>2, <1>5, <1>8, CommitPreemptedIInv, CommitOtherIInv, Counting, ZenonT(60)

\* kschedLoopRing3OnlyOnce on the BSP.
LEMMA PumpRing3IInv ==
    ASSUME IInv, PumpRing3
    PROVE  IInv'
<1>1. /\ running[BSP] = NoThread /\ loop[BSP] = "ring3"
      /\ loop' = [loop EXCEPT ![BSP] = "service"]
  BY ZenonT(60) DEF PumpRing3
<1>2. ~shellExited
  BY <1>1, ZenonT(60) DEF IInv, ShellHome
<1>3. /\ loop' \in [CPUs -> {"service", "ring3", "pop", "steal"}]
      /\ loop'[BSP] = "service" /\ BSP \in CPUs
  BY <1>1, Ranges, ZenonT(60) DEF IInv, TypeOK
<1>4. CASE ring3q[BSP] = <<>>
  <2>1. UNCHANGED <<threadVars, queueVars, running, depth, timerVars, bootVars>>
    BY <1>4, ZenonT(60) DEF PumpRing3
  <2> QED
    BY <1>1, <1>2, <1>3, <2>1, LoopIInv, ZenonT(60)
<1>5. CASE ring3q[BSP] # <<>>
  <2>1. /\ Commit(BSP, Head(ring3q[BSP]))
        /\ ring3q' = [ring3q EXCEPT ![BSP] = Tail(@)] /\ svcq' = svcq
    BY <1>5, ZenonT(60) DEF PumpRing3
  <2> QED
    BY <1>1, <1>2, <1>3, <1>5, <2>1, PopRing3IInv, ZenonT(60)
<1> QED
  BY <1>4, <1>5

\* kschedLoopRing3Only: the AP's own queue.
LEMMA APPopIInv ==
    ASSUME IInv, NEW c \in APs, APPop(c)
    PROVE  IInv'
<1>1. c \in CPUs /\ c # BSP /\ running[c] = NoThread
  BY ZenonT(60) DEF APs, APPop
<1>2. CASE ring3q[c] = <<>>
  <2>1. /\ loop' = [loop EXCEPT ![c] = "steal"]
        /\ UNCHANGED <<threadVars, queueVars, running, depth, timerVars, bootVars>>
    BY <1>2, ZenonT(60) DEF APPop
  <2>2. loop'[BSP] = loop[BSP] /\ loop' \in [CPUs -> {"service", "ring3", "pop", "steal"}]
    BY <1>1, <2>1, Ranges, ZenonT(60) DEF IInv, TypeOK
  <2> QED
    BY <2>1, <2>2, LoopIInv, ZenonT(60)
<1>3. CASE ring3q[c] # <<>>
  <2>1. /\ Commit(c, Head(ring3q[c]))
        /\ ring3q' = [ring3q EXCEPT ![c] = Tail(@)] /\ svcq' = svcq /\ loop' = loop
    BY <1>3, ZenonT(60) DEF APPop
  <2>2. loop' \in [CPUs -> {"service", "ring3", "pop", "steal"}]
    BY <2>1, ZenonT(60) DEF IInv, TypeOK
  <2> QED
    BY <1>1, <1>3, <2>1, <2>2, PopRing3IInv, ZenonT(60)
<1> QED
  BY <1>2, <1>3, ZenonT(60)

\* kschedLoopRing3Only going back to its queue from hlt.
LEMMA APIdleIInv ==
    ASSUME IInv, NEW c \in APs, APIdle(c)
    PROVE  IInv'
<1>1. /\ loop' = [loop EXCEPT ![c] = "pop"]
      /\ UNCHANGED <<threadVars, queueVars, running, depth, timerVars, bootVars>>
  BY ZenonT(60) DEF APIdle
<1>2. loop'[BSP] = loop[BSP] /\ loop' \in [CPUs -> {"service", "ring3", "pop", "steal"}]
  BY <1>1, Ranges, ZenonT(60) DEF IInv, TypeOK, APs
<1> QED
  BY <1>1, <1>2, LoopIInv, ZenonT(60)

\* One round of KEvent.Wait, and one KEvent.Signal.
LEMMA EventIInv ==
    ASSUME IInv, NEW c \in CPUs, WaitRound(c) \/ Signal(c)
    PROVE  IInv'
<1>1. CASE WaitRound(c)
  <2>1. PICK t \in Slots : At(c, t, "wait")
    BY <1>1, ZenonT(60) DEF WaitRound
  <2> QED
    BY <1>1, <2>1, WaitReturnIInv, WaitParkIInv, ZenonT(60)
<1>2. CASE Signal(c)
  <2>1. PICK t \in ready :
           /\ ready' = ready \ {t} /\ fired' = fired \cup {t} /\ linked' = linked \ {t}
           /\ IF t \in linked
              THEN waking' = t /\ pc' = [pc EXCEPT ![Dispatcher] = "wake"]
              ELSE waking' = waking /\ pc' = pc
    BY <1>2, ZenonT(60) DEF Signal, Detached
  <2>2. CASE t \in linked
    BY <1>2, <2>1, <2>2, SignalWaiterIInv, ZenonT(60)
  <2>3. CASE t \notin linked
    <3>1. linked' = linked
      BY <2>1, <2>3, ZenonT(60)
    <3> QED
      BY <1>2, <2>1, <2>3, <3>1, SignalUnparkedIInv, ZenonT(60)
  <2> QED
    BY <2>2, <2>3, ZenonT(60)
<1> QED
  BY <1>1, <1>2, ZenonT(60)

\* The inductive step.  kschedStealRing3 has no other AP to steal from.
LEMMA NextIInv == SingleAP /\ IInv /\ [Next]_vars => IInv'
<1> SUFFICES ASSUME SingleAP, IInv, [Next]_vars PROVE IInv'
  BY ZenonT(60)
<1>1. CASE UNCHANGED vars
  <2>1. /\ UNCHANGED <<threadVars, queueVars, running, depth, timerVars, bootVars>>
        /\ loop' = loop
    BY <1>1, ZenonT(60) DEF vars, cpuVars
  <2>2. loop' \in [CPUs -> {"service", "ring3", "pop", "steal"}]
    BY <2>1, ZenonT(60) DEF IInv, TypeOK
  <2> QED
    BY <2>1, <2>2, LoopIInv, ZenonT(60)
<1>2. ASSUME NEW c \in CPUs, Dispatch(c)
      PROVE  IInv'
  <2>1. CASE c \in APs /\ APSteal(c)
    BY <2>1, ZenonT(60) DEF APSteal, StealFrom, SingleAP
  <2> QED
    BY <1>2, <2>1, PumpServiceIInv, PumpRing3IInv, APPopIInv, APIdleIInv, ZenonT(60) DEF Dispatch
<1>3. ASSUME NEW c \in CPUs, KernelStep(c)
      PROVE  IInv'
  BY <1>3, Counting, EnterRing3IInv, SysReturnIInv, YieldIInv, TimedParkIInv, EventIInv,
     CollectIInv, WakeIInv, DispatcherYieldIInv, ShellReadyIInv, SpawnIInv,
     PoolExhaustedIInv, SetExitedIInv, ProcessExitIInv, ExitClearIInv,
     KschedExitIInv, ZenonT(60) DEF KernelStep
<1>4. ASSUME NEW c \in CPUs, SwitchOut(c) \/ Syscall(c) \/ PreemptIPI(c)
      PROVE  IInv'
  BY <1>4, Counting, SwitchOutIInv, SyscallIInv, PreemptIPIIInv, ZenonT(60)
<1> QED
  BY <1>1, <1>2, <1>3, <1>4, ZenonT(60) DEF Next

-----------------------------------------------------------------------------
(***************************************************************************)
(* The results.                                                            *)
(***************************************************************************)
\* With at most one AP, IInv is an invariant of the scheduler.
LEMMA Invariance == SingleAP => (Spec => []IInv)
<1> SUFFICES ASSUME SingleAP PROVE Spec => []IInv
  BY ZenonT(60)
<1>1. Init => IInv
  BY InitIInv, Counting, ZenonT(60)
<1>2. IInv /\ [Next]_vars => IInv'
  BY NextIInv, ZenonT(60)
<1> QED
  BY <1>1, <1>2, PTL DEF Spec

\* The scheduler's variables keep their types, for any pool, timer table and
\* service list: a thread is only ever at one of the positions of its code,
\* and the queues and the afterTicks table only hold threads.
THEOREM TypeCorrect == SingleAP => (Spec => []TypeOK)
<1> SUFFICES ASSUME SingleAP PROVE Spec => []TypeOK
  BY ZenonT(60)
<1>1. IInv => TypeOK
  BY ZenonT(60) DEF IInv
<1> QED
  BY <1>1, Invariance, PTL

\* No thread executes on two CPUs: kschedSwitch never loads a context that
\* another CPU still runs on.
THEOREM OneCPU == SingleAP => (Spec => []OneCPUPerThread)
<1> SUFFICES ASSUME SingleAP PROVE Spec => []OneCPUPerThread
  BY ZenonT(60)
<1>1. IInv => OneCPUPerThread
  BY DEF IInv, Exec, OneCPUPerThread
<1> QED
  BY <1>1, Invariance, PTL

\* A thread is on one ready queue or waiters list at most, so its WakeLink
\* is never in two lists.
THEOREM OneList == SingleAP => (Spec => []OneListPerThread)
<1> SUFFICES ASSUME SingleAP PROVE Spec => []OneListPerThread
  OBVIOUS
<1>1. ASSUME IInv PROVE OneListPerThread
  <2>1. \A c \in CPUs : NoRepeats(svcq[c]) /\ NoRepeats(ring3q[c])
    BY <1>1, ZenonT(60) DEF IInv, Queued
  <2>2. \A c, d \in CPUs, t \in Slots :
          /\ Holds(svcq[c], t) /\ Holds(svcq[d], t) => c = d
          /\ Holds(ring3q[c], t) /\ Holds(ring3q[d], t) => c = d
          /\ ~(Holds(svcq[c], t) /\ Holds(ring3q[d], t))
    BY <1>1 DEF IInv, Queued
  <2>3. ASSUME NEW t \in linked \cup {waking}, NEW c \in CPUs
        PROVE  ~Holds(svcq[c], t) /\ ~Holds(ring3q[c], t)
    <3>1. CASE t \in Slots
      <4>1. state[t] = "Parked"
        BY <1>1, <3>1, Ranges, ZenonT(60) DEF IInv, Waits
      <4> QED
        BY <1>1, <3>1, <4>1, ZenonT(60) DEF IInv, Queued
    <3>2. CASE t = NoThread
      <4>1. svcq[c] \in Seq(Slots) /\ ring3q[c] \in Seq(Slots)
        BY <1>1, ZenonT(60) DEF IInv, TypeOK
      <4>2. \A i \in 1..Len(svcq[c]) : svcq[c][i] \in Slots
        BY <4>1
      <4>3. \A i \in 1..Len(ring3q[c]) : ring3q[c][i] \in Slots
        BY <4>1
      <4> QED
        BY <1>1, <3>2, <4>2, <4>3, Ranges, ZenonT(60) DEF Holds
    <3> QED
      BY <1>1, <3>1, <3>2, Ranges, ZenonT(60)
  <2>4. waking \notin linked
    BY <1>1, Ranges, ZenonT(60) DEF IInv, Waits
  <2> QED
    BY <2>1, <2>2, <2>3, <2>4, ZenonT(60) DEF OneListPerThread
<1>2. IInv => OneListPerThread
  BY <1>1, ZenonT(60)
<1> QED
  BY <1>2, Invariance, PTL

\* handlePreemptIPI switches away only from Ring 3, the wrapper or the tail
\* of processExit, although it looks at nothing but a depth counter.
THEOREM PreemptSafe == SingleAP => (Spec => []PreemptSafePoint)
<1> SUFFICES ASSUME SingleAP PROVE Spec => []PreemptSafePoint
  OBVIOUS
<1>1. IInv => PreemptSafePoint
  BY ZenonT(60) DEF IInv, Kind, PreemptSafePoint, SafePoints
<1> QED
  BY <1>1, Invariance, PTL

\* KEvent.Wait loses no wake-up: whoever parks is on a list that leads back
\* to a ready queue, or on that queue already.
THEOREM NoWakeupLost == SingleAP => (Spec => []NoLostWakeup)
<1> SUFFICES ASSUME SingleAP PROVE Spec => []NoLostWakeup
  OBVIOUS
<1>1. ASSUME IInv, NEW t \in Slots, pc[t] \in {"parking", "parked"}
      PROVE  \/ state[t] = "Parked" /\ t \in linked /\ t \in armed \cup ready
             \/ state[t] = "Parked" /\ t = waking
             \/ state[t] = "Runnable" /\ IF hosted[t] THEN Holds(ring3q[owner[t]], t)
                                                      ELSE Holds(svcq[owner[t]], t)
  <2>1. owner[t] \in CPUs /\ state[t] \in {"Parked", "Runnable"}
    BY <1>1, Ranges, ZenonT(60) DEF IInv, StateAt
  <2>2. CASE state[t] = "Parked"
    BY <1>1, <2>2, Ranges, ZenonT(60) DEF IInv, Waits
  <2>3. CASE state[t] = "Runnable"
    BY <1>1, <2>1, <2>3, ZenonT(60) DEF IInv, Queued
  <2> QED
    BY <2>1, <2>2, <2>3, ZenonT(60)
<1>2. IInv => NoLostWakeup
  BY <1>1, ZenonT(60) DEF NoLostWakeup
<1> QED
  BY <1>2, Invariance, PTL

\* The boot shell and the service threads execute on the BSP alone: an AP's
\* loop pops Ring-3 threads of its own queue, and its CPU owns what it runs.
THEOREM BSPKeeps == SingleAP => (Spec => []BSPKeepsItsThreads)
<1> SUFFICES ASSUME SingleAP PROVE Spec => []BSPKeepsItsThreads
  OBVIOUS
<1>1. IInv => BSPKeepsItsThreads
  <2> SUFFICES ASSUME IInv, NEW c \in APs, NEW t \in Slots, running[c] = t
               PROVE  pc[t] # "run" /\ (t = Shell => shellExited)
    BY ZenonT(60) DEF BSPKeepsItsThreads
  <2>1. c \in CPUs /\ c # BSP /\ t # NoThread
    BY SlotAssumption, ZenonT(60) DEF APs
  <2>2. owner[t] # BSP
    BY <2>1, ZenonT(60) DEF IInv, Exec
  <2>3. pc[t] # "run"
    BY <2>2, ZenonT(60) DEF IInv, Kind
  <2>4. t = Shell => shellExited
    BY <2>2, ZenonT(60) DEF IInv, ShellHome
  <2> QED
    BY <2>3, <2>4, ZenonT(60)
<1> QED
  BY <1>1, Invariance, PTL
=============================================================================
