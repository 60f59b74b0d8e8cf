----------------------------- MODULE KSchedEvents ---------------------------
(***************************************************************************)
(* Spawn, exit, the switch out of a thread, handlePreemptIPI and the steps *)
(* of timerDispatcher, sys_shell_ready and the pool panic preserve the     *)
(* inductive invariant of KSched: one lemma per action, one step per part  *)
(* of the invariant.                                                       *)
(***************************************************************************)
EXTENDS KSchedInv

\* The time a leaf is given.
USE SMTT(60), ZenonT(60)

\* kschedSpawnRing3Wrapper.
LEMMA SpawnIInv ==
    ASSUME IInv, NEW c \in CPUs, Spawn(c)
    PROVE  IInv'
<1>1. PICK t \in Slots, s \in Slots, d0 \in CPUs :
        /\ running[c] = t /\ pc[t] = "sys" /\ ~used[s]
        /\ used'   = [used EXCEPT ![s] = TRUE]
        /\ hosted' = [hosted EXCEPT ![s] = TRUE]
        /\ pc'     = [pc EXCEPT ![s] = "fresh"]
        /\ intr'   = [intr EXCEPT ![s] = "free"]
        /\ frames' = [frames EXCEPT ![s] = 0]
        /\ Push(s, d0, TRUE)
        /\ UNCHANGED <<exitCPU, cpuVars, timerVars, bootVars>>
  BY CPUAssumption, ZenonT(60) DEF Spawn, kschedSpawnInternal, kthreadPoolAlloc, At, APs
<1>t. used \in [Slots -> BOOLEAN] /\ state \in [Slots -> States] /\
         owner \in [Slots -> CPUs] /\ hosted \in [Slots -> BOOLEAN] /\
         pc \in [Slots -> Positions] /\ intr \in [Slots -> Positions] /\
         frames \in [Slots -> Nat] /\ svcq \in [CPUs -> Seq(Slots)] /\
         ring3q \in [CPUs -> Seq(Slots)]
  BY ZenonT(60) DEF IInv, TypeOK
<1>2. /\ \A x \in Slots : pc'[x] = IF x = s THEN "fresh" ELSE pc[x]
      /\ used'[s] /\ \A x \in Slots \ {s} : used'[x] = used[x]
      /\ hosted'[s] /\ \A x \in Slots \ {s} : hosted'[x] = hosted[x]
      /\ \A x \in Slots : intr'[x] = IF x = s THEN "free" ELSE intr[x]
      /\ \A x \in Slots : frames'[x] = IF x = s THEN 0 ELSE frames[x]
      /\ exitCPU' = exitCPU /\ running' = running /\ loop' = loop /\
         depth' = depth /\ armed' = armed /\ ready' = ready /\ fired' = fired /\
         linked' = linked /\ waking' = waking /\ booted' = booted /\
         shellExited' = shellExited
  BY <1>t, <1>1, ZenonT(60) DEF cpuVars, timerVars, bootVars
<1>3. /\ Dispatcher \in Slots /\ Shell \in Slots /\ Dispatcher # Shell
      /\ NoThread \notin Slots /\ BSP \in CPUs
      /\ pc[s] \in {"free", "dead"} /\ frames[s] = 0 /\ ~hosted[s] /\ s # Dispatcher
      /\ state[s] \notin {"Parked", "Runnable"} /\ s # waking
      /\ s \notin armed \cup ready \cup linked /\ (s = Shell => shellExited)
      /\ \A d \in CPUs : running[d] # s
      /\ \A x \in Slots : frames'[x] = frames[x]
  <2>1. pc[s] \in {"free", "dead"}
    BY <1>1, ZenonT(60) DEF IInv, Exec
  <2>2. ~hosted[s] /\ s # Dispatcher
    BY <2>1, ZenonT(60) DEF IInv, Kind
  <2>3. frames[s] = 0 /\ \A x \in Slots : frames'[x] = frames[x]
    BY <1>2, <2>1 DEF IInv, FramesAt
  <2>4. state[s] \notin {"Parked", "Runnable"}
    BY <2>1, ZenonT(60) DEF IInv, StateAt
  <2>5. s # waking /\ s \notin armed \cup ready \cup linked
    BY <2>1, <2>4, Consts, ZenonT(60) DEF IInv, Waits, InWait
  <2>6. s = Shell => shellExited
    BY <2>2, ZenonT(60) DEF IInv, ShellHome
  <2>7. \A d \in CPUs : running[d] # s
    BY <2>1, Consts DEF IInv, Exec, Resting
  <2> QED
    BY <2>1, <2>2, <2>3, <2>4, <2>5, <2>6, <2>7, Consts, ZenonT(60)
<1>4. /\ Queued' /\ svcq' \in [CPUs -> Seq(Slots)] /\ ring3q' \in [CPUs -> Seq(Slots)]
      /\ state' = [state EXCEPT ![s] = "Runnable"] /\ owner' = [owner EXCEPT ![s] = d0]
  <2>1. hosted' \in [Slots -> BOOLEAN]
    BY <1>1, ZenonT(60) DEF IInv, TypeOK
  <2>2. hosted'[s] = TRUE
    BY <1>1, ZenonT(60) DEF IInv, TypeOK
  <2> QED
    <3>1. Push(s, d0, hosted'[s]) /\ hosted'[s] \in BOOLEAN
      BY <1>1, <2>2, ZenonT(60) DEF Push
    <3> QED
      BY <1>2, <1>3, <2>1, <3>1, PushQueued, ZenonT(60) DEF IInv
<1>5. \A x \in Slots : /\ state'[x] = IF x = s THEN "Runnable" ELSE state[x]
                       /\ owner'[x] = IF x = s THEN d0 ELSE owner[x]
  BY <1>3, <1>4, ZenonT(60) DEF IInv, TypeOK
<1>10. TypeOK'
  <2>1. /\ used' \in [Slots -> BOOLEAN]
        /\ state' \in [Slots -> States]
        /\ owner' \in [Slots -> CPUs]
        /\ hosted' \in [Slots -> BOOLEAN]
        /\ pc' \in [Slots -> Positions]
        /\ intr' \in [Slots -> Positions]
        /\ frames' \in [Slots -> Nat]
        /\ svcq' \in [CPUs -> Seq(Slots)]
        /\ ring3q' \in [CPUs -> Seq(Slots)]
    BY <1>t, <1>1, <1>4, <1>3, ZenonT(60) DEF States, Positions, Interruptible, Resting
  <2> QED
    BY <1>2, <2>1, ZenonT(60) DEF IInv, TypeOK
<1>11. Queued'
  BY <1>4, ZenonT(60)
<1> USE <1>2, <1>3, <1>5
<1>12. DepthExact'
  <2>1. \A d \in CPUs : Owing(d)' = Owing(d)
    BY OweSame
  <2>2. depth' = depth /\ DepthExact
    BY ZenonT(60) DEF IInv
  <2> QED
    BY ONLY <2>1, <2>2, ZenonT(60) DEF DepthExact
<1>13. Exec'
  BY SMTT(60) DEF IInv, Exec, Resting
<1>14. Kind'
  BY SMTT(60) DEF IInv, Kind, SafePoints
<1>15. StateAt'
  BY SMTT(60) DEF IInv, StateAt
<1>16. Waits'
  BY SMTT(60) DEF IInv, Waits, InWait
<1>17. FramesAt'
  BY SMTT(60) DEF IInv, FramesAt, Kind
<1>18. ShellHome'
  BY SMTT(60) DEF IInv, ShellHome, Halting
<1> QED
  BY <1>10, <1>11, <1>12, <1>13, <1>14, <1>15, <1>16, <1>17, <1>18, ZenonT(60) DEF IInv

\* processExit clears the side-table entry of the thread that exits.
LEMMA ExitClearIInv ==
    ASSUME IInv, NEW c \in CPUs, ExitClear(c)
    PROVE  IInv'
<1>0. PICK t \in Slots :
      /\ At(c, t, "exitA")
      /\ IF running[exitCPU[t]] # NoThread
         THEN /\ hosted' = [hosted EXCEPT ![running[exitCPU[t]]] = FALSE]
              /\ pc' = [pc EXCEPT ![t] = "exitB"]
         ELSE /\ pc' = [pc EXCEPT ![t] = "panic"]
              /\ UNCHANGED hosted
      /\ UNCHANGED <<used, state, owner, intr, frames, exitCPU, queueVars,
                     cpuVars, timerVars, bootVars>>
  BY ZenonT(60) DEF ExitClear
<1>a. running[c] = t /\ pc[t] = "exitA"
  BY <1>0, ZenonT(60) DEF At
<1>b. t # NoThread /\ owner[t] = c
  BY <1>a, Consts, ZenonT(60) DEF IInv, Exec
<1>c. running[exitCPU[t]] = t
  BY <1>a, <1>b, ZenonT(60) DEF IInv, Kind
<1>d. running[exitCPU[t]] # NoThread
  BY <1>b, <1>c, ZenonT(60)
<1>1. /\ hosted' = [hosted EXCEPT ![t] = FALSE]
      /\ pc' = [pc EXCEPT ![t] = "exitB"]
      /\ UNCHANGED <<used, state, owner, intr, frames, exitCPU, queueVars,
                     cpuVars, timerVars, bootVars>>
  <2>1. /\ hosted' = [hosted EXCEPT ![running[exitCPU[t]]] = FALSE]
        /\ pc' = [pc EXCEPT ![t] = "exitB"]
    BY <1>0, <1>d, ZenonT(60)
  <2>2. hosted' = [hosted EXCEPT ![t] = FALSE]
    BY <1>c, <2>1, ZenonT(60)
  <2>3. UNCHANGED <<used, state, owner, intr, frames, exitCPU, queueVars,
                    cpuVars, timerVars, bootVars>>
    BY <1>0, ZenonT(60)
  <2> QED
    BY <2>1, <2>2, <2>3, ZenonT(60)
<1>t. hosted \in [Slots -> BOOLEAN] /\ pc \in [Slots -> Positions]
  BY ZenonT(60) DEF IInv, TypeOK
<1>2. /\ \A x \in Slots : pc'[x] = IF x = t THEN "exitB" ELSE pc[x]
      /\ ~hosted'[t] /\ \A x \in Slots \ {t} : hosted'[x] = hosted[x]
      /\ used' = used /\ state' = state /\ owner' = owner /\ intr' = intr /\
         frames' = frames /\ exitCPU' = exitCPU /\ svcq' = svcq /\
         ring3q' = ring3q /\ running' = running /\ loop' = loop /\
         depth' = depth /\ armed' = armed /\ ready' = ready /\ fired' = fired /\
         linked' = linked /\ waking' = waking /\ booted' = booted /\
         shellExited' = shellExited
  BY <1>t, <1>1, ZenonT(60) DEF queueVars, cpuVars, timerVars, bootVars
<1>3. /\ Dispatcher \in Slots /\ Shell \in Slots /\ Dispatcher # Shell
      /\ NoThread \notin Slots /\ BSP \in CPUs
      /\ owner[t] = c /\ t # NoThread /\ running[c] = t
      /\ pc[t] = "exitA" /\ t # Dispatcher /\ frames[t] = 0 /\ hosted[t]
      /\ state[t] = "Running" /\ (t = Shell => shellExited)
  <2>1. t # Dispatcher /\ hosted[t]
    BY <1>a, ZenonT(60) DEF IInv, Kind
  <2>2. frames[t] = 0
    BY <1>a, ZenonT(60) DEF IInv, FramesAt
  <2>3. state[t] = "Running"
    BY <1>a, ZenonT(60) DEF IInv, StateAt
  <2>4. t = Shell => shellExited
    BY <1>a, ZenonT(60) DEF IInv, ShellHome
  <2> QED
    BY <1>a, <1>b, <2>1, <2>2, <2>3, <2>4, Consts, ZenonT(60)
<1>10. TypeOK'
  <2>1. /\ hosted' \in [Slots -> BOOLEAN]
        /\ pc' \in [Slots -> Positions]
    BY <1>t, <1>1, ZenonT(60) DEF Positions, Interruptible, Resting
  <2> QED
    BY <1>2, <2>1, ZenonT(60) DEF IInv, TypeOK
<1> USE <1>2, <1>3
<1>11. DepthExact'
  BY OweSame, ZenonT(60) DEF IInv, DepthExact
<1>12. Exec'
  BY DEF IInv, Exec, Resting
<1>13. Kind'
  BY DEF IInv, Kind, SafePoints
<1>14. StateAt'
  BY ZenonT(60) DEF IInv, StateAt
<1>15. Queued'
  BY ZenonT(60) DEF IInv, Queued
<1>16. Waits'
  BY ZenonT(60) DEF IInv, Waits, InWait
<1>17. FramesAt'
  BY DEF IInv, FramesAt, Kind
<1>18. ShellHome'
  BY DEF IInv, ShellHome, Halting
<1> QED
  BY <1>10, <1>11, <1>12, <1>13, <1>14, <1>15, <1>16, <1>17, <1>18, ZenonT(60) DEF IInv

\* processExit up to Exited.
LEMMA SetExitedIInv ==
    ASSUME IInv, NEW c \in CPUs, SetExited(c)
    PROVE  IInv'
<1>1. PICK t \in Slots :
        /\ running[c] = t /\ pc[t] = "sys"
        /\ pc' = [pc EXCEPT ![t] = "closing"]
        /\ shellExited' = (shellExited \/ t = Shell)
        /\ UNCHANGED <<used, state, owner, hosted, intr, frames, exitCPU,
                       queueVars, cpuVars, timerVars, booted>>
  BY ZenonT(60) DEF SetExited, At
<1>t. pc \in [Slots -> Positions]
  BY ZenonT(60) DEF IInv, TypeOK
<1>2. /\ \A x \in Slots : pc'[x] = IF x = t THEN "closing" ELSE pc[x]
      /\ shellExited' <=> (shellExited \/ t = Shell)
      /\ used' = used /\ state' = state /\ owner' = owner /\ hosted' = hosted /\
         intr' = intr /\ frames' = frames /\ exitCPU' = exitCPU /\ svcq' = svcq /\
         ring3q' = ring3q /\ running' = running /\ loop' = loop /\
         depth' = depth /\ armed' = armed /\ ready' = ready /\ fired' = fired /\
         linked' = linked /\ waking' = waking /\ booted' = booted
  BY <1>t, <1>1, ZenonT(60) DEF queueVars, cpuVars, timerVars
<1>3. /\ Dispatcher \in Slots /\ Shell \in Slots /\ Dispatcher # Shell
      /\ NoThread \notin Slots /\ BSP \in CPUs
      /\ owner[t] = c /\ t # NoThread /\ running[c] = t
      /\ pc[t] = "sys" /\ t # Dispatcher /\ frames[t] = 1 /\ hosted[t]
      /\ state[t] = "Running"
  BY <1>1, Consts DEF IInv, Exec, Kind, FramesAt, StateAt
<1>10. TypeOK'
  <2>1. pc' \in [Slots -> Positions]
    BY <1>t, <1>1, ZenonT(60) DEF Positions, Interruptible, Resting
  <2>2. shellExited' \in BOOLEAN
    BY <1>1, ZenonT(60) DEF IInv, TypeOK
  <2> QED
    BY <1>2, <2>1, <2>2, ZenonT(60) DEF IInv, TypeOK
<1> USE <1>2, <1>3
<1>11. DepthExact'
  BY OweSame, ZenonT(60) DEF IInv, DepthExact
<1>12. Exec'
  BY DEF IInv, Exec, Resting
<1>13. Kind'
  BY DEF IInv, Kind, SafePoints
<1>14. StateAt'
  BY DEF IInv, StateAt
<1>15. Queued'
  BY ZenonT(60) DEF IInv, Queued
<1>16. Waits'
  BY DEF IInv, Waits, InWait
<1>17. FramesAt'
  BY DEF IInv, FramesAt, Kind
<1>18. ShellHome'
  BY DEF IInv, ShellHome, Halting
<1> QED
  BY <1>10, <1>11, <1>12, <1>13, <1>14, <1>15, <1>16, <1>17, <1>18, ZenonT(60) DEF IInv

\* processExit's decrement of the depth counters.
LEMMA ProcessExitIInv ==
    ASSUME SlotCounting, IInv, NEW c \in CPUs, ProcessExit(c)
    PROVE  IInv'
<1>1. PICK t \in Slots :
        /\ running[c] = t /\ pc[t] = "closing"
        /\ pc'      = [pc EXCEPT ![t] = "exitA"]
        /\ frames'  = [frames EXCEPT ![t] = @ - 1]
        /\ depth'   = [depth EXCEPT ![c] = IF @ > 0 THEN @ - 1 ELSE @]
        /\ exitCPU' = [exitCPU EXCEPT ![t] = c]
        /\ UNCHANGED <<used, state, owner, hosted, intr, queueVars, running,
                       loop, timerVars, bootVars>>
  BY ZenonT(60) DEF ProcessExit, At, Uncount
<1>t. pc \in [Slots -> Positions] /\ frames \in [Slots -> Nat] /\
         exitCPU \in [Slots -> CPUs] /\ depth \in [CPUs -> 0..(DepthMod - 1)]
  BY ZenonT(60) DEF IInv, TypeOK
<1>2. /\ \A x \in Slots : pc'[x] = IF x = t THEN "exitA" ELSE pc[x]
      /\ \A x \in Slots : exitCPU'[x] = IF x = t THEN c ELSE exitCPU[x]
      /\ \A x \in Slots : frames'[x] = IF x = t THEN frames[t] - 1 ELSE frames[x]
      /\ \A d \in CPUs : depth'[d] = IF d = c THEN IF depth[c] > 0 THEN depth[c] - 1 ELSE depth[c] ELSE depth[d]
      /\ used' = used /\ state' = state /\ owner' = owner /\ hosted' = hosted /\
         intr' = intr /\ svcq' = svcq /\ ring3q' = ring3q /\
         running' = running /\ loop' = loop /\ armed' = armed /\
         ready' = ready /\ fired' = fired /\ linked' = linked /\
         waking' = waking /\ booted' = booted /\
         shellExited' = shellExited
  BY <1>t, <1>1, ZenonT(60) DEF queueVars, timerVars, bootVars
<1>3. /\ Dispatcher \in Slots /\ Shell \in Slots /\ Dispatcher # Shell
      /\ NoThread \notin Slots /\ BSP \in CPUs
      /\ owner[t] = c /\ t # NoThread /\ running[c] = t
      /\ pc[t] = "closing" /\ t # Dispatcher /\ frames[t] = 1 /\ frames'[t] = 0 /\ hosted[t]
      /\ state[t] = "Running" 
  BY <1>1, <1>2, Consts DEF IInv, Exec, Kind, FramesAt, StateAt
<1>4. /\ Cardinality(Owing(c)) > 0
      /\ Cardinality(Owing(c)') = Cardinality(Owing(c)) - 1
      /\ \A d \in CPUs \ {c} : Owing(d)' = Owing(d)
  BY <1>2, <1>3, OweLess
<1>5. /\ depth[c] = Cardinality(Owing(c)) /\ depth[c] > 0
      /\ Dec(depth[c]) = depth[c] - 1 /\ Dec(depth[c]) \in 0..(DepthMod - 1)
  <2>1. depth[c] = Cardinality(Owing(c)) /\ depth[c] > 0
    BY <1>4 DEF IInv, DepthExact
  <2> QED
    BY <2>1, DepthSmall, BoundAssumption DEF IInv
<1>10. DepthExact'
  BY <1>2, <1>4, <1>5, ZenonT(60) DEF IInv, DepthExact
<1>11. TypeOK'
  <2>1. pc' \in [Slots -> Positions]
    BY <1>t, <1>1, ZenonT(60) DEF Positions, Interruptible, Resting
  <2>2. frames' \in [Slots -> Nat]
    BY <1>t, <1>1, <1>3
  <2>3. exitCPU' \in [Slots -> CPUs]
    BY <1>t, <1>1, ZenonT(60)
  <2>4. depth' \in [CPUs -> 0..(DepthMod - 1)]
    <3>1. depth' = [depth EXCEPT ![c] = depth[c] - 1]
      BY <1>1, <1>5, ZenonT(60)
    <3> QED
      BY <1>t, <3>1, <1>5, ZenonT(60)
  <2> QED
    BY <1>2, <2>1, <2>2, <2>3, <2>4, ZenonT(60) DEF IInv, TypeOK
<1> USE <1>2, <1>3
<1>12. Exec'
  BY DEF IInv, Exec, Resting
<1>13. Kind'
  BY DEF IInv, Kind, SafePoints
<1>14. StateAt'
  BY DEF IInv, StateAt
<1>15. Queued'
  BY ZenonT(60) DEF IInv, Queued
<1>16. Waits'
  BY DEF IInv, Waits, InWait
<1>17. FramesAt'
  BY DEF IInv, FramesAt, Kind
<1>18. ShellHome'
  BY DEF IInv, ShellHome, Halting
<1> QED
  BY <1>10, <1>11, <1>12, <1>13, <1>14, <1>15, <1>16, <1>17, <1>18, ZenonT(60) DEF IInv

\* kschedExit.
LEMMA KschedExitIInv ==
    ASSUME IInv, NEW c \in CPUs, KschedExit(c)
    PROVE  IInv'
<1>1. PICK t \in Slots :
        /\ running[c] = t
        /\ pc[t] = "exitB" \/ (pc[t] = "run" /\ t # Dispatcher)
        /\ state' = [state EXCEPT ![t] = "Exiting"]
        /\ pc' = [pc EXCEPT ![t] = "exiting"]
        /\ UNCHANGED <<used, owner, hosted, intr, frames, exitCPU, queueVars,
                       cpuVars, timerVars, bootVars>>
  BY ZenonT(60) DEF KschedExit
<1>t. state \in [Slots -> States] /\ pc \in [Slots -> Positions]
  BY ZenonT(60) DEF IInv, TypeOK
<1>2. /\ \A x \in Slots : pc'[x] = IF x = t THEN "exiting" ELSE pc[x]
      /\ \A x \in Slots : state'[x] = IF x = t THEN "Exiting" ELSE state[x]
      /\ used' = used /\ owner' = owner /\ hosted' = hosted /\ intr' = intr /\
         frames' = frames /\ exitCPU' = exitCPU /\ svcq' = svcq /\
         ring3q' = ring3q /\ running' = running /\ loop' = loop /\
         depth' = depth /\ armed' = armed /\ ready' = ready /\ fired' = fired /\
         linked' = linked /\ waking' = waking /\ booted' = booted /\
         shellExited' = shellExited
  BY <1>t, <1>1, ZenonT(60) DEF queueVars, cpuVars, timerVars, bootVars
<1>3. /\ Dispatcher \in Slots /\ Shell \in Slots /\ Dispatcher # Shell
      /\ NoThread \notin Slots /\ BSP \in CPUs
      /\ owner[t] = c /\ t # NoThread /\ running[c] = t
      /\ pc[t] \in {"exitB", "run"} /\ t # Dispatcher /\ ~hosted[t] /\ frames[t] = 0
      /\ state[t] = "Running"
  BY <1>1, Consts, ZenonT(60) DEF IInv, Exec, Kind, FramesAt, StateAt
<1>10. TypeOK'
  <2>1. /\ state' \in [Slots -> States]
        /\ pc' \in [Slots -> Positions]
    BY <1>t, <1>1, ZenonT(60) DEF States, Positions, Interruptible, Resting
  <2> QED
    BY <1>2, <2>1, ZenonT(60) DEF IInv, TypeOK
<1> USE <1>2, <1>3
<1>11. DepthExact'
  BY OweSame, ZenonT(60) DEF IInv, DepthExact
<1>12. Exec'
  BY DEF IInv, Exec, Resting
<1>13. Kind'
  BY DEF IInv, Kind, SafePoints
<1>14. StateAt'
  BY DEF IInv, StateAt
<1>15. Queued'
  BY ZenonT(60) DEF IInv, Queued
<1>16. Waits'
  BY DEF IInv, Waits, InWait
<1>17. FramesAt'
  BY ZenonT(60) DEF IInv, FramesAt, Kind
<1>18. ShellHome'
  BY ZenonT(60) DEF IInv, ShellHome, Halting
<1> QED
  BY <1>10, <1>11, <1>12, <1>13, <1>14, <1>15, <1>16, <1>17, <1>18, ZenonT(60) DEF IInv

\* kschedSwitch back to the dispatch loop.
LEMMA SwitchOutIInv ==
    ASSUME IInv, NEW c \in CPUs, SwitchOut(c)
    PROVE  IInv'
<1>1. PICK t \in Slots :
        /\ running[c] = t /\ pc[t] \in Leaving
        /\ pc' = [pc EXCEPT ![t] = RestOf(@)]
        /\ running' = [running EXCEPT ![c] = NoThread]
        /\ used' = [used EXCEPT ![t] = @ /\ ~(c = BSP /\ state[t] = "Exiting")]
        /\ UNCHANGED <<state, owner, hosted, intr, frames, exitCPU, queueVars,
                       loop, depth, timerVars, bootVars>>
  BY ZenonT(60) DEF SwitchOut, Reclaims
<1>t. used \in [Slots -> BOOLEAN] /\ pc \in [Slots -> Positions] /\
         running \in [CPUs -> Slots \cup {NoThread}]
  BY ZenonT(60) DEF IInv, TypeOK
<1>2. /\ \A x \in Slots : pc'[x] = IF x = t THEN RestOf(pc[t]) ELSE pc[x]
      /\ \A d \in CPUs : running'[d] = IF d = c THEN NoThread ELSE running[d]
      /\ \A x \in Slots \ {t} : used'[x] = used[x]
      /\ used'[t] <=> used[t] /\ ~(c = BSP /\ state[t] = "Exiting")
      /\ state' = state /\ owner' = owner /\ hosted' = hosted /\ intr' = intr /\
         frames' = frames /\ exitCPU' = exitCPU /\ svcq' = svcq /\
         ring3q' = ring3q /\ loop' = loop /\ depth' = depth /\ armed' = armed /\
         ready' = ready /\ fired' = fired /\ linked' = linked /\
         waking' = waking /\ booted' = booted /\ shellExited' = shellExited
  BY <1>t, <1>1, ZenonT(60) DEF queueVars, timerVars, bootVars
<1>3. /\ Dispatcher \in Slots /\ Shell \in Slots /\ Dispatcher # Shell
      /\ NoThread \notin Slots /\ BSP \in CPUs
      /\ owner[t] = c /\ t # NoThread /\ running[c] = t /\ used[t]
      /\ \/ pc[t] = "parking"  /\ RestOf(pc[t]) = "parked"
         \/ pc[t] = "yielding" /\ RestOf(pc[t]) = "yielded"
         \/ pc[t] = "ipiyield" /\ RestOf(pc[t]) = "preempted"
         \/ pc[t] = "exiting"  /\ RestOf(pc[t]) = "dead"
      /\ state[t] = "Exiting" => pc[t] = "exiting"
  BY <1>1, Consts, ZenonT(60) DEF IInv, Exec, StateAt, Leaving, RestOf
<1>10. TypeOK'
  <2>1. /\ used' \in [Slots -> BOOLEAN]
        /\ pc' \in [Slots -> Positions]
        /\ running' \in [CPUs -> Slots \cup {NoThread}]
    BY <1>t, <1>1, <1>3, ZenonT(60) DEF Positions, Resting
  <2> QED
    BY <1>2, <2>1, ZenonT(60) DEF IInv, TypeOK
<1> USE <1>2, <1>3
<1>11. DepthExact'
  <2>1. \A d \in CPUs : Owing(d)' = Owing(d)
    BY OweSame, ZenonT(60)
  <2>2. depth' = depth /\ DepthExact
    BY ZenonT(60) DEF IInv
  <2> QED
    BY ONLY <2>1, <2>2, ZenonT(60) DEF DepthExact
<1>12. Exec'
  BY DEF IInv, Exec, Resting
<1>13. Kind'
  BY DEF IInv, Kind, SafePoints
<1>14. StateAt'
  BY DEF IInv, StateAt
<1>15. Queued'
  BY ZenonT(60) DEF IInv, Queued
<1>16. Waits'
  BY DEF IInv, Waits, InWait
<1>17. FramesAt'
  BY DEF IInv, FramesAt, Kind
<1>18. ShellHome'
  BY DEF IInv, ShellHome, Halting
<1> QED
  BY <1>10, <1>11, <1>12, <1>13, <1>14, <1>15, <1>16, <1>17, <1>18, ZenonT(60) DEF IInv


\* handlePreemptIPI.
LEMMA PreemptIPIIInv ==
    ASSUME SlotCounting, IInv, NEW c \in CPUs, PreemptIPI(c)
    PROVE  IInv'
<1>1. PICK t \in Slots :
        /\ booted
        /\ running[c] = t /\ pc[t] \in Interruptible
        /\ Inc(depth[c]) <= 1
        /\ Push(t, c, hosted[t])
        /\ pc'     = [pc EXCEPT ![t] = "ipiyield"]
        /\ intr'   = [intr EXCEPT ![t] = pc[t]]
        /\ frames' = [frames EXCEPT ![t] = @ + 1]
        /\ depth'  = [depth EXCEPT ![c] = Inc(@)]
        /\ UNCHANGED <<used, hosted, exitCPU, running, loop, timerVars,
                       bootVars>>
  BY ZenonT(60) DEF PreemptIPI, NotNested
<1>a. owner[t] = c /\ t # NoThread /\ frames[t] = 0
  <2>1. owner[t] = c /\ t # NoThread
    BY <1>1, Ranges, ZenonT(60) DEF IInv, Exec
  <2>2. t \notin Owing(c)
    BY <1>1, DepthSmall, ZenonT(60) DEF IInv
  <2>3. frames[t] # 1
    BY <2>1, <2>2, ZenonT(60) DEF Owing
  <2>4. frames[t] \in {0, 1}
    BY <1>1, ZenonT(60) DEF IInv, FramesAt, Interruptible
  <2> QED
    BY <2>1, <2>3, <2>4, ZenonT(60)
<1>b. pc[t] \in SafePoints
  <2> SUFFICES ASSUME pc[t] \notin SafePoints PROVE FALSE
    BY ZenonT(60)
  <2>1. ~hosted[t] /\ c = BSP
        /\ pc[t] \in {"run", "signal", "wake", "wait", "parking", "yielding"}
    BY <1>1, <1>a DEF IInv, FramesAt, Kind, SafePoints, Interruptible
  <2>2. CASE shellExited
    BY <1>1, <1>a, <2>1, <2>2, ZenonT(60) DEF IInv, ShellHome, Halting
  <2>3. CASE ~shellExited
    <3>1. hosted[Shell] /\ owner[Shell] = BSP /\ pc[Shell] \notin {"fresh", "wrapper"}
      BY <1>1, <2>3, ZenonT(60) DEF IInv, ShellHome
    <3>2. Shell \notin Owing(BSP)
      BY <1>1, <2>1, DepthSmall, ZenonT(60) DEF IInv
    <3>3. frames[Shell] # 1
      BY <3>1, <3>2, Ranges, ZenonT(60) DEF Owing
    <3>4. pc[Shell] \in Positions
      BY Ranges, ZenonT(60) DEF IInv, TypeOK
    <3>5. pc[Shell] \in {"user", "exitA", "exitB", "exiting"}
      BY <3>1, <3>3, <3>4, Ranges, ZenonT(60)
      DEF IInv, FramesAt, Kind, Positions, Interruptible, Resting
    <3>6. running[BSP] = Shell
      BY <3>1, <3>5, Ranges, ZenonT(60) DEF IInv, Exec, Resting
    <3> QED
      BY <1>1, <2>1, <3>1, <3>6, ZenonT(60)
  <2> QED
    BY <2>2, <2>3, ZenonT(60)
<1>t. state \in [Slots -> States] /\ owner \in [Slots -> CPUs] /\
         pc \in [Slots -> Positions] /\ intr \in [Slots -> Positions] /\
         frames \in [Slots -> Nat] /\ svcq \in [CPUs -> Seq(Slots)] /\
         ring3q \in [CPUs -> Seq(Slots)] /\
         depth \in [CPUs -> 0..(DepthMod - 1)]
  BY ZenonT(60) DEF IInv, TypeOK
<1>2. /\ \A x \in Slots : pc'[x] = IF x = t THEN "ipiyield" ELSE pc[x]
      /\ \A x \in Slots : intr'[x] = IF x = t THEN pc[t] ELSE intr[x]
      /\ \A x \in Slots : frames'[x] = IF x = t THEN frames[t] + 1 ELSE frames[x]
      /\ \A d \in CPUs : depth'[d] = IF d = c THEN Inc(depth[c]) ELSE depth[d]
      /\ used' = used /\ hosted' = hosted /\ exitCPU' = exitCPU /\
         running' = running /\ loop' = loop /\ armed' = armed /\
         ready' = ready /\ fired' = fired /\ linked' = linked /\
         waking' = waking /\ booted' = booted /\ shellExited' = shellExited
  BY <1>t, <1>1, ZenonT(60) DEF timerVars, bootVars
<1>3. /\ Dispatcher \in Slots /\ Shell \in Slots /\ Dispatcher # Shell
      /\ NoThread \notin Slots /\ BSP \in CPUs
      /\ owner[t] = c /\ t # NoThread /\ running[c] = t /\ booted
      /\ pc[t] \in SafePoints /\ t # Dispatcher /\ frames[t] = 0 /\ frames'[t] = 1
      /\ state[t] \notin {"Parked", "Runnable"} /\ (hosted[t] <=> pc[t] \in {"wrapper", "user", "exitA"})
  <2>1. t # Dispatcher /\ (hosted[t] <=> pc[t] \in {"wrapper", "user", "exitA"})
    BY <1>b, ZenonT(60) DEF IInv, Kind, SafePoints
  <2>2. state[t] \notin {"Parked", "Runnable"}
    BY <1>b, ZenonT(60) DEF IInv, StateAt, SafePoints
  <2>3. frames'[t] = 1
    BY <1>2, <1>a
  <2> QED
    BY <1>1, <1>a, <1>b, <2>1, <2>2, <2>3, Consts, ZenonT(60)
<1>4. /\ Queued' /\ svcq' \in [CPUs -> Seq(Slots)] /\ ring3q' \in [CPUs -> Seq(Slots)]
      /\ state' = [state EXCEPT ![t] = "Runnable"] /\ owner' = [owner EXCEPT ![t] = c]
  <2>1. hosted[t] \in BOOLEAN /\ hosted' \in [Slots -> BOOLEAN]
    BY <1>2, <1>3, ZenonT(60) DEF IInv, TypeOK
  <2>2. Push(t, c, hosted[t]) /\ hosted' = hosted
    BY <1>1, <1>2, ZenonT(60)
  <2> QED
    BY <1>3, <2>1, <2>2, PushQueued DEF IInv
<1>5. /\ \A x \in Slots : state'[x] = IF x = t THEN "Runnable" ELSE state[x]
      /\ owner' = owner
  BY <1>3, <1>4, ZenonT(60) DEF IInv, TypeOK
<1>6. /\ Cardinality(Owing(c)') = Cardinality(Owing(c)) + 1
      /\ \A d \in CPUs \ {c} : Owing(d)' = Owing(d)
  BY <1>2, <1>3, <1>5, OweMore
<1>7. Inc(depth[c]) = depth[c] + 1 /\ Inc(depth[c]) \in 0..(DepthMod - 1)
  BY DepthSmall, ZenonT(60) DEF IInv
<1>10. DepthExact'
  BY <1>2, <1>6, <1>7, ZenonT(60) DEF IInv, DepthExact
<1>11. TypeOK'
  <2>1. /\ state' \in [Slots -> States]
        /\ pc' \in [Slots -> Positions]
        /\ intr' \in [Slots -> Positions]
    <3>1. state' \in [Slots -> States]
      BY <1>t, <1>4, ZenonT(60) DEF States
    <3>2. pc' \in [Slots -> Positions]
      BY <1>t, <1>1, ZenonT(60) DEF Positions, Interruptible, Resting
    <3>3. intr' \in [Slots -> Positions]
      BY <1>t, <1>1, <1>3, ZenonT(60)
    <3> QED
      BY <3>1, <3>2, <3>3, ZenonT(60)
  <2>2. owner' \in [Slots -> CPUs]
    BY <1>t, <1>4, <1>3, ZenonT(60)
  <2>3. frames' \in [Slots -> Nat] /\ depth' \in [CPUs -> 0..(DepthMod - 1)]
    BY <1>t, <1>1, <1>7
  <2>4. svcq' \in [CPUs -> Seq(Slots)] /\ ring3q' \in [CPUs -> Seq(Slots)]
    BY <1>4, ZenonT(60)
  <2> QED
    BY <1>2, <2>1, <2>2, <2>3, <2>4, ZenonT(60) DEF IInv, TypeOK
<1>12. Queued'
  BY <1>4, ZenonT(60)
<1>13. Waits'
  <2>1. pc[t] \notin InWait
    BY <1>3, ZenonT(60) DEF InWait, SafePoints
  <2>2. /\ \A x \in Slots : pc'[x] = IF x = t THEN "ipiyield" ELSE pc[x]
        /\ armed' = armed /\ ready' = ready /\ fired' = fired
        /\ linked' = linked /\ waking' = waking
    BY <1>2, ZenonT(60)
  <2>3. t # Dispatcher /\ Dispatcher \in Slots /\ state[t] # "Parked"
    BY <1>3, ZenonT(60)
  <2> QED
    BY <1>5, <2>1, <2>2, <2>3, ZenonT(60) DEF IInv, Waits, InWait
<1>14. FramesAt'
  BY <1>2, <1>3, <1>5 DEF IInv, FramesAt, SafePoints
<1> USE <1>2, <1>3, <1>5
<1>15. Exec'
  BY DEF IInv, Exec, Resting
<1>16. Kind'
  BY DEF IInv, Kind, SafePoints
<1>17. StateAt'
  BY DEF IInv, StateAt
<1>18. ShellHome'
  BY DEF IInv, ShellHome, Halting
<1> QED
  BY <1>10, <1>11, <1>12, <1>13, <1>14, <1>15, <1>16, <1>17, <1>18, ZenonT(60) DEF IInv

\* timerDispatcher takes expired entries off the table.
LEMMA CollectIInv ==
    ASSUME IInv, NEW c \in CPUs, Collect(c)
    PROVE  IInv'
<1>1. PICK E \in SUBSET armed :
        /\ running[c] = Dispatcher /\ pc[Dispatcher] = "run"
        /\ armed' = armed \ E /\ ready' = E
        /\ pc' = [pc EXCEPT ![Dispatcher] = "signal"]
        /\ UNCHANGED <<used, state, owner, hosted, intr, frames, exitCPU,
                       queueVars, cpuVars, fired, linked, waking, bootVars>>
  BY ZenonT(60) DEF Collect, At
<1>t. pc \in [Slots -> Positions]
  BY ZenonT(60) DEF IInv, TypeOK
<1>2. /\ \A x \in Slots : pc'[x] = IF x = Dispatcher THEN "signal" ELSE pc[x]
      /\ used' = used /\ state' = state /\ owner' = owner /\ hosted' = hosted /\
         intr' = intr /\ frames' = frames /\ exitCPU' = exitCPU /\
         svcq' = svcq /\ ring3q' = ring3q /\ running' = running /\
         loop' = loop /\ depth' = depth /\ fired' = fired /\ linked' = linked /\
         waking' = waking /\ booted' = booted /\ shellExited' = shellExited
  BY <1>t, <1>1, ZenonT(60) DEF queueVars, cpuVars, bootVars
<1>3. /\ Dispatcher \in Slots /\ Shell \in Slots /\ Dispatcher # Shell
      /\ NoThread \notin Slots /\ BSP \in CPUs
      /\ running[c] = Dispatcher /\ pc[Dispatcher] = "run" /\ ready = {}
      /\ armed' \cup ready' = armed /\ armed' \cap ready' = {}
      /\ \A x \in armed' \cup ready' : x \in armed
      /\ owner[Dispatcher] = c /\ Dispatcher # NoThread
  BY <1>1, Consts DEF IInv, Exec, Kind, Waits, StateAt
<1>10. TypeOK'
  <2>1. /\ pc' \in [Slots -> Positions]
        /\ armed' \subseteq Slots
        /\ ready' \subseteq Slots
    BY <1>t, <1>1, <1>3, Ranges, ZenonT(60) DEF Positions, Interruptible, Resting
  <2> QED
    BY <1>2, <2>1, ZenonT(60) DEF IInv, TypeOK
<1> USE <1>2, <1>3
<1>11. DepthExact'
  BY OweSame, ZenonT(60) DEF IInv, DepthExact
<1>12. Exec'
  BY DEF IInv, Exec, Resting
<1>13. Kind'
  BY DEF IInv, Kind, SafePoints
<1>14. StateAt'
  BY ZenonT(60) DEF IInv, StateAt
<1>15. Queued'
  BY ZenonT(60) DEF IInv, Queued
<1>16. Waits'
  BY ZenonT(60) DEF IInv, Waits, InWait
<1>17. FramesAt'
  BY ZenonT(60) DEF IInv, FramesAt, Kind
<1>18. ShellHome'
  BY ZenonT(60) DEF IInv, ShellHome, Halting
<1> QED
  BY <1>10, <1>11, <1>12, <1>13, <1>14, <1>15, <1>16, <1>17, <1>18, ZenonT(60) DEF IInv

\* KEvent.Signal finds no waiter.
LEMMA SignalUnparkedIInv ==
    ASSUME IInv, NEW c \in CPUs, NEW t \in ready, t \notin linked, Signal(c), ready' = ready \ {t},
           fired' = fired \cup {t}, linked' = linked, waking' = waking, pc' = pc
    PROVE  IInv'
<1>1. /\ running[c] = Dispatcher /\ pc[Dispatcher] = "signal"
      /\ UNCHANGED <<used, state, owner, hosted, intr, frames, exitCPU,
                     queueVars, cpuVars, armed, bootVars>>
  BY ZenonT(60) DEF Signal, Detached, At
<1>2. /\ used' = used /\ state' = state /\ owner' = owner /\ hosted' = hosted /\
         pc' = pc /\ intr' = intr /\ frames' = frames /\ exitCPU' = exitCPU /\
         svcq' = svcq /\ ring3q' = ring3q /\ running' = running /\
         loop' = loop /\ depth' = depth /\ armed' = armed /\ linked' = linked /\
         waking' = waking /\ booted' = booted /\ shellExited' = shellExited
  BY <1>1, ZenonT(60) DEF queueVars, cpuVars, bootVars
<1>3. /\ Dispatcher \in Slots /\ Shell \in Slots /\ Dispatcher # Shell
      /\ NoThread \notin Slots /\ BSP \in CPUs
      /\ running[c] = Dispatcher /\ pc[Dispatcher] = "signal" /\ waking = NoThread
      /\ t \in Slots /\ pc[t] \in InWait /\ state[t] # "Parked" /\ t \notin armed
      /\ ready' = ready \ {t} /\ fired' = fired \cup {t} /\ t \notin linked
  BY <1>1, Consts DEF IInv, Exec, Waits
<1>10. TypeOK'
  <2>1. /\ ready' \subseteq Slots
        /\ fired' \subseteq Slots
    BY <1>1, <1>3, Ranges, ZenonT(60)
  <2> QED
    BY <1>2, <2>1, ZenonT(60) DEF IInv, TypeOK
<1> USE <1>2, <1>3
<1>11. DepthExact'
  BY OweSame, ZenonT(60) DEF IInv, DepthExact
<1>12. Exec'
  BY ZenonT(60) DEF IInv, Exec, Resting
<1>13. Kind'
  BY ZenonT(60) DEF IInv, Kind, SafePoints
<1>14. StateAt'
  BY ZenonT(60) DEF IInv, StateAt
<1>15. Queued'
  BY ZenonT(60) DEF IInv, Queued
<1>16. Waits'
  BY ZenonT(60) DEF IInv, Waits, InWait
<1>17. FramesAt'
  BY ZenonT(60) DEF IInv, FramesAt, Kind
<1>18. ShellHome'
  BY ZenonT(60) DEF IInv, ShellHome, Halting
<1> QED
  BY <1>10, <1>11, <1>12, <1>13, <1>14, <1>15, <1>16, <1>17, <1>18, ZenonT(60) DEF IInv

\* KEvent.Signal detaches the waiter.
LEMMA SignalWaiterIInv ==
    ASSUME IInv, NEW c \in CPUs, NEW t \in ready, t \in linked, Signal(c), ready' = ready \ {t},
           fired' = fired \cup {t}, linked' = linked \ {t}, waking' = t,
           pc' = [pc EXCEPT ![Dispatcher] = "wake"]
    PROVE  IInv'
<1>1. /\ running[c] = Dispatcher /\ pc[Dispatcher] = "signal"
      /\ UNCHANGED <<used, state, owner, hosted, intr, frames, exitCPU,
                     queueVars, cpuVars, armed, bootVars>>
  BY ZenonT(60) DEF Signal, Detached, At
<1>t. pc \in [Slots -> Positions]
  BY ZenonT(60) DEF IInv, TypeOK
<1>2. /\ \A x \in Slots : pc'[x] = IF x = Dispatcher THEN "wake" ELSE pc[x]
      /\ used' = used /\ state' = state /\ owner' = owner /\ hosted' = hosted /\
         intr' = intr /\ frames' = frames /\ exitCPU' = exitCPU /\
         svcq' = svcq /\ ring3q' = ring3q /\ running' = running /\
         loop' = loop /\ depth' = depth /\ armed' = armed /\ booted' = booted /\
         shellExited' = shellExited
  BY <1>t, <1>1, ZenonT(60) DEF queueVars, cpuVars, bootVars
<1>3. /\ Dispatcher \in Slots /\ Shell \in Slots /\ Dispatcher # Shell
      /\ NoThread \notin Slots /\ BSP \in CPUs
      /\ running[c] = Dispatcher /\ pc[Dispatcher] = "signal" /\ waking = NoThread
      /\ t \in Slots /\ pc[t] \in InWait /\ state[t] = "Parked" /\ t \notin armed
      /\ ready' = ready \ {t} /\ fired' = fired \cup {t} /\ linked' = linked \ {t}
      /\ waking' = t /\ waking' # NoThread /\ t # Dispatcher
      /\ owner[Dispatcher] = c /\ Dispatcher # NoThread
  BY <1>1, Consts DEF IInv, Exec, Waits, Kind, InWait
<1>10. TypeOK'
  <2>1. /\ pc' \in [Slots -> Positions]
        /\ ready' \subseteq Slots
        /\ fired' \subseteq Slots
        /\ linked' \subseteq Slots
        /\ waking' \in Slots \cup {NoThread}
    BY <1>t, <1>1, <1>3, Ranges, ZenonT(60) DEF Positions, Interruptible, Resting
  <2> QED
    BY <1>2, <2>1, ZenonT(60) DEF IInv, TypeOK
<1> USE <1>2, <1>3
<1>11. DepthExact'
  BY OweSame, ZenonT(60) DEF IInv, DepthExact
<1>12. Exec'
  BY DEF IInv, Exec, Resting
<1>13. Kind'
  BY DEF IInv, Kind, SafePoints
<1>14. StateAt'
  BY DEF IInv, StateAt
<1>15. Queued'
  BY ZenonT(60) DEF IInv, Queued
<1>16. Waits'
  BY DEF IInv, Waits, InWait
<1>17. FramesAt'
  BY DEF IInv, FramesAt, Kind
<1>18. ShellHome'
  BY DEF IInv, ShellHome, Halting
<1> QED
  BY <1>10, <1>11, <1>12, <1>13, <1>14, <1>15, <1>16, <1>17, <1>18, ZenonT(60) DEF IInv

\* kschedWake always finds the detached waiter parked.
LEMMA WakeIInv ==
    ASSUME IInv, NEW c \in CPUs, Wake(c)
    PROVE  IInv'
<1>0. waking \in Slots /\ state[waking] = "Parked" /\ waking # Dispatcher
  BY Ranges, ZenonT(60) DEF IInv, Wake, At, Waits, Kind
<1>1. /\ running[c] = Dispatcher /\ pc[Dispatcher] = "wake"
      /\ Push(waking, owner[waking], hosted[waking])
      /\ waking' = NoThread
      /\ pc' = [pc EXCEPT ![Dispatcher] = "signal"]
      /\ UNCHANGED <<used, hosted, intr, frames, exitCPU, cpuVars, armed,
                     ready, fired, linked, bootVars>>
  BY <1>0, ZenonT(60) DEF Wake, At
<1>t. state \in [Slots -> States] /\ owner \in [Slots -> CPUs] /\
         pc \in [Slots -> Positions] /\ svcq \in [CPUs -> Seq(Slots)] /\
         ring3q \in [CPUs -> Seq(Slots)]
  BY ZenonT(60) DEF IInv, TypeOK
<1>2. /\ \A x \in Slots : pc'[x] = IF x = Dispatcher THEN "signal" ELSE pc[x]
      /\ used' = used /\ hosted' = hosted /\ intr' = intr /\ frames' = frames /\
         exitCPU' = exitCPU /\ running' = running /\ loop' = loop /\
         depth' = depth /\ armed' = armed /\ ready' = ready /\ fired' = fired /\
         linked' = linked /\ booted' = booted /\ shellExited' = shellExited
  BY <1>t, <1>1, ZenonT(60) DEF cpuVars, bootVars
<1>3. /\ Dispatcher \in Slots /\ Shell \in Slots /\ Dispatcher # Shell
      /\ NoThread \notin Slots /\ BSP \in CPUs
      /\ running[c] = Dispatcher /\ pc[Dispatcher] = "wake" /\ waking' = NoThread
      /\ waking \in Slots /\ state[waking] = "Parked" /\ waking # Dispatcher
      /\ pc[waking] \in {"parking", "parked"} /\ owner[waking] \in CPUs
      /\ owner[Dispatcher] = c /\ Dispatcher # NoThread
  BY <1>0, <1>1, Consts DEF IInv, Exec, Waits
<1>4. /\ Queued' /\ svcq' \in [CPUs -> Seq(Slots)] /\ ring3q' \in [CPUs -> Seq(Slots)]
      /\ state' = [state EXCEPT ![waking] = "Runnable"] /\ owner' = [owner EXCEPT ![waking] = owner[waking]]
  <2>1. hosted[waking] \in BOOLEAN /\ hosted' \in [Slots -> BOOLEAN]
    BY <1>2, <1>3, ZenonT(60) DEF IInv, TypeOK
  <2> QED
    BY <1>1, <1>2, <1>3, <2>1, PushQueued DEF IInv
<1>5. /\ \A x \in Slots : state'[x] = IF x = waking THEN "Runnable" ELSE state[x]
      /\ owner' = owner
  BY <1>3, <1>4, ZenonT(60) DEF IInv, TypeOK
<1>10. TypeOK'
  <2>1. /\ state' \in [Slots -> States]
        /\ owner' \in [Slots -> CPUs]
        /\ pc' \in [Slots -> Positions]
        /\ svcq' \in [CPUs -> Seq(Slots)]
        /\ ring3q' \in [CPUs -> Seq(Slots)]
        /\ waking' \in Slots \cup {NoThread}
    BY <1>t, <1>4, <1>3, <1>1, Ranges, ZenonT(60) DEF States, Positions, Interruptible, Resting
  <2> QED
    BY <1>2, <2>1, ZenonT(60) DEF IInv, TypeOK
<1>11. Queued'
  BY <1>4, ZenonT(60)
<1> USE <1>2, <1>3, <1>5
<1>12. DepthExact'
  BY OweSame, ZenonT(60) DEF IInv, DepthExact
<1>13. Exec'
  BY DEF IInv, Exec, Resting
<1>14. Kind'
  BY DEF IInv, Kind, SafePoints
<1>15. StateAt'
  BY DEF IInv, StateAt
<1>16. Waits'
  BY DEF IInv, Waits, InWait
<1>17. FramesAt'
  BY DEF IInv, FramesAt, Kind
<1>18. ShellHome'
  BY DEF IInv, ShellHome, Halting
<1> QED
  BY <1>10, <1>11, <1>12, <1>13, <1>14, <1>15, <1>16, <1>17, <1>18, ZenonT(60) DEF IInv

\* The end of timerDispatcher's round.
LEMMA DispatcherYieldIInv ==
    ASSUME IInv, NEW c \in CPUs, DispatcherYield(c)
    PROVE  IInv'
<1>1. /\ running[c] = Dispatcher /\ pc[Dispatcher] = "signal" /\ ready = {}
      /\ Push(Dispatcher, c, hosted[Dispatcher])
      /\ pc' = [pc EXCEPT ![Dispatcher] = "yielding"]
      /\ UNCHANGED <<used, hosted, intr, frames, exitCPU, cpuVars, timerVars,
                     bootVars>>
  BY ZenonT(60) DEF DispatcherYield, At
<1>t. state \in [Slots -> States] /\ owner \in [Slots -> CPUs] /\
         pc \in [Slots -> Positions] /\ svcq \in [CPUs -> Seq(Slots)] /\
         ring3q \in [CPUs -> Seq(Slots)]
  BY ZenonT(60) DEF IInv, TypeOK
<1>2. /\ \A x \in Slots : pc'[x] = IF x = Dispatcher THEN "yielding" ELSE pc[x]
      /\ used' = used /\ hosted' = hosted /\ intr' = intr /\ frames' = frames /\
         exitCPU' = exitCPU /\ running' = running /\ loop' = loop /\
         depth' = depth /\ armed' = armed /\ ready' = ready /\ fired' = fired /\
         linked' = linked /\ waking' = waking /\ booted' = booted /\
         shellExited' = shellExited
  BY <1>t, <1>1, ZenonT(60) DEF cpuVars, timerVars, bootVars
<1>3. /\ Dispatcher \in Slots /\ Shell \in Slots /\ Dispatcher # Shell
      /\ NoThread \notin Slots /\ BSP \in CPUs
      /\ running[c] = Dispatcher /\ pc[Dispatcher] = "signal" /\ ready = {}
      /\ Dispatcher \in Slots /\ state[Dispatcher] = "Running" /\ ~hosted[Dispatcher]
      /\ owner[Dispatcher] = c /\ Dispatcher # NoThread
  BY <1>1, Consts, ZenonT(60) DEF IInv, Exec, StateAt, Kind
<1>4. /\ Queued' /\ svcq' \in [CPUs -> Seq(Slots)] /\ ring3q' \in [CPUs -> Seq(Slots)]
      /\ state' = [state EXCEPT ![Dispatcher] = "Runnable"] /\ owner' = [owner EXCEPT ![Dispatcher] = c]
  <2>1. hosted[Dispatcher] \in BOOLEAN /\ hosted' \in [Slots -> BOOLEAN]
    BY <1>2, <1>3, ZenonT(60) DEF IInv, TypeOK
  <2> QED
    BY <1>1, <1>2, <1>3, <2>1, PushQueued DEF IInv
<1>5. /\ \A x \in Slots : state'[x] = IF x = Dispatcher THEN "Runnable" ELSE state[x]
      /\ owner' = owner
  BY <1>3, <1>4, ZenonT(60) DEF IInv, TypeOK
<1>10. TypeOK'
  <2>1. /\ state' \in [Slots -> States]
        /\ owner' \in [Slots -> CPUs]
        /\ pc' \in [Slots -> Positions]
        /\ svcq' \in [CPUs -> Seq(Slots)]
        /\ ring3q' \in [CPUs -> Seq(Slots)]
    BY <1>t, <1>4, <1>3, <1>1, ZenonT(60) DEF States, Positions, Interruptible, Resting
  <2> QED
    BY <1>2, <2>1, ZenonT(60) DEF IInv, TypeOK
<1>11. Queued'
  BY <1>4, ZenonT(60)
<1> USE <1>2, <1>3, <1>5
<1>12. DepthExact'
  BY OweSame, ZenonT(60) DEF IInv, DepthExact
<1>13. Exec'
  BY DEF IInv, Exec, Resting
<1>14. Kind'
  BY DEF IInv, Kind, SafePoints
<1>15. StateAt'
  BY DEF IInv, StateAt
<1>16. Waits'
  BY DEF IInv, Waits, InWait
<1>17. FramesAt'
  BY DEF IInv, FramesAt, Kind
<1>18. ShellHome'
  BY ZenonT(60) DEF IInv, ShellHome, Halting
<1> QED
  BY <1>10, <1>11, <1>12, <1>13, <1>14, <1>15, <1>16, <1>17, <1>18, ZenonT(60) DEF IInv

\* sys_shell_ready.
LEMMA ShellReadyIInv ==
    ASSUME IInv, NEW c \in CPUs, ShellReady(c)
    PROVE  IInv'
<1>1. /\ running[c] = Shell /\ pc[Shell] = "sys"
      /\ booted' = TRUE
      /\ UNCHANGED <<threadVars, queueVars, cpuVars, timerVars, shellExited>>
  BY ZenonT(60) DEF ShellReady, At
<1>2. /\ used' = used /\ state' = state /\ owner' = owner /\ hosted' = hosted /\
         pc' = pc /\ intr' = intr /\ frames' = frames /\ exitCPU' = exitCPU /\
         svcq' = svcq /\ ring3q' = ring3q /\ running' = running /\
         loop' = loop /\ depth' = depth /\ armed' = armed /\ ready' = ready /\
         fired' = fired /\ linked' = linked /\ waking' = waking /\
         shellExited' = shellExited
  BY <1>1, ZenonT(60) DEF threadVars, queueVars, cpuVars, timerVars
<1>3. /\ Dispatcher \in Slots /\ Shell \in Slots /\ Dispatcher # Shell
      /\ NoThread \notin Slots /\ BSP \in CPUs
      /\ running[c] = Shell /\ pc[Shell] = "sys" /\ booted' = TRUE
  BY Consts, <1>1, ZenonT(60)
<1>10. TypeOK'
  <2>1. booted' \in BOOLEAN
    BY <1>1, ZenonT(60)
  <2> QED
    BY <1>2, <2>1, ZenonT(60) DEF IInv, TypeOK
<1> USE <1>2, <1>3
<1>11. DepthExact'
  BY OweSame, ZenonT(60) DEF IInv, DepthExact
<1>12. Exec'
  BY ZenonT(60) DEF IInv, Exec, Resting
<1>13. Kind'
  BY ZenonT(60) DEF IInv, Kind, SafePoints
<1>14. StateAt'
  BY ZenonT(60) DEF IInv, StateAt
<1>15. Queued'
  BY ZenonT(60) DEF IInv, Queued
<1>16. Waits'
  BY ZenonT(60) DEF IInv, Waits, InWait
<1>17. FramesAt'
  BY ZenonT(60) DEF IInv, FramesAt, Kind
<1>18. ShellHome'
  BY ZenonT(60) DEF IInv, ShellHome, Halting
<1> QED
  BY <1>10, <1>11, <1>12, <1>13, <1>14, <1>15, <1>16, <1>17, <1>18, ZenonT(60) DEF IInv

\* kthreadPoolExhaustedPanic.
LEMMA PoolExhaustedIInv ==
    ASSUME IInv, NEW c \in CPUs, PoolExhausted(c)
    PROVE  IInv'
<1>1. PICK t \in Slots :
        /\ running[c] = t /\ pc[t] = "sys"
        /\ pc' = [pc EXCEPT ![t] = "panic"]
        /\ UNCHANGED <<used, state, owner, hosted, intr, frames, exitCPU,
                       queueVars, cpuVars, timerVars, bootVars>>
  BY ZenonT(60) DEF PoolExhausted, At
<1>t. pc \in [Slots -> Positions]
  BY ZenonT(60) DEF IInv, TypeOK
<1>2. /\ \A x \in Slots : pc'[x] = IF x = t THEN "panic" ELSE pc[x]
      /\ used' = used /\ state' = state /\ owner' = owner /\ hosted' = hosted /\
         intr' = intr /\ frames' = frames /\ exitCPU' = exitCPU /\
         svcq' = svcq /\ ring3q' = ring3q /\ running' = running /\
         loop' = loop /\ depth' = depth /\ armed' = armed /\ ready' = ready /\
         fired' = fired /\ linked' = linked /\ waking' = waking /\
         booted' = booted /\ shellExited' = shellExited
  BY <1>t, <1>1, ZenonT(60) DEF queueVars, cpuVars, timerVars, bootVars
<1>3. /\ Dispatcher \in Slots /\ Shell \in Slots /\ Dispatcher # Shell
      /\ NoThread \notin Slots /\ BSP \in CPUs
      /\ owner[t] = c /\ t # NoThread /\ running[c] = t
      /\ pc[t] = "sys" /\ t # Dispatcher
  BY <1>1, Consts, ZenonT(60) DEF IInv, Exec, Kind
<1>10. TypeOK'
  <2>1. pc' \in [Slots -> Positions]
    BY <1>t, <1>1, ZenonT(60) DEF Positions, Interruptible, Resting
  <2> QED
    BY <1>2, <2>1, ZenonT(60) DEF IInv, TypeOK
<1> USE <1>2, <1>3
<1>11. DepthExact'
  BY OweSame, ZenonT(60) DEF IInv, DepthExact
<1>12. Exec'
  BY ZenonT(60) DEF IInv, Exec, Resting
<1>13. Kind'
  BY DEF IInv, Kind, SafePoints
<1>14. StateAt'
  BY ZenonT(60) DEF IInv, StateAt
<1>15. Queued'
  BY ZenonT(60) DEF IInv, Queued
<1>16. Waits'
  BY ZenonT(60) DEF IInv, Waits, InWait
<1>17. FramesAt'
  BY ZenonT(60) DEF IInv, FramesAt, Kind
<1>18. ShellHome'
  BY DEF IInv, ShellHome, Halting
<1> QED
  BY <1>10, <1>11, <1>12, <1>13, <1>14, <1>15, <1>16, <1>17, <1>18, ZenonT(60) DEF IInv
=============================================================================
