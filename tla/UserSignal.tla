----------------------------- MODULE UserSignal -----------------------------
(* SIGALRM delivery to a Ring-3 process (user_signal.go).  Only the timer    *)
(* interrupt of the bootstrap CPU still delivers: handlePreemptIPI yields    *)
(* the hosting kernel thread before it reaches maybeDeliverSignal.  The      *)
(* process is therefore the one resident on that CPU, the boot shell, and    *)
(* its calls and the tick never overlap: sys_sigaction runs with interrupts  *)
(* off.                                                                      *)
(*                                                                           *)
(* The user stack is abstracted to the frames the kernel pushed on it:       *)
(* running = 0 is the main program, running = d the d-th nested handler, and *)
(* frames[d] is what was running when the frame of handler d was pushed.     *)
EXTENDS Integers

CONSTANTS Quantum,    \* UserQuantumTicks
          MaxNest     \* bound: handlers nested on the user stack

ASSUME SignalAssumption == Quantum \in Nat \ {0} /\ MaxNest \in Nat \ {0}

VARIABLE sig

SigType ==
    [handler : BOOLEAN, counter : 0 .. Quantum - 1, pending : BOOLEAN,
     inProgress : BOOLEAN, saved : 0 .. MaxNest,
     frames : [1 .. MaxNest -> 0 .. MaxNest], running : 0 .. MaxNest,
     rehooked : BOOLEAN]

SigInit ==
    sig = [handler |-> FALSE, counter |-> 0, pending |-> FALSE,
           inProgress |-> FALSE, saved |-> 0,
           frames |-> [d \in 1 .. MaxNest |-> 0], running |-> 0,
           rehooked |-> FALSE]

\* sys_sigaction registers a handler, or none.  rehooked is history: a handler
\* made the call.
sysSigaction ==
    \E handler \in BOOLEAN :
        sig' = [sig EXCEPT !.handler = handler, !.counter = 0, !.pending = FALSE,
                           !.inProgress = FALSE,
                           !.rehooked = @ \/ sig.running > 0]

\* The quantum accounting of one tick.
maybeSignalUserPreempt(s) ==
    IF ~s.handler THEN s
    ELSE IF s.counter + 1 < Quantum THEN [s EXCEPT !.counter = @ + 1]
    ELSE [s EXCEPT !.counter = 0, !.pending = TRUE]

\* Wrong: a running handler is interrupted too.
NestsFreely(s) == s.handler /\ s.pending

\* When a tick that interrupted Ring 3 diverts the program to its handler.
Deliverable(s) == s.handler /\ s.pending /\ ~s.inProgress

\* The sigFrame is pushed below the interrupted context.
maybeDeliverSignal(s) ==
    IF Deliverable(s) /\ s.running < MaxNest
    THEN [s EXCEPT !.frames[s.running + 1] = s.running,
                   !.running = @ + 1, !.saved = s.running + 1,
                   !.inProgress = TRUE, !.pending = FALSE]
    ELSE s

\* The bootstrap CPU's timer interrupt, in Ring 3 or in a system call.
handleLAPICTimer(ring3) ==
    LET s == maybeSignalUserPreempt(sig)
    IN  sig' = IF ring3 THEN maybeDeliverSignal(s) ELSE s

\* The frame SigSavedRSP names is resumed.  Nothing clears SigSavedRSP, so a
\* call outside a handler resumes the last frame again.
sysSigreturn ==
    /\ sig.saved # 0
    /\ sig' = [sig EXCEPT !.running = sig.frames[sig.saved],
                          !.inProgress = FALSE]

\* The frame lies on the user stack: the program may have overwritten it.
BadFrame == sig.saved # 0 /\ UNCHANGED sig
=============================================================================
