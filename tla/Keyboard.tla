------------------------------ MODULE Keyboard ------------------------------
(* The PS/2 keyboard: the scancode translation of keyboard.go and the ring   *)
(* of keyboard_irq.go between the interrupt on the bootstrap CPU and the     *)
(* processes that read it from any CPU.  An event is the number under which  *)
(* the ring accepted it; characters and flags are left out.                  *)
EXTENDS Integers, FiniteSets

CONSTANTS kbdRingSize,
          MaxKeys,      \* bound: events the ring accepts
          HeldMod       \* range of shiftHeld, ctrlHeld and altHeld (2^8)

ASSUME KeyboardAssumption ==
    kbdRingSize \in Nat \ {0} /\ MaxKeys \in Nat /\ HeldMod \in Nat \ {0}

VARIABLE kbd

\* The modifier keys and the counter each one moves.  The right Ctrl and Alt
\* send the code of the left ones after a prefix.
Modifiers == {"shift", "ctrl", "alt"}
ModKeys == {"lshift", "rshift", "lctrl", "rctrl", "lalt", "ralt"}
Prefixed == {"rctrl", "ralt"}
Counter(k) ==
    CASE k \in {"lshift", "rshift"} -> "shift"
      [] k \in {"lctrl", "rctrl"} -> "ctrl"
      [] k \in {"lalt", "ralt"} -> "alt"

KbdType ==
    [ring : [0 .. kbdRingSize - 1 -> 0 .. MaxKeys], head : 0 .. MaxKeys,
     tail : 0 .. MaxKeys, held : [Modifiers -> 0 .. HeldMod - 1],
     extended : BOOLEAN, down : SUBSET ModKeys, wrapped : SUBSET Modifiers]

KbdInit ==
    kbd = [ring |-> [i \in 0 .. kbdRingSize - 1 |-> 0], head |-> 0, tail |-> 0,
           held |-> [m \in Modifiers |-> 0], extended |-> FALSE,
           down |-> {}, wrapped |-> {}]

\* Wrong: the event on top of the oldest one is written.
RingOverfull == kbd.head - kbd.tail > kbdRingSize
RingFull == kbd.head - kbd.tail >= kbdRingSize

\* A full ring drops the event.
keyboardIRQSend ==
    IF RingFull THEN kbd
    ELSE [kbd EXCEPT !.ring[kbd.head % kbdRingSize] = kbd.head,
                     !.head = @ + 1]

\* The make code of an ordinary key: the prefix flag is spent on it.
KeyDown ==
    /\ kbd.head < MaxKeys
    /\ kbd' = [keyboardIRQSend EXCEPT !.extended = FALSE]

\* Its break code is ignored but for the prefix flag.
KeyUp == kbd' = [kbd EXCEPT !.extended = FALSE]

\* 0xE0 announces an extended key.
Prefix == kbd' = [kbd EXCEPT !.extended = TRUE]

\* Wrong: one release clears the counter of both keys.
ReleasesAll(n) == 0
Released(n) == IF n > 0 THEN n - 1 ELSE n

Pressed(n) == (n + 1) % HeldMod

\* A make code, the first or a repeat, counts; the prefix flag stays set.  down
\* and wrapped are history: the keys under a finger, and the counters that
\* overflowed.
ModDown(k) ==
    LET m == Counter(k)
    IN  /\ k \in Prefixed => kbd.extended
        /\ kbd' = [kbd EXCEPT !.held[m] = Pressed(@), !.down = @ \cup {k},
                              !.wrapped = IF kbd.held[m] + 1 = HeldMod
                                          THEN @ \cup {m} ELSE @]

ModUp(k) ==
    /\ k \in kbd.down
    /\ k \in Prefixed => kbd.extended
    /\ kbd' = [kbd EXCEPT !.held[Counter(k)] = Released(@),
                          !.down = @ \ {k}]

\* keyboardIRQRecv is two steps: load tail and the event, then store tail.
HasEvent == kbd.tail # kbd.head
EventAt(t) == kbd.ring[t % kbdRingSize]
StoreTail(t) == kbd' = [kbd EXCEPT !.tail = t + 1]
=============================================================================
