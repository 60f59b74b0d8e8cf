----------------------------- MODULE TcpTiming -----------------------------
(***************************************************************************)
(* How fast an ESTABLISHED connection sends and how long it waits: the      *)
(* congestion window (tcp_cc.go), the round-trip estimator (tcp_rtt.go) and *)
(* the retransmission timer (tcp_retx.go), which module Tcp leaves open.    *)
(*                                                                          *)
(* Here the arithmetic is the code's and the bytes are left out.  Every     *)
(* critical section is one step.  Ends of segments count from sndUna, a     *)
(* deadline is the ticks left to it and a send time is the ticks since      *)
(* then, so that time may pass without end.                                 *)
(***************************************************************************)
EXTENDS Integers, Sequences, FiniteSetsExt

CONSTANTS
    Mss,         \* mssEff
    SndWnd,      \* the window the peer advertises
    RetxMax,     \* tcpRetxMax
    RTOMin,      \* tcpRTOMinTicks, which is also tcpRTOInitTicks
    RTOMax,      \* tcpRTOMaxTicks
    MaxRetx,     \* tcpMaxRetransmits
    DupMod,      \* 2^8, the width of dupAcks
    WordMod,     \* 2^32, the width of cwnd and ssthresh
    Sizes,       \* bound: the lengths of the segments that are sent
    MaxAge,      \* bound: a longer round trip counts as this one
    MaxAcks      \* bound: ACKs the peer sends

\* tcpCCInit replaces an MSS of zero; what the peer advertises and the first
\* window fit a word.
ASSUME TimingAssumption ==
    /\ Mss \in Nat \ {0} /\ SndWnd \in Nat /\ MaxAge \in Nat
    /\ RTOMin \in Nat /\ RTOMax \in Nat /\ RTOMin <= RTOMax
    /\ DupMod \in Nat \ {0}
    /\ WordMod \in Nat /\ SndWnd < WordMod /\ 4 * Mss < WordMod - 1
    /\ Sizes \subseteq Nat \ {0}

VARIABLES
    alive,       \* the block has not been freed
    cwnd, ssthresh, cwndAccum, dupAcks,
    srttTicks, rttvarTicks, rttInitialized,
    rtoTicks,
    left,        \* rtoDeadline - pitTicks, or Off
    rtoFastRetx,
    xmitCountHead,
    retxQ,       \* descriptors: the end, the ticks since the last send, retransmitted?
    flight,      \* sndNxt - sndUna
    sending,     \* the length of a segment sent and not yet accounted for, or 0
    acks,        \* bound: ACKs received
    lo, hi       \* history: the shortest and the longest round trip sampled

cc == <<cwnd, ssthresh, cwndAccum, dupAcks>>
rtt == <<srttTicks, rttvarTicks, rttInitialized, lo, hi>>
timer == <<rtoTicks, left, rtoFastRetx, xmitCountHead>>
vars == <<alive, cc, rtt, timer, retxQ, flight, sending, acks>>

Off == -1
Max2(a, b) == IF a > b THEN a ELSE b
Min2(a, b) == IF a < b THEN a ELSE b

Word(n) == n % WordMod
Infinite == WordMod - 1    \* 0xFFFFFFFF, the first ssthresh

tcpInitialWindow ==
    CASE Mss > 2190 -> 2 * Mss [] Mss > 1095 /\ Mss <= 2190 -> 3 * Mss [] OTHER -> 4 * Mss

\* tcpCCInit and the last tcpArmRTO of the handshake, whose SYN was answered
\* within its tick and left no sample.
Init ==
    /\ alive = TRUE
    /\ cwnd = tcpInitialWindow /\ ssthresh = Infinite /\ cwndAccum = 0 /\ dupAcks = 0
    /\ srttTicks = 0 /\ rttvarTicks = 0 /\ rttInitialized = FALSE
    /\ rtoTicks = RTOMin /\ left = Off /\ rtoFastRetx = FALSE /\ xmitCountHead = 0
    /\ retxQ = <<>> /\ flight = 0 /\ sending = 0 /\ acks = 0
    /\ lo = MaxAge /\ hi = 1

-----------------------------------------------------------------------------
(***************************************************************************)
(* The estimator.                                                           *)
(***************************************************************************)
clampRTO(v) == Min2(Max2(v, RTOMin), RTOMax)

rttvarBasedRTO(srtt8, var4) == (srtt8 \div 8) + Max2(var4, 1)

\* Wrong: the sample is scaled, although its weight and the scale cancel.
ScaledAgain(r) == 7 * (srttTicks \div 8) + 8 * r

\* srttTicks and rttvarTicks after another sample.
Smoothed(r) == 7 * (srttTicks \div 8) + r
Varied(r) ==
    LET srtt == srttTicks \div 8
    IN 3 * (rttvarTicks \div 4) + (IF srtt > r THEN srtt - r ELSE r - srtt)

tcpRTTInit(r) ==
    /\ srttTicks' = r * 8
    /\ rttvarTicks' = Max2((r \div 2) * 4, 4)
    /\ rttInitialized' = TRUE

tcpRTTUpdate(r) ==
    /\ IF rttInitialized
       THEN srttTicks' = Smoothed(r) /\ rttvarTicks' = Varied(r) /\ UNCHANGED rttInitialized
       ELSE tcpRTTInit(r)
    /\ rtoTicks' = clampRTO(rttvarBasedRTO(srttTicks', rttvarTicks'))
    /\ lo' = Min2(lo, r) /\ hi' = Max2(hi, r)

\* The oldest send among the k descriptors an ACK pops; a sample of no ticks,
\* and one of retransmitted descriptors only, is discarded.
tcpRTTSample(k) ==
    LET oldest == Max({0} \cup {retxQ[i].age : i \in 1..k})
        anyPristine == \E i \in 1..k : ~retxQ[i].again
    IN IF anyPristine /\ oldest > 0 THEN tcpRTTUpdate(oldest)
       ELSE UNCHANGED <<rtt, rtoTicks>>

-----------------------------------------------------------------------------
(***************************************************************************)
(* Congestion control.                                                      *)
(***************************************************************************)
\* Slow start, then one segment per window.  Nothing stops the sum, so a long
\* run wraps it; a window of zero is initialised again.
tcpCCOnAck(n) ==
    \/ /\ cwnd = 0
       /\ cwnd' = Word(tcpInitialWindow + Min2(n, Mss))
       /\ ssthresh' = Infinite /\ cwndAccum' = 0
    \/ /\ cwnd # 0 /\ cwnd < ssthresh
       /\ cwnd' = Word(cwnd + Min2(n, Mss))
       /\ UNCHANGED <<ssthresh, cwndAccum>>
    \/ /\ cwnd # 0 /\ cwnd >= ssthresh
       /\ LET a == cwndAccum + (Mss * Mss) \div cwnd
          IN IF a >= Mss THEN cwnd' = Word(cwnd + Mss) /\ cwndAccum' = a - Mss
                         ELSE cwndAccum' = a /\ UNCHANGED cwnd
       /\ UNCHANGED ssthresh

\* The threshold after a loss.
Halved == Max2(flight \div 2, 2 * Mss)

\* True iff this duplicate is the third.
tcpCCOnDupAck ==
    /\ dupAcks' = (dupAcks + 1) % DupMod
    /\ IF dupAcks' = 3
       THEN ssthresh' = Halved /\ cwnd' = Word(Halved + 3 * Mss) /\ cwndAccum' = 0
       ELSE UNCHANGED <<ssthresh, cwnd, cwndAccum>>

tcpCCOnRTO ==
    ssthresh' = Halved /\ cwnd' = Mss /\ cwndAccum' = 0 /\ dupAcks' = 0

-----------------------------------------------------------------------------
(***************************************************************************)
(* Sending, receiving ACKs, the scanner.                                    *)
(***************************************************************************)
\* tcpTCBDrainTX: a segment within both windows is chosen and sent...
Send ==
    \E n \in Sizes :
        /\ alive /\ sending = 0 /\ flight + n <= Min2(cwnd, SndWnd)
        /\ sending' = n
        /\ UNCHANGED <<alive, cc, rtt, timer, retxQ, flight, acks>>

\* ... and accounted for in a critical section of its own, whatever became of
\* the block in between: sndNxt, a descriptor if the queue has room, tcpArmRTO.
Account ==
    /\ sending > 0 /\ sending' = 0
    /\ flight' = flight + sending
    /\ retxQ' = IF Len(retxQ) < RetxMax
                THEN Append(retxQ, [end |-> flight', age |-> 0, again |-> FALSE])
                ELSE retxQ
    /\ left' = rtoTicks /\ xmitCountHead' = 0
    /\ UNCHANGED <<alive, cc, rtt, rtoTicks, rtoFastRetx, acks>>

\* retxAckTo: an ACK of n bytes pops k descriptors, up to the first that ends
\* beyond it; the others count from the new sndUna.
Pops(k, n) ==
    /\ \A i \in 1..k : retxQ[i].end <= n
    /\ k < Len(retxQ) => retxQ[k + 1].end > n
Kept(k, n) ==
    [i \in 1..(Len(retxQ) - k) |-> [retxQ[k + i] EXCEPT !.end = @ - n]]

\* tcpAckUpdate: an ACK of n bytes that were in flight.
Ack ==
    \E n \in 1..flight, k \in 0..Len(retxQ) :
        /\ alive /\ acks < MaxAcks /\ acks' = acks + 1
        /\ flight' = flight - n
        /\ Pops(k, n) /\ retxQ' = Kept(k, n)
        /\ tcpRTTSample(k)
        /\ tcpCCOnAck(n) /\ dupAcks' = 0
        /\ IF retxQ' = <<>> THEN left' = Off /\ UNCHANGED xmitCountHead
                            ELSE left' = rtoTicks' /\ xmitCountHead' = 0
        /\ UNCHANGED <<alive, rtoFastRetx, sending>>

\* tcpHandleEstablished on a duplicate ACK: the third moves the deadline into
\* the past.
DupAck ==
    /\ alive /\ acks < MaxAcks /\ acks' = acks + 1
    /\ flight > 0
    /\ tcpCCOnDupAck
    /\ IF dupAcks' = 3 THEN left' = 0 /\ xmitCountHead' = 0 /\ rtoFastRetx' = TRUE
                       ELSE UNCHANGED <<left, xmitCountHead, rtoFastRetx>>
    /\ UNCHANGED <<alive, rtt, rtoTicks, retxQ, flight, sending>>

\* Wrong: the retransmissions are not counted.
Uncounted == xmitCountHead

Counted == xmitCountHead + 1

\* tcpRTOFire: abandon, find nothing to send, or send the head again with the
\* window collapsed and the timeout doubled.
Fire ==
    /\ alive /\ left = 0
    /\ \/ /\ xmitCountHead >= MaxRetx
          /\ alive' = FALSE /\ left' = Off /\ retxQ' = <<>>
          /\ UNCHANGED <<cc, rtoTicks, rtoFastRetx, xmitCountHead>>
       \/ /\ xmitCountHead < MaxRetx /\ retxQ = <<>>
          /\ left' = Off
          /\ UNCHANGED <<alive, cc, rtoTicks, rtoFastRetx, xmitCountHead, retxQ>>
       \/ /\ xmitCountHead < MaxRetx /\ retxQ # <<>>
          /\ retxQ' = [retxQ EXCEPT ![1] = [end |-> @.end, age |-> 0, again |-> TRUE]]
          /\ xmitCountHead' = Counted
          /\ rtoFastRetx' = FALSE
          /\ IF rtoFastRetx THEN UNCHANGED cc ELSE tcpCCOnRTO
          /\ rtoTicks' = Min2(2 * rtoTicks, RTOMax) /\ left' = rtoTicks'
          /\ UNCHANGED alive
    /\ UNCHANGED <<rtt, flight, sending, acks>>

\* A tick of the PIT.  The scanner may be late.
Tick ==
    /\ alive
    /\ left' = IF left = Off THEN Off ELSE Max2(left - 1, 0)
    /\ retxQ' = [i \in 1..Len(retxQ) |-> [retxQ[i] EXCEPT !.age = Min2(@ + 1, MaxAge)]]
    /\ UNCHANGED <<alive, cc, rtt, rtoTicks, rtoFastRetx, xmitCountHead, flight, sending,
                   acks>>

Next == Send \/ Account \/ Ack \/ DupAck \/ Fire \/ Tick

Spec == Init /\ [][Next]_vars

\* The clock ticks and the scanner's thread is dispatched.
Fairness == WF_vars(Tick) /\ WF_vars(Fire)

LiveSpec == Spec /\ Fairness

-----------------------------------------------------------------------------
\* The most the window can have grown to: what a fast retransmission sets it
\* to, and a segment for each ACK.
Grown == Max2(SndWnd \div 2, 2 * Mss) + 3 * Mss + acks * Mss

\* Whatever samples, losses and duplicates come in whatever order, the timeout
\* stays between RFC 6298's bounds (clampRTO and the back-off of tcpRTOFire),
\* the threshold never falls below two segments nor, until there have been
\* ACKs enough to wrap its 32 bits, the window below one (tcp_cc.go), and the
\* smoothed round trip stays between the shortest and the longest sample,
\* whatever the scaled divisions of tcpRTTUpdate lose.
TimingInRange ==
    /\ rtoTicks \in RTOMin..RTOMax /\ left \in Off..RTOMax
    /\ ssthresh \in (2 * Mss)..Infinite /\ cwndAccum \in 0..(Mss - 1)
    /\ cwnd < WordMod /\ (Grown < WordMod => cwnd \in Mss..Grown)
    /\ \A i \in 1..Len(retxQ) : retxQ[i].end \in 1..flight
    /\ rttInitialized => srttTicks \div 8 \in lo..hi

\* A segment that is described is acknowledged or the connection is abandoned:
\* the timer never stops with a descriptor left, and no order of sends, ACKs
\* and fast retransmissions keeps starting its count again (tcpRTOFire).
LostSegmentEnds == alive /\ retxQ # <<>> ~> retxQ = <<>>
=============================================================================
