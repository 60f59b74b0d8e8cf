------------------------------ MODULE TcpBlock ------------------------------
(***************************************************************************)
(* One transmission control block (tcp.go, tcp_retx.go, tcp_flow.go) as a   *)
(* record, and what the critical sections of the stack do to it, each as a  *)
(* function from the record and the incoming segment to the new record.     *)
(*                                                                          *)
(* Sequence numbers are modulo SeqSpace.  Bytes are <<connection, position>>. *)
(* Deadlines are armed or not: time passes at will.  The congestion window, *)
(* the segment size and the round-trip estimate are abstracted: a send may  *)
(* be of any length the peer's window allows, and any duplicate ACK may be  *)
(* the third.                                                               *)
(***************************************************************************)
EXTENDS Integers, Sequences, FiniteSets

CONSTANTS
    SeqSpace,      \* 2^32
    ISS, IRS,    \* our and the peers' initial sequence numbers
    BufCap,      \* tcpRxBufSize, tcpTxBufSize
    RetxMax,     \* tcpRetxMax
    NoConn       \* the zero 4-tuple of a free slot

ASSUME BlockAssumption ==
    /\ SeqSpace \in Nat \ {0} /\ ISS \in Nat /\ IRS \in Nat
    /\ BufCap \in Nat /\ RetxMax \in Nat

Plus(a, n) == (a + n) % SeqSpace
Dist(a, b) == (b - a + SeqSpace) % SeqSpace

\* int32(a-b) <= 0 and int32(a-b) < 0.
seqLE(a, b) == Dist(a, b) <= SeqSpace \div 2
seqLT(a, b) == a # b /\ seqLE(a, b)

Min2(a, b) == IF a < b THEN a ELSE b

\* A segment from the peer: its flags, numbers, payload length and window.
NoFlags == [syn |-> FALSE, ack |-> FALSE, fin |-> FALSE, rst |-> FALSE]

\* A slot of tcbTable at boot.  "clean" is a history variable: the receive
\* ring was empty when the slot was last allocated.
ZeroTCB ==
    [active |-> FALSE, conn |-> NoConn, state |-> "CLOSED", listener |-> 0,
     sndUna |-> 0, sndNxt |-> 0, sndWnd |-> 0, sndWl1 |-> 0, sndWl2 |-> 0,
     rcvNxt |-> 0, rcvWnd |-> 0, rxBuf |-> <<>>, txBuf |-> <<>>,
     retxQ |-> <<>>, rto |-> FALSE, tries |-> 0, persist |-> FALSE,
     clean |-> TRUE]

-----------------------------------------------------------------------------
(***************************************************************************)
(* The table.                                                               *)
(***************************************************************************)
tcbAlloc(t, c) ==
    [t EXCEPT !.active = TRUE, !.conn = c, !.state = "CLOSED",
              !.clean = (t.rxBuf = <<>>)]

tcbFree(t) == [t EXCEPT !.active = FALSE, !.conn = NoConn, !.state = "CLOSED"]

\* tcpTryPassiveOpen: the block of a received SYN.
PassiveInit(t, c, l, m) ==
    [tcbAlloc(t, c) EXCEPT
        !.state = "SYN_RECEIVED", !.listener = l,
        !.rcvNxt = Plus(m.seq, 1), !.rcvWnd = BufCap,
        !.sndUna = ISS, !.sndNxt = Plus(ISS, 1),
        !.sndWnd = m.win, !.sndWl1 = m.seq, !.sndWl2 = 0]

\* tcpActiveConnect: the block of a connection we open.  The listener, the
\* receive numbers and the rings keep what the slot last held.
ActiveInit(t, c) ==
    [tcbAlloc(t, c) EXCEPT
        !.state = "SYN_SENT", !.rcvWnd = BufCap,
        !.sndUna = ISS, !.sndNxt = Plus(ISS, 1)]

-----------------------------------------------------------------------------
(***************************************************************************)
(* The retransmission queue and its timer.                                  *)
(***************************************************************************)
retxPush(q, e) == IF Len(q) < RetxMax THEN Append(q, e) ELSE q

\* retxAckTo: the leading descriptors that end at or before ack go.
Acked(q, ack) ==
    {k \in 0..Len(q) : \A i \in 1..k : seqLE(q[i].endSeq, ack)}
retxAckTo(q, ack) ==
    LET k == CHOOSE k \in Acked(q, ack) : \A j \in Acked(q, ack) : j <= k
    IN SubSeq(q, k + 1, Len(q))

tcpArmRTO(t) == [t EXCEPT !.rto = TRUE, !.tries = 0]

\* Wrong: the timer stops with descriptors left.
DisarmAlways(t, ack) ==
    [t EXCEPT !.sndUna = ack, !.retxQ = retxAckTo(t.retxQ, ack), !.rto = FALSE]

\* sndUna, the queue and the timer after an ACK that advances.
AckedTo(t, ack) ==
    LET u == [t EXCEPT !.sndUna = ack, !.retxQ = retxAckTo(t.retxQ, ack)]
    IN IF u.retxQ = <<>> THEN [u EXCEPT !.rto = FALSE] ELSE tcpArmRTO(u)

\* A descriptor for n sequence numbers from sndNxt, sndNxt past them.
Account(t, n, kind) ==
    tcpArmRTO([t EXCEPT
        !.sndNxt = Plus(t.sndNxt, n),
        !.retxQ = retxPush(@, [seq |-> t.sndNxt, endSeq |-> Plus(t.sndNxt, n),
                               kind |-> kind])])

\* sndNxt back past the SYN, and its descriptor.
AccountSyn(t) ==
    tcpArmRTO([t EXCEPT
        !.sndNxt = Plus(ISS, 1),
        !.retxQ = retxPush(@, [seq |-> ISS, endSeq |-> Plus(ISS, 1),
                               kind |-> "SYN"])])

-----------------------------------------------------------------------------
(***************************************************************************)
(* Flow control.                                                            *)
(***************************************************************************)
tcpMaybeArmPersist(t) ==
    [t EXCEPT !.persist = /\ t.sndWnd = 0
                          /\ t.txBuf # <<>> \/ t.persist]

AckInRange(t, m) ==
    m.ack /\ seqLE(t.sndUna, m.ackno) /\ seqLE(m.ackno, t.sndNxt)

\* RFC 793's guard against a window from an older segment.
NewerWindow(t, m) ==
    \/ seqLT(t.sndWl1, m.seq)
    \/ t.sndWl1 = m.seq /\ seqLE(t.sndWl2, m.ackno)

tcpAckUpdate(t, m) ==
    IF ~AckInRange(t, m) THEN t
    ELSE LET u == IF t.sndUna = m.ackno THEN t ELSE AckedTo(t, m.ackno)
         IN IF NewerWindow(u, m)
            THEN tcpMaybeArmPersist([u EXCEPT !.sndWnd = m.win,
                                              !.sndWl1 = m.seq,
                                              !.sndWl2 = m.ackno])
            ELSE u

\* The result of tcpAckUpdate, which its callers read as "our FIN is ACKed".
AckOfOurFin(t, m) == AckInRange(t, m) /\ m.ackno = t.sndNxt

\* tcpAdvertiseWin.  Silly-window avoidance may announce less.
tcpAdvertiseWin(t) == t.rcvWnd

-----------------------------------------------------------------------------
(***************************************************************************)
(* The receive path.                                                        *)
(***************************************************************************)
Position(seq) == Dist(IRS, seq)

\* Wrong: rcvWnd does not shrink.
BufferedWindowKept(t, m) ==
    LET n == Min2(m.len, BufCap - Len(t.rxBuf))
    IN [t EXCEPT
          !.rxBuf = @ \o [i \in 1..n |-> <<m.conn, Position(m.seq) + i - 1>>],
          !.rcvNxt = Plus(@, n)]

\* rbWrite takes what fits; rcvNxt moves by as much and rcvWnd shrinks by it.
Buffered(t, m) ==
    LET n == Min2(m.len, BufCap - Len(t.rxBuf))   \* rbFree
    IN [t EXCEPT
          !.rxBuf = @ \o [i \in 1..n |-> <<m.conn, Position(m.seq) + i - 1>>],
          !.rcvNxt = Plus(@, n),
          !.rcvWnd = IF @ > n THEN @ - n ELSE 0]

\* Wrong: takes payload that does not continue the stream.
BufferedAnyway(t, m) == IF m.len > 0 THEN Buffered(t, m) ELSE t

\* tcpHandleFinWait1 and 2 take payload that continues the stream.
BufferedInOrder(t, m) ==
    IF m.seq = t.rcvNxt /\ m.len > 0 THEN Buffered(t, m) ELSE t

\* Wrong: no limit on the window.
DrainedUncapped(t, n) ==
    [t EXCEPT !.rxBuf = SubSeq(@, n + 1, Len(@)), !.rcvWnd = @ + n]

\* rbRead of n bytes, with the window they free.
Drained(t, n) ==
    [t EXCEPT !.rxBuf = SubSeq(@, n + 1, Len(@)),
              !.rcvWnd = Min2(@ + n, BufCap)]

tcpIsDuplicateACK(t, m) ==
    /\ m.ack /\ ~m.syn /\ ~m.fin /\ m.len = 0
    /\ m.ackno = t.sndUna /\ m.win = t.sndWnd /\ t.sndUna # t.sndNxt

\* The third duplicate ACK makes the scanner retransmit.
FastRetransmit(t) == [t EXCEPT !.rto = TRUE, !.tries = 0]

\* Wrong: a FIN beyond missing bytes counts.
FinAnywhere(t, m) == m.fin

\* A FIN that is the next number of the stream.
FinTaken(t, m) == m.fin /\ Plus(m.seq, m.len) = t.rcvNxt
PastFin(t) == [t EXCEPT !.rcvNxt = Plus(@, 1)]

-----------------------------------------------------------------------------
(***************************************************************************)
(* The state handlers: the set of outcomes for block t and segment m.       *)
(***************************************************************************)
\* Wrong: no test of m.seq.
EstablishedAnyOrder(t, m) ==
    {IF m.fin THEN [PastFin(u) EXCEPT !.state = "CLOSE_WAIT"] ELSE u :
        u \in {BufferedAnyway(tcpAckUpdate(t, m), m)}}

tcpHandleEstablished(t, m) ==
    IF m.seq # t.rcvNxt THEN {t}
    ELSE {IF m.fin THEN [PastFin(u) EXCEPT !.state = "CLOSE_WAIT"] ELSE u :
            u \in {Buffered(v, m) :
                     v \in IF tcpIsDuplicateACK(t, m) THEN {t, FastRetransmit(t)}
                           ELSE {tcpAckUpdate(t, m)}}}

\* The handshake's ACK; payload or FIN with it goes on to ESTABLISHED.
tcpHandleSynReceived(t, m) ==
    IF ~m.ack \/ m.ackno # t.sndNxt THEN {t}
    ELSE LET u == [AckedTo(t, m.ackno) EXCEPT
                      !.state = "ESTABLISHED", !.sndWnd = m.win,
                      !.sndWl1 = m.seq, !.sndWl2 = m.ackno]
         IN IF m.len > 0 \/ m.fin THEN tcpHandleEstablished(u, m) ELSE {u}

SynAckUnacceptable(t, m) ==
    m.ack /\ ~(seqLE(Plus(t.sndUna, 1), m.ackno) /\ seqLE(m.ackno, t.sndNxt))

\* The answers that do not match are met with a RST or dropped.
tcpHandleSynSent(t, m) ==
    IF SynAckUnacceptable(t, m) THEN {t}
    ELSE IF m.rst \/ (m.syn /\ ~m.ack) THEN {tcbFree(t)}
    ELSE IF ~(m.syn /\ m.ack) THEN {t}
    ELSE LET u == [AckedTo(t, m.ackno) EXCEPT
                      !.state = "ESTABLISHED", !.rcvNxt = Plus(m.seq, 1),
                      !.sndWnd = m.win, !.sndWl1 = m.seq, !.sndWl2 = m.ackno]
         IN IF m.len > 0 \/ m.fin THEN tcpHandleEstablished(u, m) ELSE {u}

tcpHandleFinWait1(t, m) ==
    LET u == tcpAckUpdate(BufferedInOrder(t, m), m)
        acked == AckOfOurFin(BufferedInOrder(t, m), m)
        fin == FinTaken(u, m)
        v == IF fin THEN PastFin(u) ELSE u
    IN {[v EXCEPT !.state = CASE acked /\ fin  -> "TIME_WAIT"
                              [] acked /\ ~fin -> "FIN_WAIT_2"
                              [] ~acked /\ fin -> "CLOSING"
                              [] OTHER         -> v.state]}

tcpHandleFinWait2(t, m) ==
    LET u == BufferedInOrder(tcpAckUpdate(t, m), m)
    IN {IF FinTaken(u, m) THEN [PastFin(u) EXCEPT !.state = "TIME_WAIT"] ELSE u}

tcpHandleClosing(t, m) ==
    LET u == tcpAckUpdate(t, m)
    IN {IF AckOfOurFin(t, m) THEN [u EXCEPT !.state = "TIME_WAIT"] ELSE u}

tcpHandleLastAck(t, m) ==
    {IF m.ack /\ m.ackno = t.sndNxt THEN tcbFree(t) ELSE t}

\* CLOSE_WAIT and TIME_WAIT only ACK a FIN again.
Handled(h, t, m) ==
    CASE h = "SYN_SENT"     -> tcpHandleSynSent(t, m)
      [] h = "SYN_RECEIVED" -> tcpHandleSynReceived(t, m)
      [] h = "ESTABLISHED"  -> tcpHandleEstablished(t, m)
      [] h = "FIN_WAIT_1"   -> tcpHandleFinWait1(t, m)
      [] h = "FIN_WAIT_2"   -> tcpHandleFinWait2(t, m)
      [] h = "CLOSING"      -> tcpHandleClosing(t, m)
      [] h = "LAST_ACK"     -> tcpHandleLastAck(t, m)
      [] OTHER              -> {t}

\* tcpDispatchToTCB's window test of a RST.
ResetInWindow(t, m) ==
    /\ seqLE(t.rcvNxt, m.seq)
    /\ seqLT(m.seq, Plus(t.rcvNxt, t.rcvWnd + 1))
=============================================================================
