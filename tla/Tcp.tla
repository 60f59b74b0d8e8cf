-------------------------------- MODULE Tcp --------------------------------
(***************************************************************************)
(* The TCP stack: the block table, the listeners, the socket system calls,  *)
(* the segment handler of netRxLoop, the timer scanner and the kernel echo  *)
(* server, against peers behind a network that loses, repeats, delays and   *)
(* reorders segments.                                                       *)
(*                                                                          *)
(* netRxLoop, the scanner and the echo server are BSP threads, which give   *)
(* way to one another only when they park (the next hop's address is taken  *)
(* to be in the ARP cache); system calls run on the APs at any time.  A     *)
(* step is a critical section together with the send that follows it.       *)
(***************************************************************************)
EXTENDS TcpBlock

CONSTANTS
    Slots,         \* tcbTable, 1..tcbMax
    Listeners,     \* tcpListeners; 1 is the echo server's
    Depth,         \* tcpAcceptQueueDepth
    MaxRetx,       \* tcpMaxRetransmits
    Users,         \* processes
    UserConns,     \* peers that connect to the processes' port
    EchoConns,     \* peers that connect to port 8080
    ActiveConns,   \* peers the processes connect to
    PeerBytes,     \* how many bytes each peer sends before its FIN
    Wins,          \* windows each peer advertises
    Scenes,        \* bound: the sets of processes and peers that meet
    MaxOpens,      \* bound: SYNs of a peer that open a block for a process
    MaxSeq         \* bound: sequence numbers a process sends on a connection

Conns == UserConns \cup EchoConns \cup ActiveConns

ASSUME TableAssumption ==
    /\ Slots \subseteq Nat \ {0} /\ Listeners \subseteq Nat \ {0}
    /\ Depth \in Nat /\ MaxRetx \in Nat /\ PeerBytes \in [Conns -> Nat]
    /\ NoConn \notin Conns

VARIABLES
    tcb,        \* tcbTable
    lst,        \* tcpListeners
    rx,         \* where netRxLoop is, the block and handler of the segment in hand
    scan,       \* the expired deadlines the scanner has yet to fire
    saved,      \* the block whose sndNxt a SYN retransmission rolled back
    upc, reg,   \* where each process is in its system call, and its locals
    lsock,      \* its listening socket: a listener or 0
    csock,      \* its connection socket: a block or 0
    wrote,      \* bytes written per connection
    peer,       \* per connection: its SYNs taken, numbers received from us, the
                \* byte stream
    present     \* the processes and peers of this behaviour

vars == <<tcb, lst, rx, scan, saved, upc, reg, lsock, csock, wrote, peer, present>>

RxIdle == [pc |-> "idle"]
NoReg == [slot |-> 0, n |-> 0, ret |-> "user", ok |-> TRUE, list |-> <<>>]
NoListener == [active |-> FALSE, port |-> "none", pending |-> <<>>, accept |-> <<>>]

\* tcpInit has registered the echo listener.
Init ==
    /\ tcb = [s \in Slots |-> ZeroTCB]
    /\ lst = [l \in Listeners |-> IF l = 1
                THEN [NoListener EXCEPT !.active = TRUE, !.port = "echo"]
                ELSE NoListener]
    /\ rx = RxIdle /\ scan = {} /\ saved = <<>>
    /\ upc = [u \in Users |-> "user"] /\ reg = [u \in Users |-> NoReg]
    /\ lsock = [u \in Users |-> 0] /\ csock = [u \in Users |-> 0]
    /\ wrote = [c \in Conns |-> 0]
    /\ peer = [c \in Conns |-> [syns |-> 0, got |-> 0, stream |-> <<>>]]
    /\ present \in Scenes

\* No BSP thread is in the middle of something.
BSPIdle == rx.pc = "idle" /\ scan = {} /\ saved = <<>>

Lowest(S) == CHOOSE i \in S : \A j \in S : i <= j
tcbLookup(c) == {s \in Slots : tcb[s].active /\ tcb[s].conn = c}
FreeSlots == {s \in Slots : ~tcb[s].active}
Port(c) == IF c \in EchoConns THEN "echo" ELSE "user"
tcpListenerLookup(p) == {l \in Listeners : lst[l].active /\ lst[l].port = p}

-----------------------------------------------------------------------------
(***************************************************************************)
(* The network.  A peer answers what it has received, and anything it may   *)
(* have sent so far can arrive at any time, again or never.  It cuts its    *)
(* stream into segments as it likes and need not keep to the window: a      *)
(* probe of a closed window carries a byte too.                             *)
(***************************************************************************)
Seg(c, f, i, k, n, w) ==
    [conn |-> c, syn |-> f.syn, ack |-> f.ack, fin |-> f.fin, rst |-> f.rst,
     seq |-> Plus(IRS, i), ackno |-> Plus(ISS, k), len |-> n, win |-> w]

SynSegs(c, got) ==
    IF c \notin ActiveConns
    THEN {Seg(c, [NoFlags EXCEPT !.syn = TRUE], 0, 0, 0, w) : w \in Wins[c]}
    ELSE IF got = 0 THEN {}
    ELSE {Seg(c, [NoFlags EXCEPT !.syn = TRUE, !.ack = TRUE], 0, 1, 0, w) : w \in Wins[c]}

\* Any piece of the stream, the FIN after the last byte, pure ACKs.
DataSegs(c, got) ==
    {Seg(c, [NoFlags EXCEPT !.ack = TRUE, !.fin = d.fin], d.i, d.k, d.n, d.w) :
        d \in {d \in [i : 1..(PeerBytes[c] + 2), k : 1..got, n : 0..PeerBytes[c],
                      w : Wins[c], fin : BOOLEAN] :
                /\ d.n > 0 => d.i + d.n <= PeerBytes[c] + 1
                /\ d.fin => d.i + d.n = PeerBytes[c] + 1}}

RstSegs(c, got) ==
    {Seg(c, [NoFlags EXCEPT !.rst = TRUE, !.ack = TRUE], i, k, 0, 0) :
        i \in {0, 1, PeerBytes[c] + 2}, k \in 1..got}

\* What can arrive from c when the peer has received got sequence numbers.
Segs(c, got) == SynSegs(c, got) \cup DataSegs(c, got) \cup RstSegs(c, got)

\* What tcpSendSegment(t) carrying n sequence numbers and data does to the
\* peer when it arrives.
Arrived(t, n, data) ==
    IF t.conn = NoConn \/ t.sndNxt # Plus(ISS, peer[t.conn].got) THEN peer
    ELSE [peer EXCEPT ![t.conn].got = @ + n, ![t.conn].stream = @ \o data]

tcpSendSegment(t, n, data) == peer' \in {peer, Arrived(t, n, data)}

Set(s, t) == tcb' = [tcb EXCEPT ![s] = t]

-----------------------------------------------------------------------------
(***************************************************************************)
(* netRxLoop in tcpHandle.                                                  *)
(***************************************************************************)
otherThanRx == <<scan, saved, upc, reg, lsock, csock, wrote, present>>

RxReset ==
    \E c \in Conns \cap present : \E m \in RstSegs(c, peer[c].got) :
        /\ BSPIdle /\ tcbLookup(c) # {}
        /\ LET s == Lowest(tcbLookup(c)) IN
           /\ tcb[s].state # "SYN_SENT" /\ ResetInWindow(tcb[s], m)
           /\ Set(s, tcbFree(tcb[s]))
        /\ UNCHANGED <<lst, rx, peer, otherThanRx>>

\* tcpDispatchToTCB chooses the handler from a state it reads unlocked.  The
\* segment in hand is one of those that could have arrived by then.
RxDispatch ==
    \E c \in Conns \cap present :
        /\ BSPIdle /\ tcbLookup(c) # {} /\ Segs(c, peer[c].got) # {}
        /\ LET s == Lowest(tcbLookup(c)) IN
           rx' = [pc |-> "handle", slot |-> s, h |-> tcb[s].state, conn |-> c,
                  seen |-> peer[c].got]
        /\ UNCHANGED <<tcb, lst, peer, otherThanRx>>

Queued(q, s) == \E i \in 1..Len(q) : q[i] = s

\* A queue with what follows the first s in it shifted left.
ShiftLeft(q, s) ==
    LET idx == CHOOSE i \in 1..Len(q) : q[i] = s /\ \A j \in 1..(i - 1) : q[j] # s
    IN [i \in 1..(Len(q) - 1) |-> IF i < idx THEN q[i] ELSE q[i + 1]]

\* tcpListenerPromote.
Promoted(l, s) ==
    IF l = 0 THEN lst
    ELSE IF ~Queued(lst[l].pending, s) THEN lst
    ELSE [lst EXCEPT ![l].pending = ShiftLeft(@, s),
                     ![l].accept = IF Len(@) < Depth THEN Append(@, s) ELSE @]

\* tcpListenerRemove.
Removed(l, s) ==
    IF Queued(lst[l].pending, s) THEN [lst EXCEPT ![l].pending = ShiftLeft(@, s)]
    ELSE IF Queued(lst[l].accept, s) THEN [lst EXCEPT ![l].accept = ShiftLeft(@, s)]
    ELSE lst

\* The handler runs, whatever the state is by now.  The ACKs it answers with
\* change nothing here: a peer sends what it likes whatever was acknowledged.
RxHandle ==
    /\ rx.pc = "handle"
    /\ LET s == rx.slot t == tcb[rx.slot] IN
       \E m \in Segs(rx.conn, rx.seen) : \E u \in Handled(rx.h, t, m) :
          /\ m.rst => rx.h = "SYN_SENT"
          /\ Set(s, u)
          /\ lst' = IF rx.h = "SYN_RECEIVED" /\ m.ack /\ m.ackno = t.sndNxt
                    THEN Promoted(t.listener, s) ELSE lst
    /\ rx' = RxIdle
    /\ UNCHANGED <<peer, otherThanRx>>

\* tcpTryPassiveOpen up to the initialised block.  Without a listener, room
\* in its queues or a free slot the SYN is answered by a RST.  An old SYN that
\* arrives again once its block is gone opens another.
RxPassiveOpen ==
    \E c \in (UserConns \cup EchoConns) \cap present : \E m \in SynSegs(c, peer[c].got) :
        /\ BSPIdle /\ tcbLookup(c) = {}
        /\ c \in UserConns => peer[c].syns < MaxOpens
        /\ tcpListenerLookup(Port(c)) # {} /\ FreeSlots # {}
        /\ LET l == Lowest(tcpListenerLookup(Port(c)))
               s == Lowest(FreeSlots)
           IN /\ Len(lst[l].pending) + Len(lst[l].accept) < Depth
              /\ Set(s, PassiveInit(tcb[s], c, l, m))
              /\ rx' = [pc |-> "passive", slot |-> s, l |-> l]
        /\ peer' = [peer EXCEPT ![c].syns = IF c \in UserConns THEN @ + 1 ELSE @]
        /\ UNCHANGED <<lst, otherThanRx>>

\* Onto the pending queue; sndNxt goes back to iss for the SYN|ACK.
RxPassiveSend ==
    /\ rx.pc = "passive"
    /\ LET s == rx.slot l == rx.l t == [tcb[s] EXCEPT !.sndNxt = ISS] IN
       IF Len(lst[l].pending) + Len(lst[l].accept) >= Depth
       THEN Set(s, tcbFree(tcb[s])) /\ rx' = RxIdle /\ UNCHANGED <<lst, peer>>
       ELSE /\ lst' = [lst EXCEPT ![l].pending = Append(@, s)]
            /\ Set(s, t)
            /\ \E ok \in BOOLEAN :
                  /\ rx' = [rx EXCEPT !.pc = IF ok THEN "arm" ELSE "unwind"]
                  /\ IF ok THEN tcpSendSegment(t, 1, <<>>) ELSE UNCHANGED peer
    /\ UNCHANGED otherThanRx

RxPassiveArm ==
    /\ rx.pc = "arm"
    /\ Set(rx.slot, AccountSyn(tcb[rx.slot]))
    /\ rx' = RxIdle
    /\ UNCHANGED <<lst, peer, otherThanRx>>

RxPassiveUnwind ==
    /\ rx.pc = "unwind"
    /\ Set(rx.slot, tcbFree([tcb[rx.slot] EXCEPT !.sndNxt = Plus(ISS, 1)]))
    /\ lst' = Removed(rx.l, rx.slot)
    /\ rx' = RxIdle
    /\ UNCHANGED <<peer, otherThanRx>>

-----------------------------------------------------------------------------
(***************************************************************************)
(* The timer scanner.                                                       *)
(***************************************************************************)
otherThanScan == <<lst, rx, upc, reg, lsock, csock, wrote, present>>

Expirable(s) ==
    {k \in {"rto", "persist", "tw"} :
        /\ tcb[s].active
        /\ k = "rto" => tcb[s].rto
        /\ k = "persist" => tcb[s].persist
        /\ k = "tw" => tcb[s].state = "TIME_WAIT"}

\* tcpRTOScanPass collects the deadlines that have passed ...
ScanPass(s, k) ==
    /\ BSPIdle /\ k \in Expirable(s)
    /\ \E F \in SUBSET {x \in Slots \X {"rto", "persist", "tw"} : x[2] \in Expirable(x[1])} :
          <<s, k>> \in F /\ scan' = F
    /\ UNCHANGED <<tcb, saved, peer, otherThanScan>>

\* ... and fires them block by block.
Turn(s, k) ==
    /\ <<s, k>> \in scan /\ saved = <<>>
    /\ \A t \in Slots, j \in {"rto", "persist", "tw"} : <<t, j>> \in scan => s <= t
    /\ k = "persist" => <<s, "rto">> \notin scan
    /\ k = "tw" => {<<s, "rto">>, <<s, "persist">>} \cap scan = {}
    /\ scan' = scan \ {<<s, k>>}

\* Wrong: retransmits for ever.
NeverAbandoned(t) == FALSE

Abandoned(t) == t.tries >= MaxRetx

\* tcpRTOFire: give up, or send the head of the queue again.  A SYN goes out
\* with sndNxt rolled back; data is not sent again.
tcpRTOFire(s) ==
    LET t == tcb[s]
        again == [t EXCEPT !.tries = Min2(@ + 1, MaxRetx)]
    IN /\ Turn(s, "rto")
       /\ \/ /\ ~t.active \/ ~t.rto
             /\ UNCHANGED <<tcb, saved, peer>>
          \/ /\ t.active /\ t.rto /\ Abandoned(t)
             /\ Set(s, tcbFree([t EXCEPT !.rto = FALSE, !.retxQ = <<>>]))
             /\ UNCHANGED <<saved, peer>>
          \/ /\ t.active /\ t.rto /\ ~Abandoned(t) /\ t.retxQ = <<>>
             /\ Set(s, [t EXCEPT !.rto = FALSE])
             /\ UNCHANGED <<saved, peer>>
          \/ /\ t.active /\ t.rto /\ ~Abandoned(t) /\ t.retxQ # <<>>
             /\ CASE t.retxQ[1].kind = "SYN" ->
                       LET r == [again EXCEPT !.sndNxt = t.retxQ[1].seq] IN
                       /\ Set(s, r) /\ saved' = <<s, t.sndNxt>>
                       /\ tcpSendSegment(r, 1, <<>>)
                  [] t.retxQ[1].kind = "FIN" ->
                       /\ Set(s, again) /\ UNCHANGED saved
                       /\ tcpSendSegment(again, 1, <<>>)
                  [] OTHER -> Set(s, again) /\ UNCHANGED <<saved, peer>>
       /\ UNCHANGED otherThanScan

ScanRestore ==
    /\ saved # <<>>
    /\ Set(saved[1], [tcb[saved[1]] EXCEPT !.sndNxt = saved[2]])
    /\ saved' = <<>>
    /\ UNCHANGED <<scan, peer, otherThanScan>>

\* tcpPersistFire: a one-byte probe that sndNxt does not account for.
tcpPersistFire(s) ==
    LET t == tcb[s] IN
    /\ Turn(s, "persist")
    /\ IF t.active /\ t.persist /\ t.txBuf # <<>> /\ t.sndWnd = 0
       THEN tcpSendSegment(t, 1, <<t.txBuf[1]>>) /\ UNCHANGED tcb
       ELSE /\ Set(s, [t EXCEPT !.persist = @ /\ ~t.active])
            /\ UNCHANGED peer
    /\ UNCHANGED <<saved, otherThanScan>>

\* The end of TIME_WAIT, on the state the pass saw.
TimeWaitFree(s) ==
    /\ Turn(s, "tw")
    /\ Set(s, tcbFree(tcb[s]))
    /\ UNCHANGED <<saved, peer, otherThanScan>>

-----------------------------------------------------------------------------
(***************************************************************************)
(* The echo server, which serves every block of port 8080.                  *)
(***************************************************************************)
otherThanEcho == <<lst, rx, scan, saved, upc, reg, lsock, csock, wrote, present>>

\* Bytes received go back in a segment no descriptor is kept for.
EchoServe(s) ==
    LET t == tcb[s] IN
    /\ BSPIdle /\ t.active /\ t.conn \in EchoConns /\ t.state = "ESTABLISHED"
    /\ \E n \in 1..Len(t.rxBuf), ok \in BOOLEAN :
          /\ Set(s, [Drained(t, n) EXCEPT !.sndNxt = IF ok THEN Plus(@, n) ELSE @])
          /\ IF ok THEN tcpSendSegment(Drained(t, n), n, SubSeq(t.rxBuf, 1, n))
                   ELSE UNCHANGED peer
    /\ UNCHANGED otherThanEcho

\* So does the FIN once the peer has closed and all is echoed.
EchoClose(s) ==
    LET t == tcb[s] IN
    /\ BSPIdle /\ t.active /\ t.conn \in EchoConns
    /\ t.state = "CLOSE_WAIT" /\ t.rxBuf = <<>>
    /\ tcpSendSegment(t, 1, <<>>)
    /\ Set(s, [t EXCEPT !.sndNxt = Plus(@, 1), !.state = "LAST_ACK"])
    /\ UNCHANGED otherThanEcho

-----------------------------------------------------------------------------
(***************************************************************************)
(* The system calls of process u.                                           *)
(***************************************************************************)
otherThanUser == <<rx, scan, saved, present>>
Idle(u) == upc[u] = "user"
Goto(u, p, r) ==
    /\ upc' = [upc EXCEPT ![u] = p]
    /\ reg' = [reg EXCEPT ![u] = IF p = "user" THEN NoReg ELSE r]
Return(u) == Goto(u, "user", NoReg)

\* A deadline armed anew has not passed when the scanner comes to it.
Rearm(s) == scan' = scan \ {<<s, "rto">>}

\* Wrong: a connection still in its handshake is closed like an open one.
ClosableEarly(t) == t.state \in {"SYN_RECEIVED", "ESTABLISHED", "CLOSE_WAIT"}

\* tcpClose's first critical section; the FIN follows in CloseSend.
Closable(t) == t.state \in {"ESTABLISHED", "CLOSE_WAIT"}
Marked(t) ==
    [t EXCEPT !.state = IF @ = "ESTABLISHED" THEN "FIN_WAIT_1" ELSE "LAST_ACK"]

\* tcpClose(s), after which process u goes on at ret.
tcpClose(u, s, ret) ==
    IF Closable(tcb[s])
    THEN Set(s, Marked(tcb[s])) /\ Goto(u, "fin", [NoReg EXCEPT !.slot = s, !.ret = ret])
    ELSE UNCHANGED tcb /\ Goto(u, ret, [NoReg EXCEPT !.slot = s])

CloseSend(u) ==
    /\ upc[u] = "fin"
    /\ \E ok \in BOOLEAN :
          IF ok THEN /\ tcpSendSegment(tcb[reg[u].slot], 1, <<>>)
                     /\ Goto(u, "finacct", reg[u])
                ELSE Goto(u, reg[u].ret, reg[u]) /\ UNCHANGED peer
    /\ UNCHANGED <<tcb, lst, lsock, csock, wrote, otherThanUser>>

CloseAccount(u) ==
    /\ upc[u] = "finacct"
    /\ Set(reg[u].slot, Account(tcb[reg[u].slot], 1, "FIN"))
    /\ Goto(u, reg[u].ret, reg[u])
    /\ Rearm(reg[u].slot)
    /\ UNCHANGED <<lst, lsock, csock, wrote, peer, rx, saved, present>>

\* The first free entry, unless the port is taken.
tcpListenerAlloc(p) ==
    {l \in Listeners : /\ tcpListenerLookup(p) = {}
                       /\ ~lst[l].active
                       /\ \A k \in Listeners : k < l => lst[k].active}

\* sys_bind and sys_listen.
Listen(u) ==
    /\ Idle(u) /\ lsock[u] = 0 /\ UserConns \cap present # {}
    /\ \E l \in tcpListenerAlloc("user") :
          /\ lst' = [lst EXCEPT ![l] = [NoListener EXCEPT !.active = TRUE, !.port = "user"]]
          /\ lsock' = [lsock EXCEPT ![u] = l]
    /\ UNCHANGED <<tcb, upc, reg, csock, wrote, peer, otherThanUser>>

\* sys_accept; without a free descriptor the connection is closed again.
Accept(u) ==
    LET l == lsock[u] IN
    /\ Idle(u) /\ l # 0 /\ csock[u] = 0
    /\ lst[l].accept # <<>>
    /\ lst' = [lst EXCEPT ![l].accept = Tail(@)]
    /\ \/ csock' = [csock EXCEPT ![u] = Head(lst[l].accept)] /\ UNCHANGED <<tcb, upc, reg>>
       \/ tcpClose(u, Head(lst[l].accept), "user") /\ UNCHANGED csock
    /\ UNCHANGED <<lsock, wrote, peer, otherThanUser>>

\* Closing a listening socket drains its queues and closes what they held.
CloseListener(u) ==
    LET l == lsock[u] IN
    /\ Idle(u) /\ l # 0
    /\ Goto(u, "lclose", [NoReg EXCEPT !.list = lst[l].pending \o lst[l].accept])
    /\ lst' = [lst EXCEPT ![l] = [@ EXCEPT !.active = FALSE, !.pending = <<>>, !.accept = <<>>]]
    /\ lsock' = [lsock EXCEPT ![u] = 0]
    /\ UNCHANGED <<tcb, csock, wrote, peer, otherThanUser>>

LCloseNext(u) ==
    /\ upc[u] = "lclose"
    /\ IF reg[u].list = <<>> THEN Return(u) /\ UNCHANGED tcb
       ELSE LET s == Head(reg[u].list)
                t == [tcb[s] EXCEPT !.listener = 0]
            IN /\ Set(s, IF Closable(t) THEN Marked(t) ELSE t)
               /\ Goto(u, IF Closable(t) THEN "fin" ELSE "lcheck",
                        [reg[u] EXCEPT !.slot = s, !.ret = "lcheck", !.list = Tail(@)])
    /\ UNCHANGED <<lst, lsock, csock, wrote, peer, otherThanUser>>

LCheck(u) ==
    /\ upc[u] = "lcheck" /\ Goto(u, "lclose", reg[u])
    /\ LET s == reg[u].slot IN
       Set(s, IF tcb[s].state = "SYN_RECEIVED" THEN tcbFree(tcb[s]) ELSE tcb[s])
    /\ UNCHANGED <<lst, lsock, csock, wrote, peer, otherThanUser>>

\* sys_connect: tcpActiveConnect, then wait for the handshake.
Connect(u) ==
    \E c \in ActiveConns \cap present :
        /\ Idle(u) /\ csock[u] = 0 /\ peer[c].got = 0
        /\ tcbLookup(c) = {} /\ FreeSlots # {}
        /\ LET s == Lowest(FreeSlots) IN
           Set(s, ActiveInit(tcb[s], c)) /\ Goto(u, "syn", [NoReg EXCEPT !.slot = s])
        /\ UNCHANGED <<lst, lsock, csock, wrote, peer, otherThanUser>>

ConnectSend(u) ==
    LET s == reg[u].slot t == [tcb[s] EXCEPT !.sndNxt = ISS] IN
    /\ upc[u] = "syn" /\ Set(s, t)
    /\ \E ok \in BOOLEAN :
          /\ Goto(u, "synacct", [reg[u] EXCEPT !.ok = ok])
          /\ IF ok THEN tcpSendSegment(t, 1, <<>>) ELSE UNCHANGED peer
    /\ UNCHANGED <<lst, lsock, csock, wrote, otherThanUser>>

ConnectArm(u) ==
    LET s == reg[u].slot IN
    /\ upc[u] = "synacct"
    /\ IF reg[u].ok
       THEN Set(s, AccountSyn(tcb[s])) /\ Goto(u, "connwait", reg[u]) /\ Rearm(s)
       ELSE Set(s, tcbFree([tcb[s] EXCEPT !.sndNxt = Plus(ISS, 1)])) /\ Return(u)
            /\ UNCHANGED scan
    /\ UNCHANGED <<lst, lsock, csock, wrote, peer, rx, saved, present>>

\* The polling loop: connected, refused or out of time.
ConnectWait(u) ==
    LET s == reg[u].slot IN
    /\ upc[u] = "connwait"
    /\ \/ /\ tcb[s].state = "ESTABLISHED"
          /\ csock' = [csock EXCEPT ![u] = s] /\ Return(u) /\ UNCHANGED tcb
       \/ /\ tcb[s].state = "CLOSED" \/ ~tcb[s].active
          /\ Return(u) /\ UNCHANGED <<tcb, csock>>
       \/ /\ tcb[s].state \notin {"ESTABLISHED", "CLOSED"}
          /\ tcpClose(u, s, "user") /\ UNCHANGED csock
    /\ UNCHANGED <<lst, lsock, wrote, peer, otherThanUser>>

\* sys_tcp_send: one more byte into txBuf if it has room, then drain it.
SendCall(u) ==
    LET s == csock[u] t == tcb[s] IN
    /\ Idle(u) /\ s # 0
    /\ t.active /\ t.state = "ESTABLISHED" /\ Dist(ISS, t.sndNxt) < MaxSeq
    /\ IF Len(t.txBuf) = BufCap THEN UNCHANGED <<tcb, wrote>>
       ELSE /\ Set(s, [t EXCEPT !.txBuf = Append(@, <<t.conn, wrote[t.conn] + 1>>)])
            /\ wrote' = [wrote EXCEPT ![t.conn] = @ + 1]
    /\ Goto(u, "drain", [NoReg EXCEPT !.slot = s])
    /\ UNCHANGED <<lst, lsock, csock, peer, otherThanUser>>

\* The congestion window and the segment size cut a send to any length.
SegmentLengths(most) == 1..most

\* tcpTCBDrainTX: bytes of txBuf from offset "flight" on.
DrainSend(u) ==
    LET t == tcb[reg[u].slot]
        flight == Dist(t.sndUna, t.sndNxt)
        most == Min2(t.sndWnd, Len(t.txBuf)) - flight
    IN
    /\ upc[u] = "drain"
    /\ \/ Return(u) /\ UNCHANGED peer
       \/ /\ t.active /\ t.state = "ESTABLISHED"
          /\ Dist(ISS, t.sndNxt) < MaxSeq
          /\ \E n \in SegmentLengths(most) :
                /\ Goto(u, "drainacct", [reg[u] EXCEPT !.n = n])
                /\ tcpSendSegment(t, n, SubSeq(t.txBuf, flight + 1, flight + n))
    /\ UNCHANGED <<tcb, lst, lsock, csock, wrote, otherThanUser>>

DrainAccount(u) ==
    /\ upc[u] = "drainacct" /\ Goto(u, "drain", [reg[u] EXCEPT !.n = 0])
    /\ Set(reg[u].slot, Account(tcb[reg[u].slot], reg[u].n, "DATA"))
    /\ Rearm(reg[u].slot)
    /\ UNCHANGED <<lst, lsock, csock, wrote, peer, rx, saved, present>>

\* sys_tcp_recv with bytes buffered.
Recv(u) ==
    LET s == csock[u] IN
    /\ Idle(u) /\ s # 0 /\ tcb[s].active
    /\ \E n \in 1..Len(tcb[s].rxBuf) : Set(s, Drained(tcb[s], n))
    /\ UNCHANGED <<lst, upc, reg, lsock, csock, wrote, peer, otherThanUser>>

\* sys_shutdown; SHUT_RDWR empties rxBuf afterwards.
Shutdown(u) ==
    /\ Idle(u) /\ csock[u] # 0
    /\ \E ret \in {"user", "reset"} : tcpClose(u, csock[u], ret)
    /\ UNCHANGED <<lst, lsock, csock, wrote, peer, otherThanUser>>

ResetRx(u) ==
    /\ upc[u] = "reset" /\ Return(u)
    /\ Set(reg[u].slot, [tcb[reg[u].slot] EXCEPT !.rxBuf = <<>>])
    /\ UNCHANGED <<lst, lsock, csock, wrote, peer, otherThanUser>>

\* Close of a connection socket.
Close(u) ==
    /\ Idle(u) /\ csock[u] # 0
    /\ tcpClose(u, csock[u], "user")
    /\ csock' = [csock EXCEPT ![u] = 0]
    /\ UNCHANGED <<lst, lsock, wrote, peer, otherThanUser>>

-----------------------------------------------------------------------------
Rx == RxHandle \/ RxPassiveSend \/ RxPassiveArm \/ RxPassiveUnwind
Arrival == RxReset \/ RxDispatch \/ RxPassiveOpen

ScanFire(s) == tcpRTOFire(s) \/ tcpPersistFire(s) \/ TimeWaitFree(s)
Scan == ScanRestore \/ \E s \in Slots : ScanFire(s)

Echo == \E s \in Slots : EchoServe(s) \/ EchoClose(s)

Inside(u) ==
    \/ CloseSend(u) \/ CloseAccount(u) \/ LCloseNext(u) \/ LCheck(u)
    \/ ConnectSend(u) \/ ConnectArm(u) \/ ConnectWait(u)
    \/ DrainSend(u) \/ DrainAccount(u) \/ ResetRx(u)

Call(u) ==
    \/ Listen(u) \/ Accept(u) \/ CloseListener(u) \/ Connect(u)
    \/ SendCall(u) \/ Recv(u) \/ Shutdown(u) \/ Close(u)

Next ==
    \/ Rx \/ Arrival \/ Scan \/ Echo
    \/ \E s \in Slots, k \in {"rto", "persist", "tw"} : ScanPass(s, k)
    \/ \E u \in Users \cap present : Inside(u) \/ Call(u)

Spec == Init /\ [][Next]_vars

\* netRxLoop and the scanner get to the end of a segment and of a pass, and a
\* process to the end of a system call: each has a step it can take until then.
\* The scanner is woken every tick and netRxLoop parks whenever the receive
\* ring is empty, so an armed timer is served however many segments arrive.
\* Peers and processes owe nothing.
Fairness ==
    /\ []<>BSPIdle
    /\ \A u \in Users : []<>Idle(u)
    /\ \A s \in Slots : SF_vars(ScanPass(s, "rto"))

LiveSpec == Spec /\ Fairness

-----------------------------------------------------------------------------
States == {"CLOSED", "SYN_SENT", "SYN_RECEIVED", "ESTABLISHED", "FIN_WAIT_1",
           "FIN_WAIT_2", "CLOSE_WAIT", "CLOSING", "LAST_ACK", "TIME_WAIT"}

\* Type invariant: a block is in use exactly when it has a connection, and
\* its state, window and queues are within bounds (TCB, tcpListener).
TypeOK ==
    /\ \A s \in Slots :
          /\ tcb[s].state \in States /\ tcb[s].conn \in Conns \cup {NoConn}
          /\ tcb[s].active <=> tcb[s].conn # NoConn
          /\ tcb[s].rcvWnd \in 0..BufCap
          /\ Len(tcb[s].rxBuf) <= BufCap /\ Len(tcb[s].txBuf) <= BufCap
          /\ Len(tcb[s].retxQ) <= RetxMax /\ tcb[s].tries \in 0..MaxRetx
    /\ \A l \in Listeners :
          Len(lst[l].pending) + Len(lst[l].accept) <= Depth

FinSeen(t) == t.state \in {"CLOSE_WAIT", "LAST_ACK", "CLOSING", "TIME_WAIT"}

\* The receive ring of block s holds consecutive bytes of its peer's stream,
\* and the last of them is the one before rcvNxt.
InOrder(s) ==
    LET t == tcb[s] n == Len(tcb[s].rxBuf) IN
    t.active /\ t.clean /\ n > 0 =>
        /\ \A i \in 1..n : t.rxBuf[i] = <<t.conn, t.rxBuf[n][2] - n + i>>
        /\ ~FinSeen(t) => Position(t.rcvNxt) = t.rxBuf[n][2] + 1

\* Whatever the network does, a connection that a peer opened receives the
\* peer's stream in order (if its slot started with an empty ring): netRxLoop
\* opened its block, so no segment was then in hand for the slot's last owner.
RxInOrder == \A s \in Slots : tcb[s].conn \notin ActiveConns => InOrder(s)

\* So does every connection, those that processes open included, as it would
\* if each handler checked the block again under its lock (tcp.go:664-669).
EveryRxInOrder == \A s \in Slots : InOrder(s)

\* A connection that closed first and has then taken the peer's FIN has taken
\* every byte before it, more than its ring had room for or not (if a peer
\* opened it and its slot started with an empty ring).
FinMeansComplete ==
    \A s \in Slots :
        /\ tcb[s].active /\ tcb[s].clean /\ tcb[s].conn \notin ActiveConns
        /\ tcb[s].state \in {"CLOSING", "TIME_WAIT"}
        => Position(tcb[s].rcvNxt) = PeerBytes[tcb[s].conn] + 2

\* The window a connection announces fits the room in its ring, if its slot
\* started with an empty ring: a peer that keeps to it loses no byte.
WindowFits ==
    \A s \in Slots :
        tcb[s].active /\ tcb[s].clean =>
            tcpAdvertiseWin(tcb[s]) + Len(tcb[s].rxBuf) <= BufCap

\* Descriptors that wait for an ACK always have the timer running.
RetxArmed == \A s \in Slots : tcb[s].active /\ tcb[s].retxQ # <<>> => tcb[s].rto

Opening == {"SYN_SENT", "SYN_RECEIVED", "ESTABLISHED"}

\* A connection that has begun to close never opens again.
NoRevival ==
    [][\A s \in Slots :
          tcb[s].active /\ tcb'[s].active /\ tcb'[s].conn = tcb[s].conn
          /\ tcb[s].state \notin Opening \cup {"CLOSED"}
          => tcb'[s].state \notin Opening]_vars

\* A handshake ends: the peer answers, or the retransmissions run out.
HandshakeEnds ==
    \A s \in Slots :
        tcb[s].state \in {"SYN_SENT", "SYN_RECEIVED"}
        ~> tcb[s].state \notin {"SYN_SENT", "SYN_RECEIVED"}

\* The peer receives the bytes the process wrote, in order and once.
PeerGetsStream ==
    \A c \in ActiveConns \cup UserConns : \A i \in 1..Len(peer[c].stream) :
        peer[c].stream[i] = <<c, i>>

\* The queues of a listener hold connections of its port that are open.
QueuesHoldConnections ==
    \A l \in Listeners :
        lst[l].active => \A i \in 1..Len(lst[l].accept) :
            LET t == tcb[lst[l].accept[i]] IN t.active /\ Port(t.conn) = lst[l].port
=============================================================================
