-------------------------------- MODULE Net --------------------------------
(***************************************************************************)
(* The network stack below TCP: the e1000 rings, netRxLoop with the         *)
(* Ethernet, ARP, IPv4, ICMP and UDP handlers, the UDP echo service and the *)
(* datagram sockets of processes.                                           *)
(*                                                                          *)
(* netRxLoop ("rx") and udpEchoServer ("echo") are BSP threads: one runs    *)
(* until it parks or yields.  Processes run on the APs, at any time.  A     *)
(* step is a critical section or an access to memory that others write.     *)
(* Frames carry what the handlers tell apart: their kind, sender, port and, *)
(* for datagrams, a packet of bytes with its checksum.                      *)
(***************************************************************************)
EXTENDS Checksum, SequencesExt

CONSTANTS
    Procs,       \* processes, with one datagram socket each
    Local,       \* hosts on the subnet, the gateway among them; others are behind it
    Gateway,     \* ourGateway
    Macs,        \* station addresses
    Senders,     \* hosts that send us IP packets
    Neighbour,   \* a host on the subnet that the cache holds from earlier on
    Ports,       \* ports processes bind
    EchoPort,    \* 7, the echo service's
    Headers,     \* IP headers as sequences of bytes, checksum field included
    Bodies,      \* UDP and TCP packets likewise
    Pseudo,      \* the words of the pseudo-header, summed
    NumRx,       \* e1000NumRxDesc
    NumTx,       \* e1000NumTxDesc
    ArpSize,     \* arpCacheSize
    MaxBinds,    \* udpMaxBinds
    QCap,        \* udpDgramQueueCap
    Scenes,      \* bound: who takes part, the processes and the number of frames
    MaxSends,    \* bound: frames processes send
    Talkers,     \* bound: the processes that send them
    Dests        \* bound: the hosts they send to

BSP == {"rx", "echo"}
Threads == BSP \cup Procs

VARIABLES
    rxd, rdh, rxTail,   \* the receive ring: the frames' numbers (0: no DD), the NIC's head, RDT
    txd, tdh, txTail,   \* the transmit ring: free or armed, the NIC's head, TDT
    arp,                \* arpCache
    binds,              \* udpBindings: the port and the queue's owner, or NoBind
    queue,              \* queue[s]: the datagrams of s's udpDgramQueue
    port,               \* localPort of each process' socket; 0: not bound, -1: no socket
    th,                 \* where each thread is and its locals
    on,                 \* the BSP thread that runs, or "none"
    scene,              \* bound: the one of the Scenes that is played
    arrived, sent,      \* bounds: frames received, datagrams sent by processes
    taken, last         \* history: frames read, the last datagram each socket read

nic == <<rxd, rdh, rxTail>>
tx == <<txd, tdh, txTail>>
udp == <<binds, queue, port>>
vars == <<rxd, rdh, rxTail, txd, tdh, txTail, arp, binds, queue, port, th,
          on, scene, arrived, sent, taken, last>>

None == [k |-> "none"]
NoBind == [port |-> 0, owner |-> "none"]
NoSocket == -1
Idle == [pc |-> "idle", f |-> None, hop |-> Gateway, i |-> 0, what |-> "none"]

\* e1000InitRxRing, e1000InitTxRing; udpEchoServer has bound its port and one
\* host has been heard of.
Init ==
    /\ rxd = [i \in 0..(NumRx - 1) |-> 0] /\ rdh = 0 /\ rxTail = NumRx - 1
    /\ txd = [i \in 0..(NumTx - 1) |-> "free"] /\ tdh = 0 /\ txTail = 0
    /\ \E m \in Macs : arp = [i \in 1..ArpSize |->
         IF i = 1 THEN [k |-> "entry", ip |-> Neighbour, mac |-> m, age |-> 0] ELSE None]
    /\ binds = [b \in 1..MaxBinds |->
                  IF b = 1 THEN [port |-> EchoPort, owner |-> "echo"] ELSE NoBind]
    /\ queue = [s \in Procs \cup {"echo"} |-> <<>>]
    /\ port = [p \in Procs |-> NoSocket]
    /\ th = [t \in Threads |-> Idle]
    /\ scene \in Scenes
    /\ on = "none" /\ arrived = 0 /\ sent = 0 /\ taken = 0
    /\ last = [s \in Procs \cup {"echo"} |-> 0]

\* Thread t has the CPU; a BSP thread keeps it until it parks or yields.
Runs(t) == t \in BSP => on \in {t, "none"}
Keep(t) == on' = IF t \in BSP THEN t ELSE on
Leave(t) == on' = IF t \in BSP THEN "none" ELSE on
At(t, pc) == th[t].pc = pc /\ Runs(t)
Goto(t, r) == th' = [th EXCEPT ![t] = r]

-----------------------------------------------------------------------------
(***************************************************************************)
(* The NIC and the wire.                                                    *)
(***************************************************************************)
\* What becomes of a packet on the way: at most one byte changes.
Corruptions(p) ==
    {p} \cup {[p EXCEPT ![i] = b] : i \in 1..Len(p), b \in 0..(Radix - 1)}

\* A header and a body as they left and as they arrive.
Received(h, seal(_)) ==
    UNION {{<<ipv4Sealed(h), h2, seal(b), seal(b)>> : h2 \in Corruptions(ipv4Sealed(h))}
           \cup {<<ipv4Sealed(h), ipv4Sealed(h), seal(b), b2>> : b2 \in Corruptions(seal(b))} :
             b \in Bodies}

\* Wrong: only the IP header's checksum is looked at.
HeaderOnly(h, b) == ipv4Checksum(h) = 0

\* ipv4Parse, then udpChecksumVerify or tcpChecksumVerify.
UdpAccepts(h, b) == ipv4Checksum(h) = 0 /\ udpChecksumVerify(Pseudo, b)
TcpAccepts(h, b) == ipv4Checksum(h) = 0 /\ tcpChecksumVerify(Pseudo, b)

\* What the checks say of a packet, and whether it is what was sent (or, for
\* UDP, a packet whose checksum field says that it has none).
UdpVerdicts ==
    {[ok |-> UdpAccepts(r[2], r[4]), intact |-> r[1] = r[2] /\ (r[3] = r[4] \/ Wire(r[4]) = 0)] :
        r \in UNION {Received(h, LAMBDA b : UdpSealed(Pseudo, b)) : h \in Headers}}
TcpVerdicts ==
    {[ok |-> TcpAccepts(r[2], r[4]), intact |-> r[1] = r[2] /\ r[3] = r[4]] :
        r \in UNION {Received(h, LAMBDA b : TcpSealed(Pseudo, b)) : h \in Headers}}

\* The datagrams, segments and ARP packets the n-th frame may hold.  An ARP
\* "probe" asks for our address and does not tell the sender's, a "reply"
\* stands for every packet that does not ask for ours.
UdpFrames(n) ==
    {[src |-> h, port |-> q, id |-> n, v |-> v] :
        h \in Senders, q \in Ports \cup {EchoPort}, v \in UdpVerdicts}
TcpFrames == {[v |-> v] : v \in TcpVerdicts}
ArpFrames ==
    {[op |-> o, spa |-> Gateway, sha |-> m] : o \in {"request", "probe"}, m \in Macs}
    \cup {[op |-> "reply", spa |-> h, sha |-> m] : h \in Local, m \in Macs}

After(i, n) == (i + 1) % n

\* The NIC fills the descriptor at its head, or drops when it meets the tail.
Arrive ==
    /\ arrived < scene.frames /\ rdh # rxTail
    /\ rxd' = [rxd EXCEPT ![rdh] = arrived + 1]
    /\ rdh' = After(rdh, NumRx) /\ arrived' = arrived + 1
    /\ UNCHANGED <<rxTail, tx, arp, udp, th, on, scene, sent, taken, last>>

\* The NIC sends the descriptor at its head.
Depart ==
    /\ tdh # txTail
    /\ txd' = [txd EXCEPT ![tdh] = "free"] /\ tdh' = After(tdh, NumTx)
    /\ UNCHANGED <<nic, txTail, arp, udp, th, on, scene, arrived, sent, taken, last>>

-----------------------------------------------------------------------------
(***************************************************************************)
(* Sending: ipv4Send, arpResolve, e1000Transmit.                            *)
(***************************************************************************)
nextHopIP(h) == IF h \in Local THEN h ELSE Gateway

\* The frame is complete and goes to e1000Transmit.
Built == [Idle EXCEPT !.pc = "tx", !.what = "frame"]

\* udpSendRaw: no ARP, and the broadcast address.
SendRaw(t) == Goto(t, Built)

Known(h) == \E i \in 1..ArpSize : arp[i].k = "entry" /\ arp[i].ip = h
arpLookup(t) == Known(th[t].hop)

\* arpResolve's first look: a hit goes on to the frame, a miss to an ARP request.
Resolve(h) ==
    IF Known(h) THEN Built ELSE [Idle EXCEPT !.pc = "tx", !.what = "ask", !.hop = h]

\* ipv4Send up to that look: what a process does before it is local, and the
\* cache is written by netRxLoop alone, so not while a BSP thread comes to it.
Send(t, h) == Goto(t, Resolve(nextHopIP(h)))

\* The thread polls the cache, parked for a tick between two looks.
ArpHit(t) ==
    /\ At(t, "wait") /\ arpLookup(t)
    /\ Goto(t, Built) /\ Keep(t)
    /\ UNCHANGED <<nic, tx, arp, udp, scene, arrived, sent, taken, last>>

\* Wrong: waits for the reply however long it takes.
NoTimeout(t) == FALSE

\* Two seconds are up and a last look finds nothing: ipv4Send fails.
GivesUp(t) == ~arpLookup(t)
ArpTimeout(t) ==
    /\ At(t, "wait") /\ GivesUp(t)
    /\ Goto(t, Idle) /\ Keep(t)
    /\ UNCHANGED <<nic, tx, arp, udp, scene, arrived, sent, taken, last>>

\* e1000Transmit reads txTail and looks at the descriptor; nothing locks it.
Busy(i) == txd[i] = "armed"
AfterTx(t) ==
    IF th[t].what = "ask" THEN [th[t] EXCEPT !.pc = "wait", !.i = 0]
    ELSE Idle
LeaveAfterTx(t) == IF th[t].what = "ask" THEN Leave(t) ELSE Keep(t)

TxClaim(t) ==
    /\ At(t, "tx")
    /\ IF Busy(txTail)
       THEN Goto(t, AfterTx(t)) /\ LeaveAfterTx(t)
       ELSE Goto(t, [th[t] EXCEPT !.pc = "arm", !.i = txTail]) /\ Keep(t)
    /\ UNCHANGED <<nic, tx, arp, udp, scene, arrived, sent, taken, last>>

TxArm(t) ==
    /\ At(t, "arm") /\ Keep(t)
    /\ txd' = [txd EXCEPT ![th[t].i] = "armed"]
    /\ Goto(t, [th[t] EXCEPT !.pc = "bell", !.i = After(txTail, NumTx)])
    /\ UNCHANGED <<nic, tdh, txTail, arp, udp, scene, arrived, sent, taken, last>>

\* txTail and TDT get the value computed from the tail it read last.
TxBell(t) ==
    /\ At(t, "bell")
    /\ txTail' = th[t].i
    /\ Goto(t, AfterTx(t)) /\ LeaveAfterTx(t)
    /\ UNCHANGED <<nic, txd, tdh, arp, udp, scene, arrived, sent, taken, last>>

Sending(t) == ArpHit(t) \/ ArpTimeout(t) \/ TxClaim(t) \/ TxArm(t) \/ TxBell(t)

-----------------------------------------------------------------------------
(***************************************************************************)
(* netRxLoop.                                                               *)
(***************************************************************************)
NextRx == After(rxTail, NumRx)

\* Wrong: gives the descriptor back with its DD bit still set.
KeepsDD(i) == rxd

rxDescClear(i) == [rxd EXCEPT ![i] = 0]

\* e1000TryReceive: the descriptor after the tail, re-armed and given back.
\* What the frame holds is chosen by the handler that looks at it.
RxTake ==
    /\ At("rx", "idle") /\ rxd[NextRx] # 0
    /\ Goto("rx", [Idle EXCEPT !.pc = "frame", !.i = rxd[NextRx]])
    /\ rxd' = rxDescClear(NextRx) /\ rxTail' = NextRx
    /\ on' = "rx" /\ taken' = taken + 1
    /\ UNCHANGED <<rdh, tx, arp, udp, scene, arrived, sent, last>>

\* The ring is empty: kschedYield.
RxYield ==
    /\ At("rx", "idle") /\ on = "rx" /\ rxd[NextRx] = 0
    /\ on' = "none"
    /\ UNCHANGED <<nic, tx, arp, udp, th, scene, arrived, sent, taken, last>>

\* Wrong: a known host is entered again.
NoRefresh(h) == {}

\* arpLearn: the entry of h, else a free one, else the oldest.
EntriesOf(h) == {i \in 1..ArpSize : arp[i].k = "entry" /\ arp[i].ip = h}
FreeEntries == {i \in 1..ArpSize : arp[i].k = "none"}
Oldest == {i \in 1..ArpSize : \A j \in 1..ArpSize : arp[i].age <= arp[j].age}
Slot(h) ==
    Min(IF EntriesOf(h) # {} THEN EntriesOf(h)
        ELSE IF FreeEntries # {} THEN FreeEntries ELSE Oldest)

\* Ages count from the oldest entry's: eviction only compares them.
Rebased(a) ==
    LET ages == {a[i].age : i \in {j \in 1..ArpSize : a[j].k = "entry"}} IN
    [i \in 1..ArpSize |-> IF a[i].k = "entry" THEN [a[i] EXCEPT !.age = @ - Min(ages)] ELSE a[i]]
Youngest == Max({0} \cup {arp[i].age : i \in {j \in 1..ArpSize : arp[j].k = "entry"}})

arpLearn(f, age) ==
    Rebased([arp EXCEPT ![Slot(f.spa)] = [k |-> "entry", ip |-> f.spa, mac |-> f.sha, age |-> age]])

\* arpSendReply goes straight to e1000Transmit.
ArpReply == Built

\* So does the announcement of an address, arpSendGratuitous.
Announcement == Built

\* A frame read from the ring goes to one of the handlers below.
ethernetDispatch == At("rx", "frame") /\ Keep("rx")

\* arpHandle; the clock may have ticked since the last packet.
RxArp ==
    /\ ethernetDispatch
    /\ \E f \in ArpFrames :
        /\ IF f.op = "probe" THEN UNCHANGED arp
           ELSE \E age \in {Youngest, Youngest + 1} : arp' = arpLearn(f, age)
        /\ Goto("rx", IF f.op = "reply" THEN Idle ELSE ArpReply)
    /\ UNCHANGED <<nic, tx, udp, scene, arrived, sent, taken, last>>

\* icmpHandle answers an echo request through ipv4Send.
RxIcmp ==
    /\ ethernetDispatch
    /\ \E h \in Senders : Send("rx", h)
    /\ UNCHANGED <<nic, tx, arp, udp, scene, arrived, sent, taken, last>>

\* Not for us, a fragment, an unknown type or protocol: dropped.
RxOther ==
    /\ ethernetDispatch
    /\ Goto("rx", Idle)
    /\ UNCHANGED <<nic, tx, arp, udp, scene, arrived, sent, taken, last>>

\* udpHandle up to udpLookupQueue ...
BoundTo(q) == {b \in 1..MaxBinds : binds[b].port = q}
RxUdp ==
    /\ ethernetDispatch
    /\ \E f \in UdpFrames(th["rx"].i) :
        Goto("rx", IF f.v.ok /\ BoundTo(f.port) # {}
                   THEN [Idle EXCEPT !.pc = "push", !.f = f,
                                     !.what = binds[Min(BoundTo(f.port))].owner]
                   ELSE Idle)
    /\ UNCHANGED <<nic, tx, arp, udp, scene, arrived, sent, taken, last>>

\* A good segment goes on to tcpHandle, which module Tcp models.
RxTcp ==
    /\ ethernetDispatch
    /\ \E f \in TcpFrames :
        Goto("rx", IF f.v.ok THEN [Idle EXCEPT !.pc = "tcp", !.f = f] ELSE Idle)
    /\ UNCHANGED <<nic, tx, arp, udp, scene, arrived, sent, taken, last>>

RxTcpDone ==
    /\ At("rx", "tcp")
    /\ Goto("rx", Idle) /\ Keep("rx")
    /\ UNCHANGED <<nic, tx, arp, udp, scene, arrived, sent, taken, last>>

HasRoom(s) == s # "gone" /\ Len(queue[s]) < QCap

\* Wrong: the consumer is not woken.
StaysParked(r) == r

Woken(r) == IF r.pc = "parked" THEN [r EXCEPT !.pc = "pop"] ELSE r

\* ... and TryPush on the queue it found, which wakes a parked consumer.  A
\* queue whose socket has been closed since then is garbage.
RxPush ==
    LET s == th["rx"].what f == th["rx"].f IN
    /\ At("rx", "push") /\ Keep("rx")
    /\ IF HasRoom(s)
       THEN /\ queue' = [queue EXCEPT ![s] = Append(@, f)]
            /\ th' = [th EXCEPT !["rx"] = Idle,
                                ![s] = Woken(@)]
       ELSE UNCHANGED queue /\ Goto("rx", Idle)
    /\ UNCHANGED <<nic, tx, arp, binds, port, scene, arrived, sent, taken, last>>

RxStep ==
    \/ RxTake \/ RxYield \/ RxArp \/ RxIcmp \/ RxOther \/ RxUdp \/ RxPush
    \/ RxTcp \/ RxTcpDone \/ Sending("rx")

-----------------------------------------------------------------------------
(***************************************************************************)
(* udpEchoServer and the socket calls.                                      *)
(***************************************************************************)
Take(s) ==
    /\ queue' = [queue EXCEPT ![s] = Tail(@)]
    /\ last' = [last EXCEPT ![s] = Head(queue[s]).id]

\* Pop: the front of the queue, or park as its consumer.
EchoPop ==
    /\ At("echo", "idle") \/ At("echo", "pop")
    /\ IF queue["echo"] # <<>>
       THEN Take("echo") /\ Send("echo", Head(queue["echo"]).src) /\ Keep("echo")
       ELSE Goto("echo", [Idle EXCEPT !.pc = "parked"]) /\ Leave("echo") /\ UNCHANGED <<queue, last>>
    /\ UNCHANGED <<nic, tx, arp, binds, port, scene, arrived, sent, taken>>

EchoStep == EchoPop \/ Sending("echo")

otherThanSocket == <<nic, tx, arp, on, scene, arrived, taken>>
otherThanSend == <<udp, last, otherThanSocket>>

\* sys_socket: a datagram socket with a fresh queue.
Socket(p) ==
    /\ At(p, "idle") /\ port[p] = NoSocket
    /\ port' = [port EXCEPT ![p] = 0]
    /\ UNCHANGED <<binds, queue, th, last, sent, otherThanSocket>>

\* sys_bind: udpBindWithQueue.
FreeBinds == {b \in 1..MaxBinds : binds[b].port = 0}
Bind(p) ==
    \E q \in Ports :
        /\ At(p, "idle") /\ port[p] = 0
        /\ BoundTo(q) = {} /\ FreeBinds # {}
        /\ binds' = [binds EXCEPT ![Min(FreeBinds)] = [port |-> q, owner |-> p]]
        /\ port' = [port EXCEPT ![p] = q]
        /\ UNCHANGED <<queue, th, last, sent, otherThanSocket>>

Unbound(p) == [b \in 1..MaxBinds |-> IF binds[b].owner = p THEN NoBind ELSE binds[b]]

\* Closing the socket unbinds it and drains its queue.
Close(p) ==
    /\ At(p, "idle") /\ port[p] # NoSocket
    /\ binds' = Unbound(p) /\ port' = [port EXCEPT ![p] = NoSocket]
    /\ queue' = [queue EXCEPT ![p] = <<>>] /\ last' = [last EXCEPT ![p] = 0]
    /\ th' = [th EXCEPT !["rx"].what = IF @ = p THEN "gone" ELSE @]
    /\ UNCHANGED <<sent, otherThanSocket>>

\* sys_recvfrom: Pop without a timeout, TryPop polled with one.
Recv(p) ==
    /\ At(p, "idle") \/ At(p, "pop")
    /\ port[p] > 0
    /\ IF queue[p] # <<>> THEN Take(p) /\ Goto(p, Idle)
       ELSE Goto(p, [Idle EXCEPT !.pc = "parked"]) /\ UNCHANGED <<queue, last>>
    /\ UNCHANGED <<binds, port, sent, otherThanSocket>>

TryRecv(p) ==
    /\ At(p, "idle") /\ port[p] > 0 /\ queue[p] # <<>>
    /\ Take(p)
    /\ UNCHANGED <<th, binds, port, sent, otherThanSocket>>

\* sys_sendto, and sys_sendto_bcast, which needs no ARP.
SendTo(p) ==
    /\ At(p, "idle") /\ port[p] # NoSocket /\ p \in Talkers /\ sent < MaxSends
    /\ \E h \in Dests : Send(p, h)
    /\ sent' = sent + 1 /\ UNCHANGED otherThanSend

SendToBcast(p) ==
    /\ At(p, "idle") /\ port[p] # NoSocket /\ p \in Talkers /\ sent < MaxSends
    /\ SendRaw(p)
    /\ sent' = sent + 1 /\ UNCHANGED otherThanSend

\* sys_net_config: "apply" announces our address.  The other operations read or
\* set an address, and with it which frames are for us.
NetConfig(p) ==
    /\ At(p, "idle") /\ p \in Talkers /\ sent < MaxSends
    /\ Goto(p, Announcement)
    /\ sent' = sent + 1 /\ UNCHANGED otherThanSend

ProcInside(p) == (th[p].pc = "pop" /\ Recv(p)) \/ Sending(p)
ProcCall(p) ==
    \/ Socket(p) \/ Bind(p) \/ Close(p) \/ Recv(p) \/ TryRecv(p)
    \/ SendTo(p) \/ SendToBcast(p) \/ NetConfig(p)

-----------------------------------------------------------------------------
Next == \/ Arrive \/ Depart \/ RxStep \/ EchoStep
        \/ \E p \in scene.procs : ProcInside(p) \/ ProcCall(p)

Spec == Init /\ [][Next]_vars

\* netRxLoop is at x and can go on.
Pending(x) ==
    /\ th["rx"].pc = x
    /\ x = "idle" => on = "rx" \/ rxd[NextRx] # 0
    /\ x = "wait" => arpLookup("rx") \/ GivesUp("rx")

\* The BSP goes round its threads: netRxLoop stays nowhere where it can go on,
\* the echo service gets to the end of its queue.  A call ends or parks.
Fairness ==
    /\ \A x \in {"idle", "frame", "push", "tcp", "tx", "arm", "bell", "wait"} :
          []<>~Pending(x)
    /\ []<>(th["echo"].pc = "parked")
    /\ \A p \in Procs : []<>(th[p].pc \in {"idle", "parked"})

LiveSpec == Spec /\ Fairness

-----------------------------------------------------------------------------
\* The frames in the receive ring, oldest first.
InRing == [j \in 1..((rdh - NextRx + NumRx) % NumRx) |-> rxd[(rxTail + j) % NumRx]]

\* The receive ring holds the frames that have arrived and not been read, in
\* order: e1000TryReceive loses, repeats and overtakes none while both sides
\* go round the ring, and reads no descriptor the NIC may still write.
RxRingExact == InRing = [j \in 1..(arrived - taken) |-> taken + j]

\* A socket's queue holds intact datagrams for its port, in the order they
\* arrived and later than what it has read; no datagram is in two queues, and
\* only intact segments reach tcpHandle.
Delivery ==
    /\ \A s \in Procs \cup {"echo"} : \A i \in 1..Len(queue[s]) :
        LET f == queue[s][i] IN
        /\ f.v.intact
        /\ f.port = IF s = "echo" THEN EchoPort ELSE port[s]
        /\ f.id > IF i = 1 THEN last[s] ELSE queue[s][i - 1].id
        /\ \A r \in (Procs \cup {"echo"}) \ {s} : \A j \in 1..Len(queue[r]) :
              queue[r][j].id # f.id
    /\ th["rx"].pc = "tcp" => th["rx"].f.v.intact

\* The tables stay consistent whatever processes bind, close and receive while
\* frames come in: a port has one owner, which is bound to it, a socket's queue
\* stays within its capacity, and the ARP cache never holds two bindings of
\* one address, also after an eviction (udpBindWithQueue, TryPush, arpLearn).
TablesConsistent ==
    /\ \A b \in 1..MaxBinds : binds[b].port # 0 =>
        /\ \A c \in 1..MaxBinds : c # b => binds[c].port # binds[b].port
        /\ binds[b].owner # "echo" => port[binds[b].owner] = binds[b].port
    /\ \A s \in Procs \cup {"echo"} : Len(queue[s]) <= QCap
    /\ \A i, j \in 1..ArpSize :
        arp[i].k = "entry" /\ arp[j].k = "entry" /\ arp[i].ip = arp[j].ip => i = j

\* Whatever is in the receive ring is dispatched, also when netRxLoop itself
\* waits for an ARP reply that only netRxLoop could receive.
RingDrained == InRing # <<>> ~> InRing = <<>>

\* A process that waits for a datagram that is in its queue gets it.
ReceiverServed ==
    \A p \in Procs : (th[p].pc \in {"parked", "pop"} /\ queue[p] # <<>>) ~> th[p].pc = "idle"
=============================================================================
