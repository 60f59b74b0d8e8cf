------------------------------ MODULE TcpProofs -----------------------------
(***************************************************************************)
(* Whatever arrives and whatever the processes and the timers do, the      *)
(* blocks of the TCP stack stay within their bounds, the window a          *)
(* connection announces fits its ring, descriptors that wait have the      *)
(* timer running, and a connection that has begun to close never opens     *)
(* again: for any number of slots, listeners, processes and peers, any     *)
(* ring size and any sequence space.                                       *)
(***************************************************************************)
EXTENDS Tcp, WellFoundedInduction, TLAPS

\* The time a leaf is given.
USE SMTT(60), ZenonT(60)

Fields == {"active", "conn", "state", "listener", "sndUna", "sndNxt", "sndWnd",
           "sndWl1", "sndWl2", "rcvNxt", "rcvWnd", "rxBuf", "txBuf", "retxQ",
           "rto", "tries", "persist", "clean"}

IsRecord(t) == t = [f \in Fields |-> t[f]]

Bytes == (Conns \cup {NoConn}) \X Int
Descriptors == [seq : Int, endSeq : Int, kind : {"SYN", "FIN", "DATA"}]

\* Whose a block is, and how far it has got.
NameOK(t) ==
    /\ t.active \in BOOLEAN /\ t.state \in States
    /\ t.conn \in Conns \cup {NoConn} /\ t.active <=> t.conn # NoConn
    /\ t.listener \in Listeners \cup {0}

\* The timer runs while descriptors wait, in a free slot too: what a slot last
\* held is there when it is used again.
SendOK(t) ==
    /\ t.sndNxt \in Int /\ t.tries \in 0..MaxRetx /\ t.rto \in BOOLEAN
    /\ t.retxQ \in Seq(Descriptors) /\ Len(t.retxQ) <= RetxMax
    /\ t.retxQ # <<>> => t.rto
    /\ t.txBuf \in Seq(Bytes) /\ Len(t.txBuf) <= BufCap

ReceiveOK(t) ==
    /\ t.clean \in BOOLEAN /\ t.rcvWnd \in 0..BufCap
    /\ t.rxBuf \in Seq(Bytes) /\ Len(t.rxBuf) <= BufCap
    /\ t.active /\ t.clean => t.rcvWnd + Len(t.rxBuf) <= BufCap

IsBlock(t) == IsRecord(t) /\ NameOK(t) /\ SendOK(t) /\ ReceiveOK(t)

ListenerFields == {"active", "port", "pending", "accept"}

IsListener(k) ==
    /\ k = [f \in ListenerFields |-> k[f]]
    /\ k.pending \in Seq(Slots) /\ k.accept \in Seq(Slots)
    /\ Len(k.pending) + Len(k.accept) <= Depth

Handshake == {"SYN_SENT", "SYN_RECEIVED", "CLOSED"}

Blocks == tcb = [s \in Slots |-> tcb[s]] /\ \A s \in Slots : IsBlock(tcb[s])

Lists == lst = [l \in Listeners |-> lst[l]] /\ \A l \in Listeners : IsListener(lst[l])

\* The segment in hand is for a block that exists.  A handler of the handshake
\* runs on a block that is still in it, or free.
RxAt ==
    \/ rx.pc = "idle"
    \/ /\ rx.pc = "handle" /\ rx.slot \in Slots /\ rx.conn \in Conns
       /\ rx.h \in {"SYN_SENT", "SYN_RECEIVED"} => tcb[rx.slot].state \in Handshake
    \/ \E s \in Slots, l \in Listeners, p \in {"passive", "arm", "unwind"} :
          rx = [pc |-> p, slot |-> s, l |-> l]

ScanAt ==
    /\ scan \in SUBSET (Slots \X {"rto", "persist", "tw"})
    /\ saved # <<>> => saved[1] \in Slots /\ saved[2] \in Int

\* Where a process can be with a block in hand.
WithBlock == {"fin", "finacct", "lcheck", "syn", "synacct", "connwait", "drain",
              "drainacct", "reset"}

RegFields == {"slot", "n", "ret", "ok", "list"}

IsReg(r, p) ==
    /\ r = [f \in RegFields |-> r[f]]
    /\ r.n \in Int /\ r.list \in Seq(Slots) /\ r.ret \in {"user", "reset", "lcheck"}
    /\ p \in WithBlock \cup {"user", "lclose"}
    /\ p \in WithBlock => r.slot \in Slots

Regs ==
    /\ upc = [u \in Users |-> upc[u]] /\ reg = [u \in Users |-> reg[u]]
    /\ \A u \in Users : IsReg(reg[u], upc[u])

Socks ==
    /\ lsock \in [Users -> Listeners \cup {0}] /\ csock \in [Users -> Slots \cup {0}]
    /\ wrote \in [Conns -> Int]

TcpInv == Blocks /\ Lists /\ RxAt /\ ScanAt /\ Regs /\ Socks

-----------------------------------------------------------------------------
(***************************************************************************)
(* Blocks.                                                                 *)
(***************************************************************************)
\* u differs from t at most in the fields of F.
SameBut(u, t, F) == IsRecord(u) /\ \A f \in Fields \ F : u[f] = t[f]

\* The fields that concern sending only, and those of received bytes.
SendFields == {"sndUna", "sndNxt", "sndWnd", "sndWl1", "sndWl2", "rcvNxt",
               "persist", "retxQ", "rto", "tries", "txBuf"}
ReceiveFields == {"rcvNxt", "rcvWnd", "rxBuf"}

\* u is still the block of the same connection, in the same state.
Keeps(u, t) ==
    IsBlock(u) /\ u.active = t.active /\ u.conn = t.conn /\ u.state = t.state

\* A change of the sending half.
LEMMA SendHalf ==
    ASSUME NEW t, IsBlock(t), NEW u, SameBut(u, t, SendFields), SendOK(u)
    PROVE  Keeps(u, t)
<1>1. /\ u.active = t.active /\ u.conn = t.conn /\ u.state = t.state
      /\ u.listener = t.listener /\ u.clean = t.clean
      /\ u.rcvWnd = t.rcvWnd /\ u.rxBuf = t.rxBuf
  BY ZenonT(60) DEF SameBut, SendFields, Fields
<1> QED
  BY <1>1, ZenonT(60) DEF SameBut, Keeps, IsBlock, NameOK, ReceiveOK

\* A change of the receiving half.
LEMMA ReceiveHalf ==
    ASSUME NEW t, IsBlock(t), NEW u, SameBut(u, t, ReceiveFields), ReceiveOK(u)
    PROVE  Keeps(u, t)
<1>1. /\ u.active = t.active /\ u.conn = t.conn /\ u.state = t.state
      /\ u.listener = t.listener
      /\ u.sndNxt = t.sndNxt /\ u.tries = t.tries /\ u.rto = t.rto
      /\ u.retxQ = t.retxQ /\ u.txBuf = t.txBuf
  BY ZenonT(60) DEF SameBut, ReceiveFields, Fields
<1> QED
  BY <1>1, ZenonT(60) DEF SameBut, Keeps, IsBlock, NameOK, SendOK

InState(t, x) == [t EXCEPT !.state = x]

\* A change of state alone.
LEMMA StateChange ==
    ASSUME NEW t, IsBlock(t), NEW x \in States, NEW u, u = InState(t, x)
    PROVE  IsBlock(u) /\ u.active = t.active /\ u.conn = t.conn /\ u.state = x
<1>1. SameBut(u, t, {"state"}) /\ u.state = x
  <2>1. u = [f \in Fields |-> IF f = "state" THEN x ELSE t[f]]
    BY ZenonT(60) DEF InState, IsBlock, IsRecord, Fields
  <2> QED
    BY <2>1, ZenonT(60) DEF SameBut, IsRecord, Fields
<1>2. /\ u.active = t.active /\ u.conn = t.conn /\ u.listener = t.listener
      /\ u.clean = t.clean /\ u.rcvWnd = t.rcvWnd /\ u.rxBuf = t.rxBuf
      /\ u.sndNxt = t.sndNxt /\ u.tries = t.tries /\ u.rto = t.rto
      /\ u.retxQ = t.retxQ /\ u.txBuf = t.txBuf
  BY <1>1, ZenonT(60) DEF SameBut, Fields
<1> QED
  BY <1>1, <1>2, ZenonT(60) DEF SameBut, IsBlock, NameOK, SendOK, ReceiveOK

\* tcbFree.
LEMMA FreeBlock ==
    ASSUME NEW t, IsBlock(t), NEW u, u = tcbFree(t)
    PROVE  IsBlock(u) /\ u.active = FALSE /\ u.state = "CLOSED"
<1>1. u = [f \in Fields |-> IF f = "state" THEN "CLOSED" ELSE
                            IF f = "conn" THEN NoConn ELSE
                            IF f = "active" THEN FALSE ELSE t[f]]
  BY ZenonT(60) DEF tcbFree, IsBlock, IsRecord, Fields
<1>2. /\ IsRecord(u) /\ u.active = FALSE /\ u.conn = NoConn /\ u.state = "CLOSED"
      /\ u.listener = t.listener
      /\ u.clean = t.clean /\ u.rcvWnd = t.rcvWnd /\ u.rxBuf = t.rxBuf
      /\ u.sndNxt = t.sndNxt /\ u.tries = t.tries /\ u.rto = t.rto
      /\ u.retxQ = t.retxQ /\ u.txBuf = t.txBuf
  BY <1>1, ZenonT(60) DEF IsRecord, Fields
<1> QED
  BY <1>2, ZenonT(60) DEF IsBlock, NameOK, SendOK, ReceiveOK, States

\* tcpTryPassiveOpen.
LEMMA PassiveBlock ==
    ASSUME NEW t, IsBlock(t), NEW c \in Conns, NEW l \in Listeners, NEW m,
           NEW u, u = PassiveInit(t, c, l, m)
    PROVE  IsBlock(u) /\ u.state = "SYN_RECEIVED"
<1>1. u = [f \in Fields |->
          IF f = "sndWl2" THEN 0 ELSE IF f = "sndWl1" THEN m.seq ELSE
          IF f = "sndWnd" THEN m.win ELSE IF f = "sndNxt" THEN Plus(ISS, 1) ELSE
          IF f = "sndUna" THEN ISS ELSE IF f = "rcvWnd" THEN BufCap ELSE
          IF f = "rcvNxt" THEN Plus(m.seq, 1) ELSE IF f = "listener" THEN l ELSE
          IF f = "state" THEN "SYN_RECEIVED" ELSE IF f = "clean" THEN t.rxBuf = <<>> ELSE
          IF f = "conn" THEN c ELSE IF f = "active" THEN TRUE ELSE t[f]]
  BY ZenonT(60) DEF PassiveInit, tcbAlloc, IsBlock, IsRecord, Fields
<1>2. /\ IsRecord(u) /\ u.active = TRUE /\ u.conn = c /\ u.state = "SYN_RECEIVED"
      /\ u.listener = l /\ u.clean = (t.rxBuf = <<>>) /\ u.rcvWnd = BufCap
      /\ u.rxBuf = t.rxBuf /\ u.sndNxt = Plus(ISS, 1) /\ u.tries = t.tries
      /\ u.rto = t.rto /\ u.retxQ = t.retxQ /\ u.txBuf = t.txBuf
  BY <1>1, ZenonT(60) DEF IsRecord, Fields
<1>3. Plus(ISS, 1) \in Int
  BY BlockAssumption DEF Plus
<1>4. NameOK(u)
  BY <1>2, TableAssumption, ZenonT(60) DEF NameOK, States
<1>5. ReceiveOK(u)
  <2>1. t.rxBuf \in Seq(Bytes) /\ Len(t.rxBuf) <= BufCap
    BY ZenonT(60) DEF IsBlock, ReceiveOK
  <2>2. u.clean \in BOOLEAN /\ (u.clean => u.rxBuf = <<>>)
    BY <1>2, ZenonT(60)
  <2>3. /\ BufCap \in 0..BufCap
        /\ u.rxBuf = <<>> => BufCap + Len(u.rxBuf) <= BufCap
    BY BlockAssumption
  <2> QED
    BY <1>2, <2>1, <2>2, <2>3, ZenonT(60) DEF ReceiveOK
<1> QED
  BY <1>2, <1>3, <1>4, <1>5, ZenonT(60) DEF IsBlock, SendOK

\* tcpActiveConnect.
LEMMA ActiveBlock ==
    ASSUME NEW t, IsBlock(t), NEW c \in Conns, NEW u, u = ActiveInit(t, c)
    PROVE  IsBlock(u) /\ u.state = "SYN_SENT"
<1>1. u = [f \in Fields |->
          IF f = "sndNxt" THEN Plus(ISS, 1) ELSE
          IF f = "sndUna" THEN ISS ELSE IF f = "rcvWnd" THEN BufCap ELSE
          IF f = "state" THEN "SYN_SENT" ELSE IF f = "clean" THEN t.rxBuf = <<>> ELSE
          IF f = "conn" THEN c ELSE IF f = "active" THEN TRUE ELSE t[f]]
  BY ZenonT(60) DEF ActiveInit, tcbAlloc, IsBlock, IsRecord, Fields
<1>2. /\ IsRecord(u) /\ u.active = TRUE /\ u.conn = c /\ u.state = "SYN_SENT"
      /\ u.listener = t.listener /\ u.clean = (t.rxBuf = <<>>) /\ u.rcvWnd = BufCap
      /\ u.rxBuf = t.rxBuf /\ u.sndNxt = Plus(ISS, 1) /\ u.tries = t.tries
      /\ u.rto = t.rto /\ u.retxQ = t.retxQ /\ u.txBuf = t.txBuf
  BY <1>1, ZenonT(60) DEF IsRecord, Fields
<1>3. Plus(ISS, 1) \in Int
  BY BlockAssumption DEF Plus
<1>4. NameOK(u)
  BY <1>2, TableAssumption, ZenonT(60) DEF IsBlock, NameOK, States
<1>5. ReceiveOK(u)
  <2>1. t.rxBuf \in Seq(Bytes) /\ Len(t.rxBuf) <= BufCap
    BY ZenonT(60) DEF IsBlock, ReceiveOK
  <2>2. u.clean \in BOOLEAN /\ (u.clean => u.rxBuf = <<>>)
    BY <1>2, ZenonT(60)
  <2>3. /\ BufCap \in 0..BufCap
        /\ u.rxBuf = <<>> => BufCap + Len(u.rxBuf) <= BufCap
    BY BlockAssumption
  <2> QED
    BY <1>2, <2>1, <2>2, <2>3, ZenonT(60) DEF ReceiveOK
<1> QED
  BY <1>2, <1>3, <1>4, <1>5, ZenonT(60) DEF IsBlock, SendOK

-----------------------------------------------------------------------------
(***************************************************************************)
(* What the critical sections do to a block.                               *)
(***************************************************************************)
\* retxAckTo takes descriptors off the front of the queue.
LEMMA AckShortens ==
    ASSUME NEW q \in Seq(Descriptors), NEW ack
    PROVE  retxAckTo(q, ack) \in Seq(Descriptors) /\ Len(retxAckTo(q, ack)) <= Len(q)
<1> DEFINE T == {n \in Nat : Len(q) - n \in Acked(q, ack)}
           R == OpToRel(<, Nat)
           k == CHOOSE i \in Acked(q, ack) : \A j \in Acked(q, ack) : j <= i
<1>1. Acked(q, ack) \subseteq 0..Len(q) /\ 0 \in Acked(q, ack)
  BY DEF Acked
<1>2. T # {} /\ T \subseteq Nat
  <2>1. Len(q) \in T
    BY <1>1
  <2> QED
    BY <2>1, ZenonT(60)
<1>3. PICK x \in T : \A y \in T : ~(<<y, x>> \in R)
  <2> HIDE DEF T, R
  <2>1. IsWellFoundedOn(R, Nat)
    BY NatLessThanWellFounded, ZenonT(60) DEF R
  <2> QED
    BY <1>2, <2>1, WFMin, ZenonT(60)
<1>4. \A y \in T : ~(y < x)
  BY <1>3, ZenonT(60) DEF OpToRel
<1>5. Len(q) - x \in Acked(q, ack)
  BY <1>3, ZenonT(60)
<1>6. ASSUME NEW j \in Acked(q, ack) PROVE j <= Len(q) - x
  <2>1. Len(q) - j \in T
    BY <1>1
  <2> QED
    BY <1>1, <1>4, <2>1
<1>7. k \in Acked(q, ack)
  BY <1>5, <1>6, ZenonT(60)
<1>8. k \in 0..Len(q)
  BY <1>1, <1>7, ZenonT(60)
<1>9. retxAckTo(q, ack) = SubSeq(q, k + 1, Len(q))
  BY ZenonT(60) DEF retxAckTo
<1> HIDE DEF k
<1> QED
  BY <1>8, <1>9

\* An ACK that advances.
LEMMA AckedKeeps ==
    ASSUME NEW t, IsBlock(t), NEW ack, NEW u, u = AckedTo(t, ack)
    PROVE  Keeps(u, t)
<1> DEFINE q == retxAckTo(t.retxQ, ack)
           v == [f \in Fields |-> IF f = "retxQ" THEN q ELSE
                                  IF f = "sndUna" THEN ack ELSE t[f]]
<1>1. v = [t EXCEPT !.sndUna = ack, !.retxQ = retxAckTo(t.retxQ, ack)]
  BY ZenonT(60) DEF IsBlock, IsRecord, Fields
<1>2. u = IF v.retxQ = <<>> THEN [v EXCEPT !.rto = FALSE] ELSE tcpArmRTO(v)
  BY <1>1, ZenonT(60) DEF AckedTo
<1>3. v.retxQ = q
  BY ZenonT(60) DEF Fields
<1>4. u = IF q = <<>> THEN [f \in Fields |-> IF f = "rto" THEN FALSE ELSE v[f]]
          ELSE [f \in Fields |-> IF f = "tries" THEN 0 ELSE
                                 IF f = "rto" THEN TRUE ELSE v[f]]
  BY <1>2, <1>3, ZenonT(60) DEF tcpArmRTO, Fields
<1>5. /\ u.retxQ = q /\ u.rto = (q # <<>>) /\ u.tries \in {t.tries, 0}
      /\ u.sndNxt = t.sndNxt /\ u.txBuf = t.txBuf
  BY <1>4, ZenonT(60) DEF Fields
<1>6. SameBut(u, t, SendFields)
  BY <1>4, ZenonT(60) DEF SameBut, IsRecord, SendFields, Fields
<1>7. SendOK(u)
  <2>1. /\ t.retxQ \in Seq(Descriptors) /\ Len(t.retxQ) <= RetxMax /\ t.tries \in 0..MaxRetx
        /\ t.sndNxt \in Int /\ t.txBuf \in Seq(Bytes) /\ Len(t.txBuf) <= BufCap
    BY ZenonT(60) DEF IsBlock, SendOK
  <2>2. q \in Seq(Descriptors) /\ Len(q) <= Len(t.retxQ)
    BY <2>1, AckShortens, ZenonT(60)
  <2> HIDE DEF q, v
  <2>3. Len(q) <= RetxMax /\ 0 \in 0..MaxRetx
    BY <2>1, <2>2, BlockAssumption, TableAssumption
  <2> QED
    BY <1>5, <2>1, <2>2, <2>3, ZenonT(60) DEF SendOK
<1> QED
  BY <1>6, <1>7, SendHalf, ZenonT(60)

\* retxPush drops a descriptor that does not fit.
LEMMA PushFits ==
    ASSUME NEW q \in Seq(Descriptors), Len(q) <= RetxMax, NEW e \in Descriptors
    PROVE  retxPush(q, e) \in Seq(Descriptors) /\ Len(retxPush(q, e)) <= RetxMax
BY BlockAssumption DEF retxPush

\* A descriptor is pushed and the timer armed.
LEMMA PushKeeps ==
    ASSUME NEW t, IsBlock(t), NEW x \in Int, NEW e \in Descriptors, NEW u,
           u = tcpArmRTO([t EXCEPT !.sndNxt = x, !.retxQ = retxPush(@, e)])
    PROVE  Keeps(u, t)
<1> DEFINE q == retxPush(t.retxQ, e)
<1>1. u = [f \in Fields |-> IF f = "tries" THEN 0 ELSE IF f = "rto" THEN TRUE ELSE
                            IF f = "retxQ" THEN q ELSE IF f = "sndNxt" THEN x ELSE t[f]]
  BY ZenonT(60) DEF tcpArmRTO, IsBlock, IsRecord, Fields
<1>2. /\ u.retxQ = q /\ u.rto = TRUE /\ u.tries = 0
      /\ u.sndNxt = x /\ u.txBuf = t.txBuf
  BY <1>1, ZenonT(60) DEF Fields
<1>3. SameBut(u, t, SendFields)
  BY <1>1, ZenonT(60) DEF SameBut, IsRecord, SendFields, Fields
<1>4. q \in Seq(Descriptors) /\ Len(q) <= RetxMax
  BY PushFits, ZenonT(60) DEF IsBlock, SendOK
<1> HIDE DEF q
<1>5. 0 \in 0..MaxRetx
  BY TableAssumption
<1>6. SendOK(u)
  BY <1>2, <1>4, <1>5, ZenonT(60) DEF IsBlock, SendOK
<1> QED
  BY <1>3, <1>6, SendHalf, ZenonT(60)

\* Accounting for n numbers sent, and for the SYN.
LEMMA AccountKeeps ==
    ASSUME NEW t, IsBlock(t), NEW n \in Int, NEW kind \in {"SYN", "FIN", "DATA"}
    PROVE  Keeps(Account(t, n, kind), t) /\ Keeps(AccountSyn(t), t)
<1>1. t.sndNxt \in Int
  BY ZenonT(60) DEF IsBlock, SendOK
<1>2. Plus(t.sndNxt, n) \in Int /\ Plus(ISS, 1) \in Int /\ ISS \in Int
  BY <1>1, BlockAssumption DEF Plus
<1>3. /\ [seq |-> t.sndNxt, endSeq |-> Plus(t.sndNxt, n), kind |-> kind] \in Descriptors
      /\ [seq |-> ISS, endSeq |-> Plus(ISS, 1), kind |-> "SYN"] \in Descriptors
  BY <1>1, <1>2, ZenonT(60) DEF Descriptors
<1>4. Keeps(Account(t, n, kind), t)
  BY <1>2, <1>3, PushKeeps, ZenonT(60) DEF Account
<1>5. Keeps(AccountSyn(t), t)
  BY <1>2, <1>3, PushKeeps, ZenonT(60) DEF AccountSyn
<1> QED
  BY <1>4, <1>5, ZenonT(60)

\* The fields of a block that no bound is on.
Plain == {"sndUna", "sndWnd", "sndWl1", "sndWl2", "rcvNxt", "persist"}

\* They may take any value.
LEMMA PlainKeeps ==
    ASSUME NEW t, IsBlock(t), NEW u, SameBut(u, t, Plain)
    PROVE  Keeps(u, t)
<1>1. SameBut(u, t, SendFields)
  BY ZenonT(60) DEF SameBut, Plain, SendFields
<1>2. /\ u.sndNxt = t.sndNxt /\ u.tries = t.tries /\ u.rto = t.rto
      /\ u.retxQ = t.retxQ /\ u.txBuf = t.txBuf
  BY ZenonT(60) DEF SameBut, Plain, Fields
<1>3. SendOK(u)
  BY <1>2, ZenonT(60) DEF IsBlock, SendOK
<1> QED
  BY <1>1, <1>3, SendHalf, ZenonT(60)

\* sndNxt goes back to be sent from, or forward.
LEMMA NumberKeeps ==
    ASSUME NEW t, IsBlock(t), NEW x \in Int, NEW u, u = [t EXCEPT !.sndNxt = x]
    PROVE  Keeps(u, t)
<1>1. u = [f \in Fields |-> IF f = "sndNxt" THEN x ELSE t[f]]
  BY ZenonT(60) DEF IsBlock, IsRecord, Fields
<1>2. /\ u.sndNxt = x /\ u.tries = t.tries /\ u.rto = t.rto
      /\ u.retxQ = t.retxQ /\ u.txBuf = t.txBuf
  BY <1>1, ZenonT(60) DEF Fields
<1>3. SameBut(u, t, SendFields) /\ SendOK(u)
  BY <1>1, <1>2, ZenonT(60) DEF SameBut, IsRecord, SendFields, Fields, IsBlock, SendOK
<1> QED
  BY <1>3, SendHalf, ZenonT(60)

\* Two changes in turn.
LEMMA KeepsTwice ==
    ASSUME NEW t, NEW u, NEW v, Keeps(u, t), Keeps(v, u)
    PROVE  Keeps(v, t) /\ IsBlock(u)
BY ZenonT(60) DEF Keeps

\* tcpAckUpdate.
LEMMA AckUpdateKeeps ==
    ASSUME NEW t, IsBlock(t), NEW m
    PROVE  Keeps(tcpAckUpdate(t, m), t)
<1>0. Keeps(t, t)
  BY ZenonT(60) DEF Keeps
<1>1. CASE ~AckInRange(t, m)
  BY <1>0, <1>1, ZenonT(60) DEF tcpAckUpdate
<1>2. CASE AckInRange(t, m)
  <2> DEFINE u == IF t.sndUna = m.ackno THEN t ELSE AckedTo(t, m.ackno)
             w == [u EXCEPT !.sndWnd = m.win, !.sndWl1 = m.seq, !.sndWl2 = m.ackno]
  <2>1. Keeps(u, t)
    BY <1>0, AckedKeeps, ZenonT(60)
  <2>2. tcpAckUpdate(t, m) = IF NewerWindow(u, m) THEN tcpMaybeArmPersist(w) ELSE u
    BY <1>2, ZenonT(60) DEF tcpAckUpdate
  <2> HIDE DEF u
  <2>3. IsBlock(u) /\ IsRecord(u)
    BY <2>1, ZenonT(60) DEF Keeps, IsBlock
  <2>4. w = [f \in Fields |-> IF f = "sndWl2" THEN m.ackno ELSE IF f = "sndWl1" THEN m.seq
                              ELSE IF f = "sndWnd" THEN m.win ELSE u[f]]
    BY <2>3, ZenonT(60) DEF IsRecord, Fields
  <2> HIDE DEF w
  <2>5. SameBut(w, u, Plain)
    BY <2>4, ZenonT(60) DEF SameBut, IsRecord, Plain, Fields
  <2>6. SameBut(tcpMaybeArmPersist(w), u, Plain)
    <3> DEFINE b == w.sndWnd = 0 /\ (w.txBuf # <<>> \/ w.persist)
    <3>1. tcpMaybeArmPersist(w) = [f \in Fields |-> IF f = "persist" THEN b ELSE w[f]]
      BY <2>5, ZenonT(60) DEF tcpMaybeArmPersist, SameBut, IsRecord, Fields
    <3> HIDE DEF b
    <3> QED
      BY <2>5, <3>1, ZenonT(60) DEF SameBut, IsRecord, Plain, Fields
  <2>7. Keeps(tcpMaybeArmPersist(w), u)
    BY <2>3, <2>6, PlainKeeps, ZenonT(60)
  <2> QED
    BY <2>1, <2>2, <2>7, KeepsTwice, ZenonT(60)
<1> QED
  BY <1>1, <1>2, ZenonT(60)

\* The length of two sequences joined.
LEMMA JoinedLength ==
    ASSUME NEW S, NEW a \in Seq(S), NEW b \in Seq(S)
    PROVE  a \o b \in Seq(S) /\ Len(a \o b) = Len(a) + Len(b)
OBVIOUS

\* A segment the network can deliver.
IsSegment(m) == m.conn \in Conns /\ m.len \in Nat /\ m.seq \in Int

\* rbWrite: what is taken of the payload fits the ring, and the window shrinks
\* by as much.
LEMMA BufferedKeeps ==
    ASSUME NEW t, IsBlock(t), NEW m, IsSegment(m), NEW u, u = Buffered(t, m)
    PROVE  Keeps(u, t)
<1> DEFINE n == Min2(m.len, BufCap - Len(t.rxBuf))
           b == t.rxBuf \o [i \in 1..n |-> <<m.conn, Position(m.seq) + i - 1>>]
           w == IF t.rcvWnd > n THEN t.rcvWnd - n ELSE 0
<1>1. u = [f \in Fields |-> IF f = "rcvWnd" THEN w ELSE IF f = "rcvNxt" THEN Plus(t.rcvNxt, n)
                            ELSE IF f = "rxBuf" THEN b ELSE t[f]]
  BY ZenonT(60) DEF Buffered, IsBlock, IsRecord, Fields
<1>2. /\ t.rcvWnd \in 0..BufCap /\ t.rxBuf \in Seq(Bytes) /\ Len(t.rxBuf) <= BufCap
      /\ t.active /\ t.clean => t.rcvWnd + Len(t.rxBuf) <= BufCap
      /\ t.clean \in BOOLEAN
  BY ZenonT(60) DEF IsBlock, ReceiveOK
<1>3. n \in Nat /\ Len(t.rxBuf) + n <= BufCap
  BY <1>2, BlockAssumption DEF IsSegment, Min2
<1>4. b \in Seq(Bytes) /\ Len(b) = Len(t.rxBuf) + n
  <2> HIDE DEF n
  <2>1. Position(m.seq) \in Int
    BY BlockAssumption DEF IsSegment, Position, Dist
  <2>2. \A i \in 1..n : <<m.conn, Position(m.seq) + i - 1>> \in Bytes
    BY <1>3, <2>1 DEF IsSegment, Bytes
  <2>3. [i \in 1..n |-> <<m.conn, Position(m.seq) + i - 1>>] \in Seq(Bytes)
    BY <1>3, <2>2
  <2>4. Len([i \in 1..n |-> <<m.conn, Position(m.seq) + i - 1>>]) = n
    BY <1>3, <2>3
  <2> QED
    BY <1>2, <2>3, <2>4, JoinedLength, ZenonT(60)
<1>5. /\ w \in 0..BufCap
      /\ t.rcvWnd + Len(t.rxBuf) <= BufCap => w + Len(b) <= BufCap
  <2> HIDE DEF b, n
  <2> QED
    BY <1>2, <1>3, <1>4, BlockAssumption
<1> HIDE DEF n, b, w
<1>6. u.clean = t.clean /\ u.active = t.active /\ u.rcvWnd = w /\ u.rxBuf = b
  BY <1>1, ZenonT(60) DEF Fields
<1>7. SameBut(u, t, ReceiveFields)
  BY <1>1, ZenonT(60) DEF SameBut, IsRecord, ReceiveFields, Fields
<1>8. ReceiveOK(u)
  BY <1>2, <1>3, <1>4, <1>5, <1>6, ZenonT(60) DEF ReceiveOK
<1> QED
  BY <1>7, <1>8, ReceiveHalf, ZenonT(60)

\* rbRead frees the window it frees the ring.
LEMMA DrainedKeeps ==
    ASSUME NEW t, IsBlock(t), NEW n \in 1..Len(t.rxBuf), NEW u, u = Drained(t, n)
    PROVE  Keeps(u, t)
<1> DEFINE b == SubSeq(t.rxBuf, n + 1, Len(t.rxBuf))
           w == Min2(t.rcvWnd + n, BufCap)
<1>1. u = [f \in Fields |-> IF f = "rcvWnd" THEN w ELSE IF f = "rxBuf" THEN b ELSE t[f]]
  BY ZenonT(60) DEF Drained, IsBlock, IsRecord, Fields
<1>2. /\ t.rcvWnd \in 0..BufCap /\ t.rxBuf \in Seq(Bytes) /\ Len(t.rxBuf) <= BufCap
      /\ t.active /\ t.clean => t.rcvWnd + Len(t.rxBuf) <= BufCap
      /\ t.clean \in BOOLEAN
  BY ZenonT(60) DEF IsBlock, ReceiveOK
<1>3. b \in Seq(Bytes) /\ Len(b) = Len(t.rxBuf) - n
  BY <1>2
<1>4. w \in 0..BufCap /\ Len(b) <= BufCap
      /\ (t.rcvWnd + Len(t.rxBuf) <= BufCap => w + Len(b) <= BufCap)
  <2> HIDE DEF b
  <2> QED
    BY <1>2, <1>3, BlockAssumption DEF Min2
<1> HIDE DEF b, w
<1>6. u.clean = t.clean /\ u.active = t.active /\ u.rcvWnd = w /\ u.rxBuf = b
  BY <1>1, ZenonT(60) DEF Fields
<1>7. SameBut(u, t, ReceiveFields)
  BY <1>1, ZenonT(60) DEF SameBut, IsRecord, ReceiveFields, Fields
<1>8. ReceiveOK(u)
  BY <1>2, <1>3, <1>4, <1>6, ZenonT(60) DEF ReceiveOK
<1> QED
  BY <1>7, <1>8, ReceiveHalf, ZenonT(60)

\* sys_shutdown's reset of the ring.
LEMMA EmptyKeeps ==
    ASSUME NEW t, IsBlock(t), NEW u, u = [t EXCEPT !.rxBuf = <<>>]
    PROVE  Keeps(u, t)
<1>1. u = [f \in Fields |-> IF f = "rxBuf" THEN <<>> ELSE t[f]]
  BY ZenonT(60) DEF IsBlock, IsRecord, Fields
<1>2. /\ u.clean = t.clean /\ u.active = t.active /\ u.rcvWnd = t.rcvWnd /\ u.rxBuf = <<>>
      /\ SameBut(u, t, ReceiveFields)
  BY <1>1, ZenonT(60) DEF SameBut, IsRecord, ReceiveFields, Fields
<1>3. /\ <<>> \in Seq(Bytes) /\ Len(<<>>) <= BufCap
      /\ t.rcvWnd \in 0..BufCap => t.rcvWnd + Len(<<>>) <= BufCap
  BY BlockAssumption
<1>4. ReceiveOK(u)
  BY <1>2, <1>3, ZenonT(60) DEF IsBlock, ReceiveOK
<1> QED
  BY <1>2, <1>4, ReceiveHalf, ZenonT(60)

\* The step past a FIN, the third duplicate ACK, and payload in order.
LEMMA SmallSteps ==
    ASSUME NEW t, IsBlock(t), NEW m, IsSegment(m)
    PROVE  /\ Keeps(PastFin(t), t) /\ Keeps(FastRetransmit(t), t)
           /\ Keeps(BufferedInOrder(t, m), t) /\ Keeps(t, t)
<1>1. Keeps(PastFin(t), t)
  <2>1. PastFin(t) = [f \in Fields |-> IF f = "rcvNxt" THEN Plus(t.rcvNxt, 1) ELSE t[f]]
    BY ZenonT(60) DEF PastFin, IsBlock, IsRecord, Fields
  <2>2. SameBut(PastFin(t), t, Plain)
    BY <2>1, ZenonT(60) DEF SameBut, IsRecord, Plain, Fields
  <2> QED
    BY <2>2, PlainKeeps, ZenonT(60)
<1>2. Keeps(FastRetransmit(t), t)
  <2> DEFINE u == FastRetransmit(t)
  <2>1. u = [f \in Fields |-> IF f = "tries" THEN 0 ELSE IF f = "rto" THEN TRUE ELSE t[f]]
    BY ZenonT(60) DEF FastRetransmit, IsBlock, IsRecord, Fields
  <2> HIDE DEF u
  <2>2. /\ u.sndNxt = t.sndNxt /\ u.tries = 0 /\ u.rto = TRUE
        /\ u.retxQ = t.retxQ /\ u.txBuf = t.txBuf
    BY <2>1, ZenonT(60) DEF Fields
  <2>3. 0 \in 0..MaxRetx
    BY TableAssumption
  <2>4. SameBut(u, t, SendFields) /\ SendOK(u)
    BY <2>1, <2>2, <2>3, ZenonT(60) DEF SameBut, IsRecord, SendFields, Fields, IsBlock, SendOK
  <2> QED
    BY <2>4, SendHalf, ZenonT(60) DEF u
<1>3. Keeps(t, t)
  BY ZenonT(60) DEF Keeps
<1> QED
  BY <1>1, <1>2, <1>3, BufferedKeeps, ZenonT(60) DEF BufferedInOrder

-----------------------------------------------------------------------------
(***************************************************************************)
(* The state handlers.                                                     *)
(***************************************************************************)
\* tcpHandleEstablished leaves the state or goes to CLOSE_WAIT.
LEMMA EstablishedOutcome ==
    ASSUME NEW t, IsBlock(t), NEW m, IsSegment(m), NEW u \in tcpHandleEstablished(t, m)
    PROVE  IsBlock(u) /\ u.state \in {t.state, "CLOSE_WAIT"}
<1>1. CASE m.seq # t.rcvNxt
  BY <1>1, ZenonT(60) DEF tcpHandleEstablished
<1>2. CASE m.seq = t.rcvNxt
  <2>1. PICK v \in IF tcpIsDuplicateACK(t, m) THEN {t, FastRetransmit(t)}
                   ELSE {tcpAckUpdate(t, m)} :
            u = IF m.fin THEN [PastFin(Buffered(v, m)) EXCEPT !.state = "CLOSE_WAIT"]
                ELSE Buffered(v, m)
    BY <1>2, ZenonT(60) DEF tcpHandleEstablished
  <2>2. Keeps(v, t)
    BY <2>1, SmallSteps, AckUpdateKeeps, ZenonT(60)
  <2>3. Keeps(Buffered(v, m), v)
    BY <2>2, BufferedKeeps, ZenonT(60) DEF Keeps
  <2>4. Keeps(PastFin(Buffered(v, m)), Buffered(v, m))
    BY <2>3, SmallSteps, ZenonT(60) DEF Keeps
  <2>5. "CLOSE_WAIT" \in States
    BY ZenonT(60) DEF States
  <2>6. CASE m.fin
    <3> DEFINE w == PastFin(Buffered(v, m))
    <3>1. IsBlock(w)
      BY <2>4, ZenonT(60) DEF Keeps
    <3>2. u = InState(w, "CLOSE_WAIT")
      BY <2>1, <2>6, ZenonT(60) DEF InState
    <3> HIDE DEF w
    <3> QED
      BY <2>5, <3>1, <3>2, StateChange, ZenonT(60)
  <2>7. CASE ~m.fin
    BY <2>1, <2>2, <2>3, <2>7, ZenonT(60) DEF Keeps
  <2> QED
    BY <2>6, <2>7, ZenonT(60)
<1> QED
  BY <1>1, <1>2, ZenonT(60)

\* The end of a handshake.
LEMMA Opened ==
    ASSUME NEW t, IsBlock(t), NEW m, NEW x, NEW u,
           \/ u = [AckedTo(t, m.ackno) EXCEPT !.state = "ESTABLISHED", !.sndWnd = m.win,
                      !.sndWl1 = m.seq, !.sndWl2 = m.ackno]
           \/ u = [AckedTo(t, m.ackno) EXCEPT !.state = "ESTABLISHED", !.rcvNxt = x,
                      !.sndWnd = m.win, !.sndWl1 = m.seq, !.sndWl2 = m.ackno]
    PROVE  IsBlock(u)
<1>1. PICK v : v = AckedTo(t, m.ackno) /\ IsBlock(v) /\ v = [f \in Fields |-> v[f]]
  <2>1. IsBlock(AckedTo(t, m.ackno))
    BY AckedKeeps, ZenonT(60) DEF Keeps
  <2>2. IsRecord(AckedTo(t, m.ackno))
    BY <2>1, ZenonT(60) DEF IsBlock
  <2> QED
    BY <2>1, <2>2, ZenonT(60) DEF IsRecord
<1>2. PICK w : IsBlock(w) /\ w = [v EXCEPT !.state = "ESTABLISHED"]
               /\ w = [f \in Fields |-> w[f]]
  <2>1. "ESTABLISHED" \in States
    BY ZenonT(60) DEF States
  <2>2. IsBlock(InState(v, "ESTABLISHED"))
    BY <1>1, <2>1, StateChange, ZenonT(60)
  <2>3. IsRecord(InState(v, "ESTABLISHED"))
    BY <2>2, ZenonT(60) DEF IsBlock
  <2> QED
    BY <2>2, <2>3, ZenonT(60) DEF IsRecord, InState
<1>3. CASE u = [w EXCEPT !.sndWnd = m.win, !.sndWl1 = m.seq, !.sndWl2 = m.ackno]
  <2>1. u = [f \in Fields |-> IF f = "sndWl2" THEN m.ackno ELSE IF f = "sndWl1" THEN m.seq
                              ELSE IF f = "sndWnd" THEN m.win ELSE w[f]]
    BY <1>2, <1>3, ZenonT(60) DEF Fields
  <2>2. SameBut(u, w, Plain)
    BY <2>1, ZenonT(60) DEF SameBut, IsRecord, Plain, Fields
  <2> QED
    BY <1>2, <2>2, PlainKeeps, ZenonT(60) DEF Keeps
<1>4. CASE u = [w EXCEPT !.rcvNxt = x, !.sndWnd = m.win, !.sndWl1 = m.seq,
                         !.sndWl2 = m.ackno]
  <2>1. u = [f \in Fields |-> IF f = "sndWl2" THEN m.ackno ELSE IF f = "sndWl1" THEN m.seq
                              ELSE IF f = "sndWnd" THEN m.win ELSE
                              IF f = "rcvNxt" THEN x ELSE w[f]]
    BY <1>2, <1>4, ZenonT(60) DEF Fields
  <2>2. SameBut(u, w, Plain)
    BY <2>1, ZenonT(60) DEF SameBut, IsRecord, Plain, Fields
  <2> QED
    BY <1>2, <2>2, PlainKeeps, ZenonT(60) DEF Keeps
<1> QED
  BY <1>1, <1>2, <1>3, <1>4, ZenonT(60)

\* tcpHandleSynReceived and tcpHandleSynSent.
LEMMA HandshakeOutcome ==
    ASSUME NEW t, IsBlock(t), NEW m, IsSegment(m),
           NEW u \in tcpHandleSynReceived(t, m) \cup tcpHandleSynSent(t, m)
    PROVE  IsBlock(u)
<1>1. ASSUME u \in tcpHandleSynReceived(t, m) PROVE IsBlock(u)
  <2> DEFINE v == [AckedTo(t, m.ackno) EXCEPT !.state = "ESTABLISHED", !.sndWnd = m.win,
                      !.sndWl1 = m.seq, !.sndWl2 = m.ackno]
  <2>1. IsBlock(v)
    BY Opened, ZenonT(60)
  <2>2. u = t \/ u = v \/ u \in tcpHandleEstablished(v, m)
    BY <1>1, ZenonT(60) DEF tcpHandleSynReceived
  <2> HIDE DEF v
  <2> QED
    BY <2>1, <2>2, EstablishedOutcome, ZenonT(60)
<1>2. ASSUME u \in tcpHandleSynSent(t, m) PROVE IsBlock(u)
  <2> DEFINE v == [AckedTo(t, m.ackno) EXCEPT !.state = "ESTABLISHED",
                      !.rcvNxt = Plus(m.seq, 1), !.sndWnd = m.win,
                      !.sndWl1 = m.seq, !.sndWl2 = m.ackno]
  <2>1. IsBlock(v)
    BY Opened, ZenonT(60)
  <2>2. u = t \/ u = tcbFree(t) \/ u = v \/ u \in tcpHandleEstablished(v, m)
    BY <1>2, ZenonT(60) DEF tcpHandleSynSent
  <2> HIDE DEF v
  <2> QED
    BY <2>1, <2>2, EstablishedOutcome, FreeBlock, ZenonT(60)
<1> QED
  BY <1>1, <1>2, ZenonT(60)

\* tcpHandleFinWait1, tcpHandleFinWait2, tcpHandleClosing and tcpHandleLastAck.
LEMMA ClosingOutcome ==
    ASSUME NEW t, IsBlock(t), NEW m, IsSegment(m),
           NEW u, \/ u \in tcpHandleFinWait1(t, m) \/ u \in tcpHandleFinWait2(t, m)
                  \/ u \in tcpHandleClosing(t, m) \/ u \in tcpHandleLastAck(t, m)
    PROVE  /\ IsBlock(u)
           /\ u.state \in {t.state, "TIME_WAIT", "FIN_WAIT_2", "CLOSING", "CLOSED"}
<1>0. "TIME_WAIT" \in States /\ "FIN_WAIT_2" \in States /\ "CLOSING" \in States
  BY ZenonT(60) DEF States
<1>1. ASSUME u \in tcpHandleFinWait1(t, m)
      PROVE  IsBlock(u) /\ u.state \in {t.state, "TIME_WAIT", "FIN_WAIT_2", "CLOSING"}
  <2> DEFINE b == BufferedInOrder(t, m)
             w == tcpAckUpdate(b, m)
             a == AckOfOurFin(b, m)
             f == FinTaken(w, m)
             v == IF f THEN PastFin(w) ELSE w
  <2>1. u = [v EXCEPT !.state = CASE a /\ f  -> "TIME_WAIT"
                                  [] a /\ ~f -> "FIN_WAIT_2"
                                  [] ~a /\ f -> "CLOSING"
                                  [] OTHER   -> v.state]
    BY <1>1, ZenonT(60) DEF tcpHandleFinWait1
  <2>2. Keeps(b, t)
    BY SmallSteps, ZenonT(60)
  <2> HIDE DEF b
  <2>3. IsBlock(b)
    BY <2>2, ZenonT(60) DEF Keeps
  <2>4. Keeps(w, b)
    BY <2>3, AckUpdateKeeps, ZenonT(60)
  <2> HIDE DEF w
  <2>5. IsBlock(w)
    BY <2>4, ZenonT(60) DEF Keeps
  <2>6. Keeps(v, w)
    BY <2>5, SmallSteps, ZenonT(60)
  <2> HIDE DEF v, a, f
  <2>7. v.state = t.state /\ IsBlock(v)
    BY <2>2, <2>4, <2>6, ZenonT(60) DEF Keeps
  <2>8. PICK x \in {t.state, "TIME_WAIT", "FIN_WAIT_2", "CLOSING"} : u = InState(v, x)
    BY <2>1, <2>7, ZenonT(60) DEF InState
  <2>9. t.state \in States
    BY ZenonT(60) DEF IsBlock, NameOK
  <2>10. x \in States
    BY <1>0, <2>8, <2>9, ZenonT(60)
  <2>11. IsBlock(u) /\ u.state = x
    BY <2>7, <2>8, <2>10, StateChange, ZenonT(60)
  <2> QED
    BY <2>8, <2>11, ZenonT(60)
<1>2. ASSUME u \in tcpHandleFinWait2(t, m)
      PROVE  IsBlock(u) /\ u.state \in {t.state, "TIME_WAIT"}
  <2>1. PICK a, b : /\ a = tcpAckUpdate(t, m) /\ b = BufferedInOrder(a, m)
                    /\ u = IF FinTaken(b, m) THEN [PastFin(b) EXCEPT !.state = "TIME_WAIT"]
                           ELSE b
    BY <1>2, ZenonT(60) DEF tcpHandleFinWait2
  <2>2. Keeps(a, t)
    BY <2>1, AckUpdateKeeps, ZenonT(60)
  <2>3. Keeps(b, a)
    BY <2>1, <2>2, SmallSteps, ZenonT(60) DEF Keeps
  <2>4. PICK c : c = PastFin(b) /\ Keeps(c, b)
    BY <2>3, SmallSteps, ZenonT(60) DEF Keeps
  <2>5. u = b \/ u = InState(c, "TIME_WAIT")
    BY <2>1, <2>4, ZenonT(60) DEF InState
  <2>6. CASE u = b
    BY <2>2, <2>3, <2>6, ZenonT(60) DEF Keeps
  <2>7. CASE u = InState(c, "TIME_WAIT")
    <3>1. IsBlock(c)
      BY <2>4, ZenonT(60) DEF Keeps
    <3> QED
      BY <1>0, <2>7, <3>1, StateChange, ZenonT(60)
  <2> QED
    BY <2>5, <2>6, <2>7, ZenonT(60)
<1>3. ASSUME u \in tcpHandleClosing(t, m)
      PROVE  IsBlock(u) /\ u.state \in {t.state, "TIME_WAIT"}
  <2>1. PICK a : /\ a = tcpAckUpdate(t, m)
                 /\ u = a \/ u = InState(a, "TIME_WAIT")
    BY <1>3, ZenonT(60) DEF tcpHandleClosing, InState
  <2>2. Keeps(a, t)
    BY <2>1, AckUpdateKeeps, ZenonT(60)
  <2>3. IsBlock(a) /\ a.state = t.state
    BY <2>2, ZenonT(60) DEF Keeps
  <2>4. CASE u = InState(a, "TIME_WAIT")
    BY <1>0, <2>3, <2>4, StateChange, ZenonT(60)
  <2> QED
    BY <2>1, <2>3, <2>4, ZenonT(60)
<1>4. ASSUME u \in tcpHandleLastAck(t, m)
      PROVE  IsBlock(u) /\ u.state \in {t.state, "CLOSED"}
  BY <1>4, FreeBlock, ZenonT(60) DEF tcpHandleLastAck
<1> QED
  BY <1>1, <1>2, <1>3, <1>4, ZenonT(60)

\* Whatever handler runs on whatever state, only those of the handshake open
\* a connection.
LEMMA HandledOutcome ==
    ASSUME NEW t, IsBlock(t), NEW m, IsSegment(m), NEW h, NEW u \in Handled(h, t, m)
    PROVE  /\ IsBlock(u)
           /\ h \notin {"SYN_SENT", "SYN_RECEIVED"} => u.state = t.state \/ u.state \notin Opening
<1>1. CASE h = "SYN_SENT" \/ h = "SYN_RECEIVED"
  <2>1. u \in tcpHandleSynReceived(t, m) \cup tcpHandleSynSent(t, m)
    BY <1>1, ZenonT(60) DEF Handled
  <2> QED
    BY <1>1, <2>1, HandshakeOutcome, ZenonT(60)
<1>2. CASE h = "ESTABLISHED"
  <2>1. u \in tcpHandleEstablished(t, m)
    BY <1>2, ZenonT(60) DEF Handled
  <2>2. IsBlock(u) /\ u.state \in {t.state, "CLOSE_WAIT"}
    BY <2>1, EstablishedOutcome, ZenonT(60)
  <2> QED
    BY <2>2, ZenonT(60) DEF Opening
<1>3. CASE h \in {"FIN_WAIT_1", "FIN_WAIT_2", "CLOSING", "LAST_ACK"}
  <2>1. \/ u \in tcpHandleFinWait1(t, m) \/ u \in tcpHandleFinWait2(t, m)
        \/ u \in tcpHandleClosing(t, m) \/ u \in tcpHandleLastAck(t, m)
    BY <1>3, ZenonT(60) DEF Handled
  <2>2. /\ IsBlock(u)
        /\ u.state \in {t.state, "TIME_WAIT", "FIN_WAIT_2", "CLOSING", "CLOSED"}
    BY <2>1, ClosingOutcome, ZenonT(60)
  <2> QED
    BY <2>2, ZenonT(60) DEF Opening
<1>4. CASE h \notin {"SYN_SENT", "SYN_RECEIVED", "ESTABLISHED", "FIN_WAIT_1", "FIN_WAIT_2",
                     "CLOSING", "LAST_ACK"}
  <2>1. u = t
    BY <1>4, ZenonT(60) DEF Handled
  <2> QED
    BY <2>1, ZenonT(60)
<1> QED
  BY <1>1, <1>2, <1>3, <1>4, ZenonT(60)

-----------------------------------------------------------------------------
(***************************************************************************)
(* Steps: what a change of one block, one listener or the registers of one *)
(* process does to the invariant.                                          *)
(***************************************************************************)
\* A block in the handshake, or free, stays so.
StaysEarly(u, t) == t.state \in Handshake => u.state \in Handshake

\* A connection that has begun to close does not open.
StaysClosing(u, t) ==
    t.active /\ u.active /\ u.conn = t.conn /\ t.state \notin Opening \cup {"CLOSED"}
    => u.state \notin Opening

Moves(u, t) == IsBlock(u) /\ StaysEarly(u, t) /\ StaysClosing(u, t)

\* What every step but a handler's does to the blocks.
Moved == Blocks' /\ \A s \in Slots : Moves(tcb'[s], tcb[s])

\* A change that keeps the state is such a move.
LEMMA KeepsMoves == ASSUME NEW t, NEW u, Keeps(u, t) PROVE Moves(u, t)
BY ZenonT(60) DEF Keeps, Moves, StaysEarly, StaysClosing

\* So is tcbFree.
LEMMA FreeMoves == ASSUME NEW t, IsBlock(t) PROVE Moves(tcbFree(t), t)
<1>1. PICK u : u = tcbFree(t) /\ IsBlock(u) /\ u.active = FALSE /\ u.state = "CLOSED"
  BY FreeBlock, ZenonT(60)
<1> QED
  BY <1>1, ZenonT(60) DEF Moves, StaysEarly, StaysClosing, Handshake

\* One block is written, the others stay as they are.
LEMMA SetMoved ==
    ASSUME Blocks, NEW s \in Slots, NEW u, Set(s, u), Moves(u, tcb[s])
    PROVE  Moved /\ tcb'[s] = u /\ \A x \in Slots \ {s} : tcb'[x] = tcb[x]
<1>1. tcb' = [x \in Slots |-> IF x = s THEN u ELSE tcb[x]]
  BY ZenonT(60) DEF Set, Blocks
<1>2. \A x \in Slots : tcb'[x] = IF x = s THEN u ELSE tcb[x]
  BY <1>1, ZenonT(60)
<1>3. \A x \in Slots : Moves(tcb[x], tcb[x])
  BY ZenonT(60) DEF Blocks, Moves, StaysEarly, StaysClosing
<1>4. \A x \in Slots : Moves(tcb'[x], tcb[x])
  BY <1>2, <1>3, ZenonT(60)
<1>5. Blocks'
  <2>1. \A x \in Slots : IsBlock(tcb'[x])
    BY <1>4, ZenonT(60) DEF Moves
  <2>2. tcb' = [x \in Slots |-> tcb'[x]]
    BY <1>1, ZenonT(60)
  <2> QED
    BY <2>1, <2>2, ZenonT(60) DEF Blocks
<1> QED
  BY <1>2, <1>4, <1>5, ZenonT(60) DEF Moved

\* No block is written.
LEMMA SameMoved == ASSUME Blocks, tcb' = tcb PROVE Moved
<1>1. \A x \in Slots : Moves(tcb[x], tcb[x])
  BY ZenonT(60) DEF Blocks, Moves, StaysEarly, StaysClosing
<1> QED
  BY <1>1, ZenonT(60) DEF Blocks, Moved

\* netRxLoop's segment is for a block that others only keep in the handshake.
LEMMA RxKept == ASSUME RxAt, Moved, rx' = rx PROVE RxAt'
BY ZenonT(60) DEF RxAt, Moved, Moves, StaysEarly

\* The first entry of a table that a search finds.
LEMMA LowestIsIn ==
    ASSUME NEW S, S \subseteq Nat, S # {}
    PROVE  Lowest(S) \in S
<1> DEFINE R == OpToRel(<, Nat)
<1>1. PICK x \in S : \A y \in S : ~(<<y, x>> \in R)
  <2>1. IsWellFoundedOn(R, Nat)
    BY NatLessThanWellFounded, ZenonT(60)
  <2> HIDE DEF R
  <2> QED
    BY <2>1, WFMin, ZenonT(60)
<1>2. \A y \in S : ~(y < x)
  BY <1>1, ZenonT(60) DEF OpToRel
<1>3. \A y \in S : x <= y
  BY <1>2
<1> QED
  BY <1>3, ZenonT(60) DEF Lowest

\* A process outside system calls.
LEMMA NoRegIsReg == IsReg(NoReg, "user")
<1>1. <<>> \in Seq(Slots) /\ 0 \in Int
  OBVIOUS
<1>2. NoReg = [f \in RegFields |-> NoReg[f]]
  BY ZenonT(60) DEF NoReg, RegFields
<1>3. NoReg.n = 0 /\ NoReg.ret = "user" /\ NoReg.list = <<>>
  BY ZenonT(60) DEF NoReg
<1>4. "user" \notin WithBlock
  BY ZenonT(60) DEF WithBlock
<1> QED
  BY <1>1, <1>2, <1>3, <1>4, ZenonT(60) DEF IsReg

\* A process goes on in its call, or returns.
LEMMA GotoRegs ==
    ASSUME Regs, NEW u \in Users, NEW p, NEW r, Goto(u, p, r), p # "user" => IsReg(r, p)
    PROVE  Regs'
<1> DEFINE q == IF p = "user" THEN NoReg ELSE r
<1>1. IsReg(q, p)
  BY NoRegIsReg, ZenonT(60)
<1>2. upc' = [x \in Users |-> IF x = u THEN p ELSE upc[x]]
  BY ZenonT(60) DEF Goto, Regs
<1>3. reg' = [x \in Users |-> IF x = u THEN q ELSE reg[x]]
  BY ZenonT(60) DEF Goto, Regs
<1> HIDE DEF q
<1>4. \A x \in Users : IsReg(reg'[x], upc'[x])
  BY <1>1, <1>2, <1>3, ZenonT(60) DEF Regs
<1>5. upc' = [x \in Users |-> upc'[x]] /\ reg' = [x \in Users |-> reg'[x]]
  BY <1>2, <1>3, ZenonT(60)
<1> QED
  BY <1>4, <1>5, ZenonT(60) DEF Regs

\* Registers with a block in hand.
LEMMA RegWith ==
    ASSUME NEW r, NEW p2 \in WithBlock \cup {"lclose"},
           r = [f \in RegFields |-> r[f]], r.n \in Int, r.list \in Seq(Slots),
           r.ret \in {"user", "reset", "lcheck"}, r.slot \in Slots \/ p2 = "lclose"
    PROVE  IsReg(r, p2)
<1>1. "lclose" \notin WithBlock
  BY ZenonT(60) DEF WithBlock
<1> QED
  BY <1>1, ZenonT(60) DEF IsReg

\* The queues of a listener in a process's hands.
LEMMA ListIsReg ==
    ASSUME NEW l \in Seq(Slots)
    PROVE  IsReg([NoReg EXCEPT !.list = l], "lclose")
<1>1. 0 \in Int
  OBVIOUS
<1>2. NoReg = [f \in RegFields |-> NoReg[f]]
  BY ZenonT(60) DEF NoReg, RegFields
<1>3. NoReg.n = 0 /\ NoReg.ret = "user"
  BY ZenonT(60) DEF NoReg
<1> DEFINE r == [NoReg EXCEPT !.list = l]
<1>4. r = [f \in RegFields |-> IF f = "list" THEN l ELSE NoReg[f]]
  BY <1>2, ZenonT(60) DEF RegFields
<1> HIDE DEF r
<1>5. /\ r = [f \in RegFields |-> r[f]]
      /\ r.n = NoReg.n /\ r.ret = NoReg.ret /\ r.list = l
  BY <1>4, ZenonT(60) DEF RegFields
<1>6. IsReg(r, "lclose")
  BY <1>1, <1>3, <1>5, RegWith, ZenonT(60)
<1> QED
  BY <1>6, ZenonT(60) DEF r

\* The registers a call starts with.
LEMMA FirstRegs ==
    ASSUME NEW s \in Slots, NEW x \in {"user", "reset", "lcheck"}, NEW p \in WithBlock
    PROVE  /\ IsReg([NoReg EXCEPT !.slot = s], p)
           /\ IsReg([NoReg EXCEPT !.slot = s, !.ret = x], p)
<1>1. /\ <<>> \in Seq(Slots) /\ 0 \in Int
  OBVIOUS
<1>2. NoReg = [f \in RegFields |-> NoReg[f]]
  BY ZenonT(60) DEF NoReg, RegFields
<1>3. NoReg.n = 0 /\ NoReg.ret = "user" /\ NoReg.list = <<>>
  BY ZenonT(60) DEF NoReg
<1>4. IsReg([NoReg EXCEPT !.slot = s], p)
  <2> DEFINE r == [NoReg EXCEPT !.slot = s]
  <2>1. r = [f \in RegFields |-> IF f = "slot" THEN s ELSE NoReg[f]]
    BY <1>2, ZenonT(60) DEF RegFields
  <2> HIDE DEF r
  <2>2. /\ r = [f \in RegFields |-> r[f]]
        /\ r.slot = s /\ r.n = NoReg.n /\ r.ret = NoReg.ret /\ r.list = NoReg.list
    BY <2>1, ZenonT(60) DEF RegFields
  <2>3. IsReg(r, p)
    BY <1>1, <1>3, <2>2, RegWith, ZenonT(60)
  <2> QED
    BY <2>3, ZenonT(60) DEF r
<1>5. IsReg([NoReg EXCEPT !.slot = s, !.ret = x], p)
  <2> DEFINE r == [NoReg EXCEPT !.slot = s, !.ret = x]
  <2>1. r = [f \in RegFields |-> IF f = "ret" THEN x ELSE IF f = "slot" THEN s ELSE NoReg[f]]
    BY <1>2, ZenonT(60) DEF RegFields
  <2> HIDE DEF r
  <2>2. /\ r = [f \in RegFields |-> r[f]]
        /\ r.slot = s /\ r.n = NoReg.n /\ r.ret = x /\ r.list = NoReg.list
    BY <2>1, ZenonT(60) DEF RegFields
  <2>3. IsReg(r, p)
    BY <1>1, <1>3, <2>2, RegWith, ZenonT(60)
  <2> QED
    BY <2>3, ZenonT(60) DEF r
<1> QED
  BY <1>4, <1>5, ZenonT(60)

\* A process goes on with the block it has, its count or its result changed.
LEMMA NextRegs ==
    ASSUME NEW r, NEW p \in WithBlock, IsReg(r, p), NEW p2 \in WithBlock \cup {"lclose"},
           NEW n \in Int, NEW b
    PROVE  IsReg(r, p2) /\ IsReg([r EXCEPT !.n = n], p2) /\ IsReg([r EXCEPT !.ok = b], p2)
<1>1. /\ r = [f \in RegFields |-> r[f]] /\ r.n \in Int /\ r.list \in Seq(Slots)
      /\ r.ret \in {"user", "reset", "lcheck"} /\ r.slot \in Slots
  BY ZenonT(60) DEF IsReg
<1>2. IsReg(r, p2)
  BY <1>1, RegWith, ZenonT(60)
<1>3. IsReg([r EXCEPT !.n = n], p2)
  <2> DEFINE q == [r EXCEPT !.n = n]
  <2>1. q = [f \in RegFields |-> IF f = "n" THEN n ELSE r[f]]
    BY <1>1, ZenonT(60) DEF RegFields
  <2> HIDE DEF q
  <2>2. /\ q = [f \in RegFields |-> q[f]]
        /\ q.slot = r.slot /\ q.n = n /\ q.ret = r.ret /\ q.list = r.list
    BY <2>1, ZenonT(60) DEF RegFields
  <2>3. IsReg(q, p2)
    BY <1>1, <2>2, RegWith, ZenonT(60)
  <2> QED
    BY <2>3, ZenonT(60) DEF q
<1>4. IsReg([r EXCEPT !.ok = b], p2)
  <2> DEFINE q == [r EXCEPT !.ok = b]
  <2>1. q = [f \in RegFields |-> IF f = "ok" THEN b ELSE r[f]]
    BY <1>1, ZenonT(60) DEF RegFields
  <2> HIDE DEF q
  <2>2. /\ q = [f \in RegFields |-> q[f]]
        /\ q.slot = r.slot /\ q.n = r.n /\ q.ret = r.ret /\ q.list = r.list
    BY <2>1, ZenonT(60) DEF RegFields
  <2>3. IsReg(q, p2)
    BY <1>1, <2>2, RegWith, ZenonT(60)
  <2> QED
    BY <2>3, ZenonT(60) DEF q
<1> QED
  BY <1>2, <1>3, <1>4, ZenonT(60)

\* The next connection of a closed listener.
LEMMA ListRegs ==
    ASSUME NEW r, NEW p, IsReg(r, p), NEW p2 \in WithBlock, NEW s \in Slots,
           NEW q, q = [r EXCEPT !.slot = s, !.ret = "lcheck", !.list = Tail(@)],
           r.list # <<>>
    PROVE  IsReg(q, p2)
<1>1. /\ r = [f \in RegFields |-> r[f]] /\ r.n \in Int /\ r.list \in Seq(Slots)
  BY ZenonT(60) DEF IsReg
<1>2. Tail(r.list) \in Seq(Slots)
  BY <1>1
<1>3. q = [f \in RegFields |-> IF f = "list" THEN Tail(r.list) ELSE
                              IF f = "ret" THEN "lcheck" ELSE IF f = "slot" THEN s ELSE r[f]]
  BY <1>1, ZenonT(60) DEF RegFields
<1>4. /\ q = [f \in RegFields |-> q[f]]
      /\ q.slot = s /\ q.n = r.n /\ q.ret = "lcheck" /\ q.list = Tail(r.list)
  BY <1>3, ZenonT(60) DEF RegFields
<1> QED
  BY <1>1, <1>2, <1>4, RegWith, ZenonT(60)

\* A queue with one entry shifted out.
LEMMA ShiftedLeft ==
    ASSUME NEW q \in Seq(Slots), NEW s, Queued(q, s)
    PROVE  ShiftLeft(q, s) \in Seq(Slots) /\ Len(ShiftLeft(q, s)) = Len(q) - 1
<1> DEFINE idx == CHOOSE i \in 1..Len(q) : q[i] = s /\ \A j \in 1..(i - 1) : q[j] # s
           p == [i \in 1..(Len(q) - 1) |-> IF i < idx THEN q[i] ELSE q[i + 1]]
<1>1. ShiftLeft(q, s) = p
  BY ZenonT(60) DEF ShiftLeft
<1>2. Len(q) - 1 \in Nat
  BY DEF Queued
<1> HIDE DEF idx
<1>3. p \in Seq(Slots) /\ Len(p) = Len(q) - 1
  BY <1>2
<1> QED
  BY <1>1, <1>3, ZenonT(60)

\* One listener changes.
LEMMA ListenerSet ==
    ASSUME Lists, NEW l \in Listeners, NEW k, IsListener(k),
           lst' = [x \in Listeners |-> IF x = l THEN k ELSE lst[x]]
    PROVE  Lists'
<1>1. lst' = [x \in Listeners |-> lst'[x]] /\ \A x \in Listeners : IsListener(lst'[x])
  BY ZenonT(60) DEF Lists
<1> QED
  BY <1>1, ZenonT(60) DEF Lists

\* The queues of a listener become p and a.
LEMMA QueuesSet ==
    ASSUME NEW k, IsListener(k), NEW p \in Seq(Slots), NEW a \in Seq(Slots),
           Len(p) + Len(a) <= Depth, NEW j,
           \/ j = [k EXCEPT !.pending = p, !.accept = a]
           \/ j = [k EXCEPT !.pending = p] /\ a = k.accept
           \/ j = [k EXCEPT !.accept = a] /\ p = k.pending
           \/ j = [k EXCEPT !.active = FALSE, !.pending = p, !.accept = a]
    PROVE  IsListener(j)
<1>0. k = [f \in ListenerFields |-> k[f]]
  BY ZenonT(60) DEF IsListener
<1>1. CASE j = [k EXCEPT !.pending = p, !.accept = a]
  <2>1. j = [f \in ListenerFields |-> IF f = "accept" THEN a ELSE
                                      IF f = "pending" THEN p ELSE k[f]]
    BY <1>0, <1>1, ZenonT(60) DEF ListenerFields
  <2>2. j = [f \in ListenerFields |-> j[f]] /\ j.pending = p /\ j.accept = a
    BY <2>1, ZenonT(60) DEF ListenerFields
  <2> QED
    BY <2>2, ZenonT(60) DEF IsListener
<1>2. CASE j = [k EXCEPT !.pending = p] /\ a = k.accept
  <2>1. j = [f \in ListenerFields |-> IF f = "pending" THEN p ELSE k[f]]
    BY <1>0, <1>2, ZenonT(60) DEF ListenerFields
  <2>2. j = [f \in ListenerFields |-> j[f]] /\ j.pending = p /\ j.accept = a
    BY <1>2, <2>1, ZenonT(60) DEF ListenerFields
  <2> QED
    BY <2>2, ZenonT(60) DEF IsListener
<1>3. CASE j = [k EXCEPT !.accept = a] /\ p = k.pending
  <2>1. j = [f \in ListenerFields |-> IF f = "accept" THEN a ELSE k[f]]
    BY <1>0, <1>3, ZenonT(60) DEF ListenerFields
  <2>2. j = [f \in ListenerFields |-> j[f]] /\ j.pending = p /\ j.accept = a
    BY <1>3, <2>1, ZenonT(60) DEF ListenerFields
  <2> QED
    BY <2>2, ZenonT(60) DEF IsListener
<1>4. CASE j = [k EXCEPT !.active = FALSE, !.pending = p, !.accept = a]
  <2>1. j = [f \in ListenerFields |-> IF f = "accept" THEN a ELSE IF f = "pending" THEN p
                                      ELSE IF f = "active" THEN FALSE ELSE k[f]]
    BY <1>0, <1>4, ZenonT(60) DEF ListenerFields
  <2>2. j = [f \in ListenerFields |-> j[f]] /\ j.pending = p /\ j.accept = a
    BY <2>1, ZenonT(60) DEF ListenerFields
  <2> QED
    BY <2>2, ZenonT(60) DEF IsListener
<1> QED
  BY <1>1, <1>2, <1>3, <1>4, ZenonT(60)

\* An entry shifted out makes room for one more.
LEMMA RoomFor ==
    ASSUME NEW S, NEW p \in Seq(S), NEW a \in Seq(S), NEW q \in Seq(S),
           Len(p) + Len(a) <= Depth, Len(q) = Len(p) - 1, NEW s \in S
    PROVE  /\ Len(q) + Len(a) <= Depth /\ Len(a) + Len(q) <= Depth
           /\ Append(a, s) \in Seq(S) /\ Len(q) + Len(Append(a, s)) <= Depth
<1>1. Depth \in Nat
  BY TableAssumption, ZenonT(60)
<1>2. Append(a, s) \in Seq(S) /\ Len(Append(a, s)) = Len(a) + 1
  OBVIOUS
<1>3. Len(a) \in Nat /\ Len(p) \in Nat
  OBVIOUS
<1> QED
  BY <1>1, <1>2, <1>3

\* tcpListenerPromote.
LEMMA PromotedLists ==
    ASSUME Lists, NEW l \in Listeners \cup {0}, NEW s \in Slots, lst' = Promoted(l, s)
    PROVE  Lists'
<1>1. CASE l = 0 \/ ~Queued(lst[l].pending, s)
  <2>1. lst' = lst
    BY <1>1, ZenonT(60) DEF Promoted
  <2> QED
    BY <2>1, ZenonT(60) DEF Lists
<1>2. CASE l # 0 /\ Queued(lst[l].pending, s)
  <2> DEFINE k == lst[l]
             p == ShiftLeft(k.pending, s)
             a == IF Len(k.accept) < Depth THEN Append(k.accept, s) ELSE k.accept
             j == [k EXCEPT !.pending = p, !.accept = a]
  <2>0. l \in Listeners /\ IsListener(k)
    BY <1>2, ZenonT(60) DEF Lists
  <2>1. /\ k.pending \in Seq(Slots) /\ k.accept \in Seq(Slots)
        /\ Len(k.pending) + Len(k.accept) <= Depth
    BY <2>0, ZenonT(60) DEF IsListener
  <2>2. p \in Seq(Slots) /\ Len(p) = Len(k.pending) - 1
    BY <1>2, <2>1, ShiftedLeft, ZenonT(60)
  <2>3. lst' = [x \in Listeners |-> IF x = l THEN j ELSE lst[x]]
    BY <1>2, <2>0, ZenonT(60) DEF Promoted, Lists
  <2> HIDE DEF p, k
  <2>4. a \in Seq(Slots) /\ Len(p) + Len(a) <= Depth
    BY <2>1, <2>2, RoomFor, ZenonT(60)
  <2> HIDE DEF a
  <2>5. IsListener(j)
    BY <2>0, <2>2, <2>4, QueuesSet, ZenonT(60)
  <2> HIDE DEF j
  <2> QED
    BY <2>0, <2>3, <2>5, ListenerSet, ZenonT(60)
<1> QED
  BY <1>1, <1>2, ZenonT(60)

\* tcpListenerRemove.
LEMMA RemovedLists ==
    ASSUME Lists, NEW l \in Listeners, NEW s \in Slots, lst' = Removed(l, s)
    PROVE  Lists'
<1> DEFINE k == lst[l]
<1>0. IsListener(k)
  BY ZenonT(60) DEF Lists
<1>1. /\ k.pending \in Seq(Slots) /\ k.accept \in Seq(Slots)
      /\ Len(k.pending) + Len(k.accept) <= Depth
  BY <1>0, ZenonT(60) DEF IsListener
<1>2. CASE Queued(k.pending, s)
  <2> DEFINE p == ShiftLeft(k.pending, s)
             j == [k EXCEPT !.pending = p]
  <2>1. p \in Seq(Slots) /\ Len(p) = Len(k.pending) - 1
    BY <1>1, <1>2, ShiftedLeft, ZenonT(60)
  <2>2. lst' = [x \in Listeners |-> IF x = l THEN j ELSE lst[x]]
    BY <1>2, ZenonT(60) DEF Removed, Lists
  <2> HIDE DEF p, k
  <2>3. Len(p) + Len(k.accept) <= Depth
    BY <1>1, <2>1, RoomFor, ZenonT(60)
  <2>4. IsListener(j)
    BY <1>0, <1>1, <2>1, <2>3, QueuesSet, ZenonT(60)
  <2> HIDE DEF j
  <2> QED
    BY <2>2, <2>4, ListenerSet, ZenonT(60)
<1>3. CASE ~Queued(k.pending, s) /\ Queued(k.accept, s)
  <2> DEFINE a == ShiftLeft(k.accept, s)
             j == [k EXCEPT !.accept = a]
  <2>1. a \in Seq(Slots) /\ Len(a) = Len(k.accept) - 1
    BY <1>1, <1>3, ShiftedLeft, ZenonT(60)
  <2>2. lst' = [x \in Listeners |-> IF x = l THEN j ELSE lst[x]]
    BY <1>3, ZenonT(60) DEF Removed, Lists
  <2> HIDE DEF a, k
  <2>3. Len(k.accept) + Len(k.pending) <= Depth
    <3>1. Len(k.accept) \in Nat /\ Len(k.pending) \in Nat
      BY <1>1
    <3>2. \A m, n \in Nat : m + n <= Depth => n + m <= Depth
      OBVIOUS
    <3> QED
      BY <1>1, <3>1, <3>2, ZenonT(60)
  <2>4. Len(k.pending) + Len(a) <= Depth
    BY <1>1, <2>1, <2>3, RoomFor, ZenonT(60)
  <2>5. IsListener(j)
    BY <1>0, <1>1, <2>1, <2>4, QueuesSet, ZenonT(60)
  <2> HIDE DEF j
  <2> QED
    BY <2>2, <2>5, ListenerSet, ZenonT(60)
<1>4. CASE ~Queued(k.pending, s) /\ ~Queued(k.accept, s)
  <2>1. lst' = lst
    BY <1>4, ZenonT(60) DEF Removed
  <2> QED
    BY <2>1, ZenonT(60) DEF Lists
<1> QED
  BY <1>2, <1>3, <1>4, ZenonT(60)

-----------------------------------------------------------------------------
(***************************************************************************)
(* The other changes of a block.                                           *)
(***************************************************************************)
\* A segment is sent again.
LEMMA AgainKeeps ==
    ASSUME NEW t, IsBlock(t), NEW u, u = [t EXCEPT !.tries = Min2(@ + 1, MaxRetx)]
    PROVE  Keeps(u, t)
<1> DEFINE k == Min2(t.tries + 1, MaxRetx)
<1>1. k \in 0..MaxRetx
  <2>1. t.tries \in 0..MaxRetx /\ MaxRetx \in Nat
    BY TableAssumption, ZenonT(60) DEF IsBlock, SendOK
  <2> QED
    BY <2>1 DEF Min2
<1>2. u = [f \in Fields |-> IF f = "tries" THEN k ELSE t[f]]
  BY ZenonT(60) DEF IsBlock, IsRecord, Fields
<1> HIDE DEF k
<1>3. SameBut(u, t, SendFields)
  BY <1>2, ZenonT(60) DEF SameBut, IsRecord, SendFields, Fields
<1>4. /\ u.tries = k /\ u.sndNxt = t.sndNxt /\ u.rto = t.rto
      /\ u.retxQ = t.retxQ /\ u.txBuf = t.txBuf
  BY <1>2, ZenonT(60) DEF Fields
<1>5. SendOK(u)
  BY <1>1, <1>4, ZenonT(60) DEF IsBlock, SendOK
<1> QED
  BY <1>3, <1>5, SendHalf, ZenonT(60)

\* The timer stops when nothing waits.
LEMMA StoppedKeeps ==
    ASSUME NEW t, IsBlock(t), NEW u, t.retxQ = <<>>, u = [t EXCEPT !.rto = FALSE]
    PROVE  Keeps(u, t)
<1>2. u = [f \in Fields |-> IF f = "rto" THEN FALSE ELSE t[f]]
  BY ZenonT(60) DEF IsBlock, IsRecord, Fields
<1>3. SameBut(u, t, SendFields)
  BY <1>2, ZenonT(60) DEF SameBut, IsRecord, SendFields, Fields
<1>4. /\ u.tries = t.tries /\ u.sndNxt = t.sndNxt /\ u.rto = FALSE
      /\ u.retxQ = t.retxQ /\ u.txBuf = t.txBuf
  BY <1>2, ZenonT(60) DEF Fields
<1>5. SendOK(u)
  BY <1>4, ZenonT(60) DEF IsBlock, SendOK
<1> QED
  BY <1>3, <1>5, SendHalf, ZenonT(60)

\* What a connection that gives up leaves in its slot.
LEMMA ClearedKeeps ==
    ASSUME NEW t, IsBlock(t), NEW u, u = [t EXCEPT !.rto = FALSE, !.retxQ = <<>>]
    PROVE  Keeps(u, t)
<1>1. <<>> \in Seq(Descriptors) /\ Len(<<>>) <= RetxMax
  BY BlockAssumption
<1>2. u = [f \in Fields |-> IF f = "retxQ" THEN <<>> ELSE
                            IF f = "rto" THEN FALSE ELSE t[f]]
  BY ZenonT(60) DEF IsBlock, IsRecord, Fields
<1>3. SameBut(u, t, SendFields)
  BY <1>2, ZenonT(60) DEF SameBut, IsRecord, SendFields, Fields
<1>4. /\ u.tries = t.tries /\ u.sndNxt = t.sndNxt /\ u.rto = FALSE
      /\ u.retxQ = <<>> /\ u.txBuf = t.txBuf
  BY <1>2, ZenonT(60) DEF Fields
<1>5. SendOK(u)
  BY <1>1, <1>4, ZenonT(60) DEF IsBlock, SendOK
<1> QED
  BY <1>3, <1>5, SendHalf, ZenonT(60)

\* The persist timer.
LEMMA PersistKeeps ==
    ASSUME NEW t, IsBlock(t), NEW x, NEW u, u = [t EXCEPT !.persist = x]
    PROVE  Keeps(u, t)
<1>2. u = [f \in Fields |-> IF f = "persist" THEN x ELSE t[f]]
  BY ZenonT(60) DEF IsBlock, IsRecord, Fields
<1>3. SameBut(u, t, Plain)
  BY <1>2, ZenonT(60) DEF SameBut, IsRecord, Plain, Fields
<1> QED
  BY <1>3, PlainKeeps, ZenonT(60)

\* A byte is written to txBuf, which has room for it.
LEMMA WrittenKeeps ==
    ASSUME NEW t, IsBlock(t), NEW b \in Bytes, Len(t.txBuf) # BufCap, NEW u,
           u = [t EXCEPT !.txBuf = Append(@, b)]
    PROVE  Keeps(u, t)
<1> DEFINE x == Append(t.txBuf, b)
<1>1. x \in Seq(Bytes) /\ Len(x) <= BufCap
  <2>1. PICK q \in Seq(Bytes) : q = t.txBuf /\ Len(q) <= BufCap /\ Len(q) # BufCap
    BY ZenonT(60) DEF IsBlock, SendOK
  <2>2. Append(q, b) \in Seq(Bytes) /\ Len(Append(q, b)) <= BufCap
    BY <2>1, BlockAssumption
  <2> QED
    BY <2>1, <2>2, ZenonT(60)
<1>2. u = [f \in Fields |-> IF f = "txBuf" THEN x ELSE t[f]]
  BY ZenonT(60) DEF IsBlock, IsRecord, Fields
<1> HIDE DEF x
<1>3. SameBut(u, t, SendFields)
  BY <1>2, ZenonT(60) DEF SameBut, IsRecord, SendFields, Fields
<1>4. /\ u.tries = t.tries /\ u.sndNxt = t.sndNxt /\ u.rto = t.rto
      /\ u.retxQ = t.retxQ /\ u.txBuf = x
  BY <1>2, ZenonT(60) DEF Fields
<1>5. SendOK(u)
  BY <1>1, <1>4, ZenonT(60) DEF IsBlock, SendOK
<1> QED
  BY <1>3, <1>5, SendHalf, ZenonT(60)

\* The block of a closed listener forgets it.
LEMMA ForgetKeeps ==
    ASSUME NEW t, IsBlock(t), NEW u, u = [t EXCEPT !.listener = 0]
    PROVE  Keeps(u, t)
<1>1. u = [f \in Fields |-> IF f = "listener" THEN 0 ELSE t[f]]
  BY ZenonT(60) DEF IsBlock, IsRecord, Fields
<1>2. /\ IsRecord(u) /\ u.active = t.active /\ u.conn = t.conn /\ u.state = t.state
      /\ u.listener = 0
      /\ u.clean = t.clean /\ u.rcvWnd = t.rcvWnd /\ u.rxBuf = t.rxBuf
      /\ u.sndNxt = t.sndNxt /\ u.tries = t.tries /\ u.rto = t.rto
      /\ u.retxQ = t.retxQ /\ u.txBuf = t.txBuf
  BY <1>1, ZenonT(60) DEF IsRecord, Fields
<1> QED
  BY <1>2, ZenonT(60) DEF Keeps, IsBlock, NameOK, SendOK, ReceiveOK

\* tcpClose.
LEMMA MarkedMoves ==
    ASSUME NEW t, IsBlock(t), Closable(t)
    PROVE  Moves(Marked(t), t)
<1> DEFINE u == Marked(t)
<1>1. PICK x \in {"FIN_WAIT_1", "LAST_ACK"} : u = InState(t, x)
  BY ZenonT(60) DEF Marked, InState
<1> HIDE DEF u
<1>2. x \in States /\ x \notin Opening /\ x \notin Handshake
  BY <1>1, ZenonT(60) DEF States, Opening, Handshake
<1>3. t.state \notin Handshake
  BY ZenonT(60) DEF Closable, Handshake
<1>4. IsBlock(u) /\ u.state = x
  BY <1>1, <1>2, StateChange, ZenonT(60)
<1>5. Moves(u, t)
  BY <1>2, <1>3, <1>4, ZenonT(60) DEF Moves, StaysEarly, StaysClosing
<1> QED
  BY <1>5, ZenonT(60) DEF u

-----------------------------------------------------------------------------
(***************************************************************************)
(* Every step keeps the invariant, and every block that closes closing.    *)
(***************************************************************************)
KeptClosing == \A s \in Slots : StaysClosing(tcb'[s], tcb[s])

\* What a step leaves alone keeps its part of the invariant.
LEMMA Framed ==
    ASSUME TcpInv, Moved, lst' = lst \/ Lists', rx' = rx \/ RxAt',
           (scan' = scan /\ saved' = saved) \/ ScanAt',
           (upc' = upc /\ reg' = reg) \/ Regs',
           (lsock' = lsock /\ csock' = csock /\ wrote' = wrote) \/ Socks'
    PROVE  TcpInv' /\ KeptClosing
<1>1. Blocks' /\ KeptClosing
  BY ZenonT(60) DEF Moved, Moves, KeptClosing
<1>2. Lists'
  BY ZenonT(60) DEF TcpInv, Lists
<1>3. RxAt'
  BY RxKept, ZenonT(60) DEF TcpInv
<1>4. ScanAt'
  BY ZenonT(60) DEF TcpInv, ScanAt
<1>5. Regs'
  BY ZenonT(60) DEF TcpInv, Regs
<1>6. Socks'
  BY ZenonT(60) DEF TcpInv, Socks
<1> QED
  BY <1>1, <1>2, <1>3, <1>4, <1>5, <1>6, ZenonT(60) DEF TcpInv

\* netRxLoop is done with a segment.
LEMMA IdleRx == ASSUME rx' = RxIdle PROVE RxAt'
BY ZenonT(60) DEF RxIdle, RxAt

\* A deadline armed anew.
LEMMA RearmScan == ASSUME ScanAt, NEW s, Rearm(s), saved' = saved PROVE ScanAt'
BY ZenonT(60) DEF ScanAt, Rearm

\* A block is found by its connection.
LEMMA LookupIsIn ==
    ASSUME NEW c, tcbLookup(c) # {}
    PROVE  Lowest(tcbLookup(c)) \in Slots /\ tcb[Lowest(tcbLookup(c))].active
<1>1. tcbLookup(c) \subseteq Nat
  BY TableAssumption, ZenonT(60) DEF tcbLookup
<1>2. Lowest(tcbLookup(c)) \in tcbLookup(c)
  BY <1>1, LowestIsIn, ZenonT(60)
<1> QED
  BY <1>2, ZenonT(60) DEF tcbLookup

\* tcbAlloc takes a block that is free.
LEMMA FreeSlotIsIn ==
    ASSUME FreeSlots # {}
    PROVE  Lowest(FreeSlots) \in Slots /\ ~tcb[Lowest(FreeSlots)].active
<1>1. FreeSlots \subseteq Nat
  BY TableAssumption, ZenonT(60) DEF FreeSlots
<1>2. Lowest(FreeSlots) \in FreeSlots
  BY <1>1, LowestIsIn, ZenonT(60)
<1> QED
  BY <1>2, ZenonT(60) DEF FreeSlots

\* tcpListenerLookup.
LEMMA ListenerIsIn ==
    ASSUME NEW p, tcpListenerLookup(p) # {}
    PROVE  Lowest(tcpListenerLookup(p)) \in Listeners
<1>1. tcpListenerLookup(p) \subseteq Nat
  BY TableAssumption, ZenonT(60) DEF tcpListenerLookup
<1>2. Lowest(tcpListenerLookup(p)) \in tcpListenerLookup(p)
  BY <1>1, LowestIsIn, ZenonT(60)
<1> QED
  BY <1>2, ZenonT(60) DEF tcpListenerLookup

\* A segment with RST frees the block.
LEMMA RxResetStep == ASSUME TcpInv, RxReset PROVE TcpInv' /\ KeptClosing
<1>1. PICK c \in Conns \cap present :
                         /\ tcbLookup(c) # {}
                         /\ Set(Lowest(tcbLookup(c)), tcbFree(tcb[Lowest(tcbLookup(c))]))
                         /\ UNCHANGED <<lst, rx, otherThanRx>>
  BY ZenonT(60) DEF RxReset
<1> DEFINE s == Lowest(tcbLookup(c))
<1>2. s \in Slots
  BY <1>1, LookupIsIn, ZenonT(60)
<1>3. Set(s, tcbFree(tcb[s]))
  BY <1>1, ZenonT(60)
<1> HIDE DEF s
<1>4. Moves(tcbFree(tcb[s]), tcb[s])
  BY <1>2, FreeMoves, ZenonT(60) DEF TcpInv, Blocks
<1>5. Moved
  BY <1>2, <1>3, <1>4, SetMoved, ZenonT(60) DEF TcpInv
<1> QED
  BY <1>1, <1>5, Framed, ZenonT(60) DEF otherThanRx

\* tcpDispatchToTCB.
LEMMA RxDispatchStep == ASSUME TcpInv, RxDispatch PROVE TcpInv' /\ KeptClosing
<1>1. PICK c \in Conns \cap present :
                         /\ tcbLookup(c) # {}
                         /\ LET s == Lowest(tcbLookup(c)) IN
                            rx' = [pc |-> "handle", slot |-> s, h |-> tcb[s].state, conn |-> c,
                                   seen |-> peer[c].got]
                         /\ UNCHANGED <<tcb, lst, peer, otherThanRx>>
  BY ZenonT(60) DEF RxDispatch
<1> DEFINE s == Lowest(tcbLookup(c))
<1>2. s \in Slots
  BY <1>1, LookupIsIn, ZenonT(60)
<1>3. /\ rx'.pc = "handle" /\ rx'.slot = s /\ rx'.h = tcb[s].state /\ rx'.conn = c
  BY <1>1, ZenonT(60)
<1> HIDE DEF s
<1>4. tcb' = tcb
  BY <1>1, ZenonT(60)
<1>5. RxAt'
  BY <1>2, <1>3, <1>4, ZenonT(60) DEF RxAt, Handshake
<1>6. Moved
  BY <1>4, SameMoved, ZenonT(60) DEF TcpInv
<1> QED
  BY <1>1, <1>5, <1>6, Framed, ZenonT(60) DEF otherThanRx

\* What the network delivers are segments.
LEMMA SegsAreSegments ==
    ASSUME NEW c \in Conns, NEW got, NEW m \in Segs(c, got)
    PROVE  IsSegment(m)
<1>1. ASSUME NEW f, NEW i \in Int, NEW k, NEW n \in Nat, NEW w
      PROVE  IsSegment(Seg(c, f, i, k, n, w))
  <2>1. Plus(IRS, i) \in Int
    BY BlockAssumption DEF Plus
  <2>2. /\ Seg(c, f, i, k, n, w).conn = c /\ Seg(c, f, i, k, n, w).len = n
        /\ Seg(c, f, i, k, n, w).seq = Plus(IRS, i)
    BY ZenonT(60) DEF Seg
  <2> QED
    BY <2>1, <2>2, ZenonT(60) DEF IsSegment
<1>0. PeerBytes[c] \in Nat
  BY TableAssumption
<1>2. 0 \in Int /\ 0 \in Nat /\ 1 \in Int /\ PeerBytes[c] + 2 \in Int
  BY <1>0
<1>3. CASE m \in SynSegs(c, got)
  <2>1. \E f, w : m = Seg(c, f, 0, 0, 0, w) \/ m = Seg(c, f, 0, 1, 0, w)
    BY <1>3, ZenonT(60) DEF SynSegs
  <2> QED
    BY <1>1, <1>2, <2>1, ZenonT(60)
<1>4. CASE m \in DataSegs(c, got)
  <2>1. PICK d \in [i : 1..(PeerBytes[c] + 2), k : 1..got, n : 0..PeerBytes[c],
                    w : Wins[c], fin : BOOLEAN] :
            m = Seg(c, [NoFlags EXCEPT !.ack = TRUE, !.fin = d.fin], d.i, d.k, d.n, d.w)
    BY <1>4, ZenonT(60) DEF DataSegs
  <2>2. d.i \in 1..(PeerBytes[c] + 2) /\ d.n \in 0..PeerBytes[c]
    BY <2>1
  <2>3. d.i \in Int /\ d.n \in Nat
    BY <2>2, <1>0
  <2> QED
    BY <1>1, <2>1, <2>3, ZenonT(60)
<1>5. CASE m \in RstSegs(c, got)
  <2>1. \E f, k : \E i \in {0, 1, PeerBytes[c] + 2} : m = Seg(c, f, i, k, 0, 0)
    BY <1>5 DEF RstSegs
  <2> QED
    BY <1>1, <1>2, <2>1, ZenonT(60)
<1> QED
  BY <1>3, <1>4, <1>5, ZenonT(60) DEF Segs

\* The handler runs on whatever the block is by then.
LEMMA RxHandleStep == ASSUME TcpInv, RxHandle PROVE TcpInv' /\ KeptClosing
<1> DEFINE s == rx.slot
           t == tcb[rx.slot]
<1>1. /\ s \in Slots /\ rx.conn \in Conns
      /\ rx.h \in {"SYN_SENT", "SYN_RECEIVED"} => t.state \in Handshake
  <2>1. rx.pc = "handle"
    BY ZenonT(60) DEF RxHandle
  <2>2. ASSUME NEW x \in Slots, NEW l \in Listeners, NEW p \in {"passive", "arm", "unwind"},
               rx = [pc |-> p, slot |-> x, l |-> l]
        PROVE  FALSE
    BY <2>1, <2>2, ZenonT(60)
  <2> QED
    BY <2>1, <2>2, ZenonT(60) DEF TcpInv, RxAt
<1>2. PICK m \in Segs(rx.conn, rx.seen) : \E u \in Handled(rx.h, t, m) :
          /\ Set(s, u)
          /\ lst' = IF rx.h = "SYN_RECEIVED" /\ m.ack /\ m.ackno = t.sndNxt
                    THEN Promoted(t.listener, s) ELSE lst
  BY ZenonT(60) DEF RxHandle
<1>3. PICK u \in Handled(rx.h, t, m) :
          /\ Set(s, u)
          /\ lst' = IF rx.h = "SYN_RECEIVED" /\ m.ack /\ m.ackno = t.sndNxt
                    THEN Promoted(t.listener, s) ELSE lst
  BY <1>2, ZenonT(60)
<1>4. rx' = RxIdle /\ UNCHANGED otherThanRx
  BY ZenonT(60) DEF RxHandle
<1> HIDE DEF s, t
<1>5. IsBlock(t) /\ t.listener \in Listeners \cup {0}
  BY <1>1, ZenonT(60) DEF s, t, TcpInv, Blocks, IsBlock, NameOK
<1>6. IsSegment(m)
  BY <1>1, <1>2, SegsAreSegments, ZenonT(60)
<1>7. /\ IsBlock(u)
      /\ rx.h \notin {"SYN_SENT", "SYN_RECEIVED"} => u.state = t.state \/ u.state \notin Opening
  BY <1>3, <1>5, <1>6, HandledOutcome, ZenonT(60)
<1>8. StaysClosing(u, t)
  BY <1>1, <1>7, ZenonT(60) DEF StaysClosing, Handshake, Opening
<1>9. tcb' = [x \in Slots |-> IF x = s THEN u ELSE tcb[x]]
  BY <1>1, <1>3, ZenonT(60) DEF Set, TcpInv, Blocks
<1>10. \A x \in Slots : tcb'[x] = IF x = s THEN u ELSE tcb[x]
  BY <1>9, ZenonT(60)
<1>11. Blocks'
  <2>1. \A x \in Slots : IsBlock(tcb'[x])
    BY <1>7, <1>10, ZenonT(60) DEF TcpInv, Blocks
  <2>2. tcb' = [x \in Slots |-> tcb'[x]]
    BY <1>9, ZenonT(60)
  <2> QED
    BY <2>1, <2>2, ZenonT(60) DEF Blocks
<1>12. KeptClosing
  <2>1. \A x \in Slots : StaysClosing(tcb[x], tcb[x])
    BY ZenonT(60) DEF StaysClosing
  <2>2. tcb[s] = t
    BY ZenonT(60) DEF s, t
  <2> QED
    BY <1>8, <1>10, <2>1, <2>2, ZenonT(60) DEF KeptClosing
<1>13. Lists'
  <2>1. CASE lst' = lst
    BY <2>1, ZenonT(60) DEF TcpInv, Lists
  <2>2. CASE lst' = Promoted(t.listener, s)
    BY <1>1, <1>5, <2>2, PromotedLists, ZenonT(60) DEF TcpInv
  <2> QED
    BY <1>3, <2>1, <2>2, ZenonT(60)
<1>14. RxAt'
  BY <1>4, IdleRx, ZenonT(60)
<1>15. ScanAt' /\ Regs' /\ Socks'
  BY <1>4, ZenonT(60) DEF otherThanRx, TcpInv, ScanAt, Regs, Socks
<1> QED
  BY <1>11, <1>12, <1>13, <1>14, <1>15, ZenonT(60) DEF TcpInv

\* A block is freed after a change that keeps it.
LEMMA FreedAfter ==
    ASSUME NEW t, NEW u, Keeps(u, t)
    PROVE  Moves(tcbFree(u), t)
<1>1. IsBlock(u)
  BY ZenonT(60) DEF Keeps
<1> DEFINE v == tcbFree(u)
<1>2. IsBlock(v) /\ v.active = FALSE /\ v.state = "CLOSED"
  BY <1>1, FreeBlock, ZenonT(60)
<1> HIDE DEF v
<1>3. Moves(v, t)
  BY <1>2, ZenonT(60) DEF Moves, StaysEarly, StaysClosing, Handshake
<1> QED
  BY <1>3, ZenonT(60) DEF v

\* tcpTryPassiveOpen holds a block and a listener.
LEMMA PassiveAt ==
    ASSUME RxAt, rx.pc \in {"passive", "arm", "unwind"}
    PROVE  /\ rx.slot \in Slots /\ rx.l \in Listeners
           /\ rx = [pc |-> rx.pc, slot |-> rx.slot, l |-> rx.l]
<1>1. PICK s \in Slots, l \in Listeners, p \in {"passive", "arm", "unwind"} :
          rx = [pc |-> p, slot |-> s, l |-> l]
  BY ZenonT(60) DEF RxAt
<1>2. rx.pc = p /\ rx.slot = s /\ rx.l = l
  BY <1>1, ZenonT(60)
<1> QED
  BY <1>1, <1>2, ZenonT(60)

\* The block of a SYN.
LEMMA RxPassiveOpenStep == ASSUME TcpInv, RxPassiveOpen PROVE TcpInv' /\ KeptClosing
<1>1. PICK c \in (UserConns \cup EchoConns) \cap present : \E m \in SynSegs(c, peer[c].got) :
          /\ tcpListenerLookup(Port(c)) # {} /\ FreeSlots # {}
          /\ LET l == Lowest(tcpListenerLookup(Port(c)))
                 s == Lowest(FreeSlots)
             IN /\ Set(s, PassiveInit(tcb[s], c, l, m))
                /\ rx' = [pc |-> "passive", slot |-> s, l |-> l]
          /\ UNCHANGED <<lst, otherThanRx>>
  BY ZenonT(60) DEF RxPassiveOpen
<1> DEFINE l == Lowest(tcpListenerLookup(Port(c)))
           s == Lowest(FreeSlots)
<1>2. PICK m : Set(s, PassiveInit(tcb[s], c, l, m))
  BY <1>1, ZenonT(60)
<1>3. s \in Slots /\ ~tcb[s].active
  BY <1>1, FreeSlotIsIn, ZenonT(60)
<1>4. l \in Listeners
  BY <1>1, ListenerIsIn, ZenonT(60)
<1>5. rx' = [pc |-> "passive", slot |-> s, l |-> l] /\ UNCHANGED <<lst, otherThanRx>>
  BY <1>1, ZenonT(60)
<1> HIDE DEF l, s
<1> DEFINE u == PassiveInit(tcb[s], c, l, m)
<1>6. IsBlock(tcb[s]) /\ c \in Conns
  BY <1>3, ZenonT(60) DEF TcpInv, Blocks, Conns
<1>7. IsBlock(u) /\ u.state = "SYN_RECEIVED"
  BY <1>4, <1>6, PassiveBlock, ZenonT(60)
<1>8. Set(s, u)
  BY <1>2, ZenonT(60)
<1> HIDE DEF u
<1>9. Moves(u, tcb[s])
  BY <1>3, <1>7, ZenonT(60) DEF Moves, StaysEarly, StaysClosing, Handshake
<1>10. Moved
  BY <1>3, <1>8, <1>9, SetMoved, ZenonT(60) DEF TcpInv
<1>11. RxAt'
  BY <1>3, <1>4, <1>5, ZenonT(60) DEF RxAt
<1> QED
  BY <1>5, <1>10, <1>11, Framed, ZenonT(60) DEF otherThanRx

\* A queue with room takes one more.
LEMMA JoinsQueue ==
    ASSUME NEW p \in Seq(Slots), NEW a \in Seq(Slots), NEW s \in Slots,
           ~(Len(p) + Len(a) >= Depth)
    PROVE  Append(p, s) \in Seq(Slots) /\ Len(Append(p, s)) + Len(a) <= Depth
<1>1. Depth \in Nat
  BY TableAssumption, ZenonT(60)
<1> QED
  BY <1>1

\* The SYN|ACK of a block that joins the pending queue.
LEMMA RxPassiveSendStep == ASSUME TcpInv, RxPassiveSend PROVE TcpInv' /\ KeptClosing
<1> DEFINE s == rx.slot
           l == rx.l
           t == [tcb[s] EXCEPT !.sndNxt = ISS]
           k == lst[l]
           q == Append(k.pending, s)
           j == [k EXCEPT !.pending = q]
<1>1. s \in Slots /\ l \in Listeners /\ rx = [pc |-> rx.pc, slot |-> s, l |-> l]
  BY PassiveAt, ZenonT(60) DEF RxPassiveSend, TcpInv
<1>2. UNCHANGED otherThanRx
  BY ZenonT(60) DEF RxPassiveSend
<1>3. IsBlock(tcb[s]) /\ IsListener(k)
  BY <1>1, ZenonT(60) DEF TcpInv, Blocks, Lists
<1>4. CASE Len(k.pending) + Len(k.accept) >= Depth
  <2>1. Set(s, tcbFree(tcb[s])) /\ rx' = RxIdle /\ lst' = lst
    BY <1>4, ZenonT(60) DEF RxPassiveSend
  <2> HIDE DEF s, l
  <2>2. Moved
    BY <1>1, <1>3, <2>1, FreeMoves, SetMoved, ZenonT(60) DEF TcpInv
  <2>3. RxAt'
    BY <2>1, IdleRx, ZenonT(60)
  <2> QED
    BY <1>2, <2>1, <2>2, <2>3, Framed, ZenonT(60) DEF otherThanRx
<1>5. CASE ~(Len(k.pending) + Len(k.accept) >= Depth)
  <2>1. /\ lst' = [lst EXCEPT ![l].pending = Append(@, s)]
        /\ Set(s, t)
        /\ \E p \in {"arm", "unwind"} : rx' = [rx EXCEPT !.pc = p]
    BY <1>5, ZenonT(60) DEF RxPassiveSend
  <2>2. Moved
    <3>1. ISS \in Int
      BY BlockAssumption
    <3>2. Keeps(t, tcb[s])
      BY <1>3, <3>1, NumberKeeps, ZenonT(60)
    <3> HIDE DEF s, t
    <3>3. Moves(t, tcb[s])
      BY <3>2, KeepsMoves, ZenonT(60)
    <3> QED
      BY <1>1, <2>1, <3>3, SetMoved, ZenonT(60) DEF TcpInv
  <2>3. \E p \in {"arm", "unwind"} : rx' = [pc |-> p, slot |-> s, l |-> l]
    <3> HIDE DEF s, l, t
    <3>1. PICK p \in {"arm", "unwind"} : rx' = [rx EXCEPT !.pc = p]
      BY <2>1, ZenonT(60)
    <3>2. \A a, b, c, d : [[pc |-> a, slot |-> b, l |-> c] EXCEPT !.pc = d]
                             = [pc |-> d, slot |-> b, l |-> c]
      OBVIOUS
    <3>3. PICK a : rx = [pc |-> a, slot |-> s, l |-> l]
      BY <1>1, ZenonT(60)
    <3>4. rx' = [[pc |-> a, slot |-> s, l |-> l] EXCEPT !.pc = p]
      BY <3>1, <3>3
    <3> QED
      BY <3>2, <3>4
  <2>4. RxAt'
    BY <1>1, <2>3, ZenonT(60) DEF RxAt
  <2>5. lst' = [x \in Listeners |-> IF x = l THEN j ELSE lst[x]]
    BY <2>1, ZenonT(60) DEF TcpInv, Lists
  <2> HIDE DEF s, l, t, k
  <2>6. k.pending \in Seq(Slots) /\ k.accept \in Seq(Slots)
    BY <1>3, ZenonT(60) DEF IsListener
  <2>8. q \in Seq(Slots) /\ Len(q) + Len(k.accept) <= Depth
    BY <1>1, <1>5, <2>6, JoinsQueue, ZenonT(60)
  <2> HIDE DEF q
  <2>9. IsListener(j)
    BY <1>3, <2>6, <2>8, QueuesSet, ZenonT(60)
  <2> HIDE DEF j
  <2>10. Lists'
    BY <1>1, <2>5, <2>9, ListenerSet, ZenonT(60) DEF TcpInv
  <2> QED
    BY <1>2, <2>2, <2>4, <2>10, Framed, ZenonT(60) DEF otherThanRx
<1> QED
  BY <1>4, <1>5, ZenonT(60)

\* The SYN|ACK has gone out.
LEMMA RxPassiveArmStep == ASSUME TcpInv, RxPassiveArm PROVE TcpInv' /\ KeptClosing
<1> DEFINE s == rx.slot
<1>1. s \in Slots
  BY PassiveAt, ZenonT(60) DEF RxPassiveArm, TcpInv
<1>2. Set(s, AccountSyn(tcb[s])) /\ rx' = RxIdle /\ UNCHANGED <<lst, otherThanRx>>
  BY ZenonT(60) DEF RxPassiveArm
<1> HIDE DEF s
<1>3. IsBlock(tcb[s])
  BY <1>1, ZenonT(60) DEF TcpInv, Blocks
<1>4. Keeps(AccountSyn(tcb[s]), tcb[s])
  <2>1. 0 \in Int
    OBVIOUS
  <2> QED
    BY <1>3, <2>1, AccountKeeps, ZenonT(60)
<1>5. Moved
  BY <1>1, <1>2, <1>4, KeepsMoves, SetMoved, ZenonT(60) DEF TcpInv
<1>6. RxAt'
  BY <1>2, IdleRx, ZenonT(60)
<1> QED
  BY <1>2, <1>5, <1>6, Framed, ZenonT(60) DEF otherThanRx

\* It has not.
LEMMA RxPassiveUnwindStep == ASSUME TcpInv, RxPassiveUnwind PROVE TcpInv' /\ KeptClosing
<1> DEFINE s == rx.slot
           t == [tcb[s] EXCEPT !.sndNxt = Plus(ISS, 1)]
<1>1. s \in Slots /\ rx.l \in Listeners
  BY PassiveAt, ZenonT(60) DEF RxPassiveUnwind, TcpInv
<1>2. /\ Set(s, tcbFree(t)) /\ rx' = RxIdle /\ lst' = Removed(rx.l, s)
      /\ UNCHANGED otherThanRx
  BY ZenonT(60) DEF RxPassiveUnwind
<1> HIDE DEF s
<1>3. IsBlock(tcb[s])
  BY <1>1, ZenonT(60) DEF TcpInv, Blocks
<1>4. Plus(ISS, 1) \in Int
  BY BlockAssumption DEF Plus
<1>5. Keeps(t, tcb[s])
  BY <1>3, <1>4, NumberKeeps, ZenonT(60)
<1> HIDE DEF t
<1>6. Moves(tcbFree(t), tcb[s])
  BY <1>5, FreedAfter, ZenonT(60)
<1>7. Moved
  BY <1>1, <1>2, <1>6, SetMoved, ZenonT(60) DEF TcpInv
<1>8. RxAt' /\ Lists'
  BY <1>1, <1>2, IdleRx, RemovedLists, ZenonT(60) DEF TcpInv
<1> QED
  BY <1>2, <1>7, <1>8, Framed, ZenonT(60) DEF otherThanRx

\* The pass of the scanner.
LEMMA ScanPassStep ==
    ASSUME TcpInv, NEW s \in Slots, NEW k, ScanPass(s, k)
    PROVE  TcpInv' /\ KeptClosing
<1>1. /\ scan' \in SUBSET {x \in Slots \X {"rto", "persist", "tw"} : x[2] \in Expirable(x[1])}
      /\ tcb' = tcb /\ saved' = saved /\ UNCHANGED otherThanScan
  BY ZenonT(60) DEF ScanPass
<1>2. scan' \in SUBSET (Slots \X {"rto", "persist", "tw"})
  BY <1>1, ZenonT(60)
<1>3. ScanAt'
  BY <1>1, <1>2, ZenonT(60) DEF TcpInv, ScanAt
<1>4. Moved
  BY <1>1, SameMoved, ZenonT(60) DEF TcpInv
<1> QED
  BY <1>1, <1>3, <1>4, Framed, ZenonT(60) DEF otherThanScan

\* A deadline that is fired is off the list.
LEMMA TurnScan ==
    ASSUME ScanAt, NEW s, NEW k, Turn(s, k),
           saved' = saved \/ (\E x \in Slots, y \in Int : saved' = <<x, y>>)
    PROVE  ScanAt'
<1>1. scan' \in SUBSET (Slots \X {"rto", "persist", "tw"})
  BY ZenonT(60) DEF ScanAt, Turn
<1>2. CASE saved' = saved
  BY <1>1, <1>2, ZenonT(60) DEF ScanAt
<1>3. CASE \E x \in Slots, y \in Int : saved' = <<x, y>>
  <2>1. PICK x \in Slots, y \in Int : saved' = <<x, y>>
    BY <1>3, ZenonT(60)
  <2>2. saved'[1] = x /\ saved'[2] = y
    BY <2>1
  <2> QED
    BY <1>1, <2>2, ZenonT(60) DEF ScanAt
<1> QED
  BY <1>2, <1>3, ZenonT(60)

\* tcpRTOFire.
LEMMA RTOFireStep ==
    ASSUME TcpInv, NEW s \in Slots, tcpRTOFire(s)
    PROVE  TcpInv' /\ KeptClosing
<1> DEFINE t == tcb[s]
           again == [t EXCEPT !.tries = Min2(@ + 1, MaxRetx)]
           r == [again EXCEPT !.sndNxt = t.retxQ[1].seq]
           c == [t EXCEPT !.rto = FALSE, !.retxQ = <<>>]
           z == [t EXCEPT !.rto = FALSE]
<1>1. IsBlock(t)
  BY ZenonT(60) DEF TcpInv, Blocks
<1>2. Turn(s, "rto") /\ UNCHANGED otherThanScan
  BY ZenonT(60) DEF tcpRTOFire
<1>3. \/ tcb' = tcb /\ saved' = saved
      \/ Set(s, tcbFree(c)) /\ saved' = saved
      \/ t.retxQ = <<>> /\ Set(s, z) /\ saved' = saved
      \/ Set(s, again) /\ saved' = saved
      \/ t.retxQ # <<>> /\ Set(s, r) /\ saved' = <<s, t.sndNxt>>
  BY ZenonT(60) DEF tcpRTOFire
<1>4. Keeps(again, t)
  BY <1>1, AgainKeeps, ZenonT(60)
<1>5. CASE tcb' = tcb /\ saved' = saved
  <2>1. ScanAt' /\ Moved
    BY <1>2, <1>5, TurnScan, SameMoved, ZenonT(60) DEF TcpInv
  <2> QED
    BY <1>2, <2>1, Framed, ZenonT(60) DEF otherThanScan
<1>6. CASE Set(s, tcbFree(c)) /\ saved' = saved
  <2>1. Keeps(c, t)
    BY <1>1, ClearedKeeps, ZenonT(60)
  <2> HIDE DEF c
  <2>2. Moves(tcbFree(c), t)
    BY <2>1, FreedAfter, ZenonT(60)
  <2>3. ScanAt' /\ Moved
    BY <1>2, <1>6, <2>2, TurnScan, SetMoved, ZenonT(60) DEF TcpInv
  <2> QED
    BY <1>2, <2>3, Framed, ZenonT(60) DEF otherThanScan
<1>7. CASE t.retxQ = <<>> /\ Set(s, z) /\ saved' = saved
  <2>1. Keeps(z, t)
    BY <1>1, <1>7, StoppedKeeps, ZenonT(60)
  <2> HIDE DEF z
  <2>2. Moves(z, t)
    BY <2>1, KeepsMoves, ZenonT(60)
  <2>3. ScanAt' /\ Moved
    BY <1>2, <1>7, <2>2, TurnScan, SetMoved, ZenonT(60) DEF TcpInv
  <2> QED
    BY <1>2, <2>3, Framed, ZenonT(60) DEF otherThanScan
<1>8. CASE Set(s, again) /\ saved' = saved
  <2> HIDE DEF again
  <2>1. Moves(again, t)
    BY <1>4, KeepsMoves, ZenonT(60)
  <2>2. ScanAt' /\ Moved
    BY <1>2, <1>8, <2>1, TurnScan, SetMoved, ZenonT(60) DEF TcpInv
  <2> QED
    BY <1>2, <2>2, Framed, ZenonT(60) DEF otherThanScan
<1>9. CASE t.retxQ # <<>> /\ Set(s, r) /\ saved' = <<s, t.sndNxt>>
  <2>1. t.retxQ \in Seq(Descriptors) /\ t.sndNxt \in Int
    BY <1>1, ZenonT(60) DEF IsBlock, SendOK
  <2>2. t.retxQ[1] \in Descriptors
    <3> HIDE DEF t
    <3> QED
      BY <1>9, <2>1
  <2>3. t.retxQ[1].seq \in Int
    <3> HIDE DEF t
    <3> QED
      BY <2>2 DEF Descriptors
  <2> HIDE DEF again
  <2>4. IsBlock(again)
    BY <1>4, ZenonT(60) DEF Keeps
  <2>5. Keeps(r, again)
    BY <2>3, <2>4, NumberKeeps, ZenonT(60)
  <2> HIDE DEF r
  <2>6. Moves(r, t)
    BY <1>4, <2>5, KeepsTwice, KeepsMoves, ZenonT(60)
  <2>7. ScanAt'
    BY <1>2, <1>9, <2>1, TurnScan, ZenonT(60) DEF TcpInv
  <2>8. Moved
    BY <1>9, <2>6, SetMoved, ZenonT(60) DEF TcpInv
  <2> QED
    BY <1>2, <2>7, <2>8, Framed, ZenonT(60) DEF otherThanScan
<1> QED
  BY <1>3, <1>5, <1>6, <1>7, <1>8, <1>9, ZenonT(60)

\* sndNxt is what it was before the SYN went out again.
LEMMA ScanRestoreStep == ASSUME TcpInv, ScanRestore PROVE TcpInv' /\ KeptClosing
<1> DEFINE s == saved[1]
           u == [tcb[s] EXCEPT !.sndNxt = saved[2]]
<1>1. s \in Slots /\ saved[2] \in Int /\ Set(s, u) /\ saved' = <<>> /\ scan' = scan
      /\ UNCHANGED otherThanScan
  BY ZenonT(60) DEF ScanRestore, TcpInv, ScanAt
<1> HIDE DEF s
<1>2. IsBlock(tcb[s])
  BY <1>1, ZenonT(60) DEF TcpInv, Blocks
<1>3. Keeps(u, tcb[s])
  BY <1>1, <1>2, NumberKeeps, ZenonT(60)
<1> HIDE DEF u
<1>4. Moved
  BY <1>1, <1>3, KeepsMoves, SetMoved, ZenonT(60) DEF TcpInv
<1>5. ScanAt'
  BY <1>1, ZenonT(60) DEF TcpInv, ScanAt
<1> QED
  BY <1>1, <1>4, <1>5, Framed, ZenonT(60) DEF otherThanScan

\* tcpPersistFire.
LEMMA PersistFireStep ==
    ASSUME TcpInv, NEW s \in Slots, tcpPersistFire(s)
    PROVE  TcpInv' /\ KeptClosing
<1> DEFINE t == tcb[s]
           u == [t EXCEPT !.persist = @ /\ ~t.active]
<1>1. /\ Turn(s, "persist") /\ UNCHANGED otherThanScan /\ saved' = saved
      /\ tcb' = tcb \/ Set(s, u)
  BY ZenonT(60) DEF tcpPersistFire
<1>2. IsBlock(t)
  BY ZenonT(60) DEF TcpInv, Blocks
<1>3. u = [t EXCEPT !.persist = t.persist /\ ~t.active]
  BY ZenonT(60)
<1>4. Keeps(u, t)
  BY <1>2, <1>3, PersistKeeps, ZenonT(60)
<1> HIDE DEF u
<1>5. Moves(u, t)
  BY <1>4, KeepsMoves, ZenonT(60)
<1>6. Moved
  BY <1>1, <1>5, SameMoved, SetMoved, ZenonT(60) DEF TcpInv
<1>7. ScanAt'
  BY <1>1, TurnScan, ZenonT(60) DEF TcpInv
<1> QED
  BY <1>1, <1>6, <1>7, Framed, ZenonT(60) DEF otherThanScan

\* The end of TIME_WAIT.
LEMMA TimeWaitFreeStep ==
    ASSUME TcpInv, NEW s \in Slots, TimeWaitFree(s)
    PROVE  TcpInv' /\ KeptClosing
<1>1. /\ Turn(s, "tw") /\ UNCHANGED otherThanScan /\ saved' = saved
      /\ Set(s, tcbFree(tcb[s]))
  BY ZenonT(60) DEF TimeWaitFree
<1>2. IsBlock(tcb[s])
  BY ZenonT(60) DEF TcpInv, Blocks
<1>3. Moved
  BY <1>1, <1>2, FreeMoves, SetMoved, ZenonT(60) DEF TcpInv
<1>4. ScanAt'
  BY <1>1, TurnScan, ZenonT(60) DEF TcpInv
<1> QED
  BY <1>1, <1>3, <1>4, Framed, ZenonT(60) DEF otherThanScan

\* The echo server sends back what it has read.
LEMMA EchoServeStep ==
    ASSUME TcpInv, NEW s \in Slots, EchoServe(s)
    PROVE  TcpInv' /\ KeptClosing
<1> DEFINE t == tcb[s]
<1>1. PICK n \in 1..Len(t.rxBuf), ok \in BOOLEAN :
          Set(s, [Drained(t, n) EXCEPT !.sndNxt = IF ok THEN Plus(@, n) ELSE @])
  BY ZenonT(60) DEF EchoServe
<1>2. UNCHANGED otherThanEcho
  BY ZenonT(60) DEF EchoServe
<1>3. IsBlock(t)
  BY ZenonT(60) DEF TcpInv, Blocks
<1> DEFINE d == Drained(t, n)
           x == IF ok THEN Plus(d.sndNxt, n) ELSE d.sndNxt
           u == [d EXCEPT !.sndNxt = x]
<1>4. Keeps(d, t)
  BY <1>3, DrainedKeeps, ZenonT(60)
<1>5. Set(s, u)
  BY <1>1, ZenonT(60)
<1>6. n \in Int
  OBVIOUS
<1> HIDE DEF d
<1>7. IsBlock(d)
  BY <1>4, ZenonT(60) DEF Keeps
<1>8. d.sndNxt \in Int
  BY <1>7, ZenonT(60) DEF IsBlock, SendOK
<1>9. x \in Int
  BY <1>6, <1>8, BlockAssumption DEF Plus
<1> HIDE DEF x
<1>10. Keeps(u, d)
  BY <1>7, <1>9, NumberKeeps, ZenonT(60)
<1> HIDE DEF u
<1>11. Moves(u, t)
  BY <1>4, <1>10, KeepsTwice, KeepsMoves, ZenonT(60)
<1>12. Moved
  BY <1>5, <1>11, SetMoved, ZenonT(60) DEF TcpInv
<1> QED
  BY <1>2, <1>12, Framed, ZenonT(60) DEF otherThanEcho

\* It answers the peer's FIN with its own.
LEMMA EchoCloseStep ==
    ASSUME TcpInv, NEW s \in Slots, EchoClose(s)
    PROVE  TcpInv' /\ KeptClosing
<1> DEFINE t == tcb[s]
           v == [t EXCEPT !.sndNxt = Plus(t.sndNxt, 1)]
           u == InState(v, "LAST_ACK")
<1>1. t.state = "CLOSE_WAIT" /\ UNCHANGED otherThanEcho
      /\ Set(s, [t EXCEPT !.sndNxt = Plus(@, 1), !.state = "LAST_ACK"])
  BY ZenonT(60) DEF EchoClose
<1>2. IsBlock(t)
  BY ZenonT(60) DEF TcpInv, Blocks
<1>3. Set(s, u)
  BY <1>1, ZenonT(60) DEF InState
<1>4. t.sndNxt \in Int
  BY <1>2, ZenonT(60) DEF IsBlock, SendOK
<1>5. Plus(t.sndNxt, 1) \in Int
  <2> HIDE DEF t
  <2> QED
    BY <1>4, BlockAssumption DEF Plus
<1>6. Keeps(v, t)
  BY <1>2, <1>5, NumberKeeps, ZenonT(60)
<1> HIDE DEF v
<1>7. IsBlock(u) /\ u.state = "LAST_ACK"
  BY <1>6, StateChange, ZenonT(60) DEF Keeps, States
<1> HIDE DEF u
<1>8. Moves(u, t)
  BY <1>1, <1>7, ZenonT(60) DEF Moves, StaysEarly, StaysClosing, Handshake, Opening
<1>9. Moved
  BY <1>3, <1>8, SetMoved, ZenonT(60) DEF TcpInv
<1> QED
  BY <1>1, <1>9, Framed, ZenonT(60) DEF otherThanEcho

-----------------------------------------------------------------------------
(***************************************************************************)
(* The system calls.                                                        *)
(***************************************************************************)
\* A process inside a system call has its block.
LEMMA HasBlock ==
    ASSUME TcpInv, NEW u \in Users, upc[u] \in WithBlock
    PROVE  /\ IsReg(reg[u], upc[u]) /\ reg[u].slot \in Slots
           /\ reg[u].ret \in {"user", "reset", "lcheck"} /\ IsBlock(tcb[reg[u].slot])
<1>1. IsReg(reg[u], upc[u])
  BY ZenonT(60) DEF TcpInv, Regs
<1>2. reg[u].slot \in Slots /\ reg[u].ret \in {"user", "reset", "lcheck"}
  BY <1>1, ZenonT(60) DEF IsReg
<1> QED
  BY <1>1, <1>2, ZenonT(60) DEF TcpInv, Blocks

\* tcpClose up to the FIN.
LEMMA CloseMoves ==
    ASSUME TcpInv, NEW u \in Users, NEW s \in Slots,
           NEW ret \in {"user", "reset", "lcheck"}, tcpClose(u, s, ret)
    PROVE  Moved /\ Regs'
<1>1. CASE Closable(tcb[s])
  <2>1. /\ Set(s, Marked(tcb[s]))
        /\ Goto(u, "fin", [NoReg EXCEPT !.slot = s, !.ret = ret])
    BY <1>1, ZenonT(60) DEF tcpClose
  <2>2. IsBlock(tcb[s])
    BY ZenonT(60) DEF TcpInv, Blocks
  <2>3. Moved
    BY <1>1, <2>1, <2>2, MarkedMoves, SetMoved, ZenonT(60) DEF TcpInv
  <2>4. "fin" \in WithBlock
    BY ZenonT(60) DEF WithBlock
  <2>5. IsReg([NoReg EXCEPT !.slot = s, !.ret = ret], "fin")
    BY <2>4, FirstRegs, ZenonT(60)
  <2>6. Regs'
    BY <2>1, <2>5, GotoRegs, ZenonT(60) DEF TcpInv
  <2> QED
    BY <2>3, <2>6
<1>2. CASE ~Closable(tcb[s])
  <2>1. tcb' = tcb /\ Goto(u, ret, [NoReg EXCEPT !.slot = s])
    BY <1>2, ZenonT(60) DEF tcpClose
  <2>2. ret # "user" => IsReg([NoReg EXCEPT !.slot = s], ret)
    <3>1. ret # "user" => ret \in WithBlock
      BY ZenonT(60) DEF WithBlock
    <3> QED
      BY <3>1, FirstRegs, ZenonT(60)
  <2>3. Regs'
    BY <2>1, <2>2, GotoRegs, ZenonT(60) DEF TcpInv
  <2>4. Moved
    BY <2>1, SameMoved, ZenonT(60) DEF TcpInv
  <2> QED
    BY <2>3, <2>4
<1> QED
  BY <1>1, <1>2

\* The process goes on with the block it has.
LEMMA GoesOn ==
    ASSUME TcpInv, NEW u \in Users, upc[u] \in WithBlock,
           NEW p, p \in WithBlock \cup {"user", "lclose"}, Goto(u, p, reg[u])
    PROVE  Regs'
<1>1. IsReg(reg[u], upc[u])
  BY HasBlock, ZenonT(60)
<1>2. 0 \in Int
  OBVIOUS
<1>3. p # "user" => IsReg(reg[u], p)
  BY <1>1, <1>2, NextRegs, ZenonT(60)
<1> QED
  BY <1>3, GotoRegs, ZenonT(60) DEF TcpInv

\* The system call returns.
LEMMA Returns == ASSUME Regs, NEW u \in Users, Return(u) PROVE Regs'
BY GotoRegs, ZenonT(60) DEF Return

\* The FIN of tcpClose.
LEMMA CloseSendStep ==
    ASSUME TcpInv, NEW u \in Users, CloseSend(u)
    PROVE  TcpInv' /\ KeptClosing
<1>1. /\ upc[u] = "fin" /\ UNCHANGED <<tcb, lst, lsock, csock, wrote, otherThanUser>>
      /\ Goto(u, "finacct", reg[u]) \/ Goto(u, reg[u].ret, reg[u])
  BY ZenonT(60) DEF CloseSend
<1>2. upc[u] \in WithBlock /\ "finacct" \in WithBlock
  BY <1>1, ZenonT(60) DEF WithBlock
<1>3. reg[u].ret \in WithBlock \cup {"user", "lclose"}
  BY <1>2, HasBlock, ZenonT(60) DEF WithBlock
<1>4. Regs'
  BY <1>1, <1>2, <1>3, GoesOn, ZenonT(60)
<1>5. Moved
  BY <1>1, SameMoved, ZenonT(60) DEF TcpInv
<1> QED
  BY <1>1, <1>4, <1>5, Framed, ZenonT(60) DEF otherThanUser

\* Its descriptor.
LEMMA CloseAccountStep ==
    ASSUME TcpInv, NEW u \in Users, CloseAccount(u)
    PROVE  TcpInv' /\ KeptClosing
<1> DEFINE s == reg[u].slot
<1>1. /\ upc[u] = "finacct" /\ Set(s, Account(tcb[s], 1, "FIN"))
      /\ Goto(u, reg[u].ret, reg[u]) /\ Rearm(s)
      /\ UNCHANGED <<lst, lsock, csock, wrote, rx, saved>>
  BY ZenonT(60) DEF CloseAccount
<1>2. upc[u] \in WithBlock
  BY <1>1, ZenonT(60) DEF WithBlock
<1>3. s \in Slots /\ IsBlock(tcb[s]) /\ reg[u].ret \in {"user", "reset", "lcheck"}
  BY <1>2, HasBlock, ZenonT(60)
<1>4. reg[u].ret \in WithBlock \cup {"user", "lclose"}
  BY <1>3, ZenonT(60) DEF WithBlock
<1>5. Regs'
  BY <1>1, <1>2, <1>4, GoesOn, ZenonT(60)
<1> HIDE DEF s
<1>6. 1 \in Int
  OBVIOUS
<1>7. Keeps(Account(tcb[s], 1, "FIN"), tcb[s])
  BY <1>3, <1>6, AccountKeeps, ZenonT(60)
<1>8. Moved
  BY <1>1, <1>3, <1>7, KeepsMoves, SetMoved, ZenonT(60) DEF TcpInv
<1>9. ScanAt'
  BY <1>1, RearmScan, ZenonT(60) DEF TcpInv
<1> QED
  BY <1>1, <1>5, <1>8, <1>9, Framed, ZenonT(60)

\* sys_listen.
LEMMA ListenStep ==
    ASSUME TcpInv, NEW u \in Users, Listen(u)
    PROVE  TcpInv' /\ KeptClosing
<1> DEFINE k == [NoListener EXCEPT !.active = TRUE, !.port = "user"]
<1>1. PICK l \in tcpListenerAlloc("user") :
          lst' = [lst EXCEPT ![l] = k] /\ lsock' = [lsock EXCEPT ![u] = l]
  BY ZenonT(60) DEF Listen
<1>2. UNCHANGED <<tcb, upc, reg, csock, wrote, otherThanUser>>
  BY ZenonT(60) DEF Listen
<1>3. l \in Listeners
  BY <1>1, ZenonT(60) DEF tcpListenerAlloc
<1>4. lst' = [x \in Listeners |-> IF x = l THEN k ELSE lst[x]]
  BY <1>1, <1>3, ZenonT(60) DEF TcpInv, Lists
<1>5. IsListener(k)
  <2>1. k.pending = <<>> /\ k.accept = <<>>
    BY DEF NoListener
  <2>2. k = [f \in ListenerFields |-> k[f]]
    BY DEF NoListener, ListenerFields
  <2> HIDE DEF k
  <2>3. Depth \in Nat
    BY TableAssumption, ZenonT(60)
  <2>4. <<>> \in Seq(Slots) /\ Len(<<>>) + Len(<<>>) <= Depth
    BY <2>3
  <2> QED
    BY <2>1, <2>2, <2>4, ZenonT(60) DEF IsListener
<1> HIDE DEF k
<1>6. Lists'
  BY <1>3, <1>4, <1>5, ListenerSet, ZenonT(60) DEF TcpInv
<1>7. Socks'
  <2>1. lsock' \in [Users -> Listeners \cup {0}]
    BY <1>1, <1>3, ZenonT(60) DEF TcpInv, Socks
  <2> QED
    BY <1>2, <2>1, ZenonT(60) DEF TcpInv, Socks
<1>8. Moved
  BY <1>2, SameMoved, ZenonT(60) DEF TcpInv
<1> QED
  BY <1>2, <1>6, <1>7, <1>8, Framed, ZenonT(60) DEF otherThanUser

\* The head of a queue and the rest.
LEMMA QueueHead ==
    ASSUME NEW a \in Seq(Slots), a # <<>>
    PROVE  Head(a) \in Slots /\ Tail(a) \in Seq(Slots) /\ Len(Tail(a)) = Len(a) - 1
OBVIOUS

\* sys_accept.
LEMMA AcceptStep ==
    ASSUME TcpInv, NEW u \in Users, Accept(u)
    PROVE  TcpInv' /\ KeptClosing
<1> DEFINE l == lsock[u]
           k == lst[l]
           h == Head(k.accept)
           a == Tail(k.accept)
           j == [k EXCEPT !.accept = a]
<1>1. /\ l # 0 /\ k.accept # <<>>
      /\ lst' = [lst EXCEPT ![l].accept = Tail(@)]
      /\ \/ csock' = [csock EXCEPT ![u] = h] /\ UNCHANGED <<tcb, upc, reg>>
         \/ tcpClose(u, h, "user") /\ csock' = csock
      /\ UNCHANGED <<lsock, wrote, otherThanUser>>
  BY ZenonT(60) DEF Accept
<1>2. l \in Listeners
  BY <1>1, ZenonT(60) DEF TcpInv, Socks
<1>3. lst' = [x \in Listeners |-> IF x = l THEN j ELSE lst[x]]
  BY <1>1, ZenonT(60) DEF TcpInv, Lists
<1> HIDE DEF l
<1>4. IsListener(k)
  BY <1>2, ZenonT(60) DEF TcpInv, Lists
<1>5. k.pending \in Seq(Slots) /\ k.accept \in Seq(Slots) /\ Len(k.pending) + Len(k.accept) <= Depth
  BY <1>4, ZenonT(60) DEF IsListener
<1>6. h \in Slots /\ a \in Seq(Slots) /\ Len(a) = Len(k.accept) - 1
  BY <1>1, <1>5, QueueHead, ZenonT(60)
<1> HIDE DEF a, k, h
<1>7. Len(k.pending) + Len(a) <= Depth
  <2>1. \A m, n \in Nat : m + n <= Depth => n + m <= Depth
    OBVIOUS
  <2>2. Len(k.accept) \in Nat /\ Len(k.pending) \in Nat
    BY <1>5
  <2>3. Len(k.accept) + Len(k.pending) <= Depth
    BY <1>5, <2>1, <2>2, ZenonT(60)
  <2> QED
    BY <1>5, <1>6, <2>3, RoomFor, ZenonT(60)
<1>8. IsListener(j)
  BY <1>4, <1>5, <1>6, <1>7, QueuesSet, ZenonT(60)
<1> HIDE DEF j
<1>9. Lists'
  BY <1>2, <1>3, <1>8, ListenerSet, ZenonT(60) DEF TcpInv
<1>10. Moved /\ Regs' /\ Socks'
  <2>1. CASE csock' = [csock EXCEPT ![u] = h] /\ UNCHANGED <<tcb, upc, reg>>
    <3>1. csock' \in [Users -> Slots \cup {0}]
      BY <1>6, <2>1, ZenonT(60) DEF TcpInv, Socks
    <3>2. Socks'
      BY <1>1, <3>1, ZenonT(60) DEF TcpInv, Socks
    <3>3. Moved
      BY <2>1, SameMoved, ZenonT(60) DEF TcpInv
    <3>4. Regs'
      BY <2>1, ZenonT(60) DEF TcpInv, Regs
    <3> QED
      BY <3>2, <3>3, <3>4
  <2>2. CASE tcpClose(u, h, "user") /\ csock' = csock
    <3>1. Moved /\ Regs'
      BY <1>6, <2>2, CloseMoves, ZenonT(60)
    <3>2. Socks'
      BY <1>1, <2>2, ZenonT(60) DEF TcpInv, Socks
    <3> QED
      BY <3>1, <3>2
  <2> QED
    BY <1>1, <2>1, <2>2, ZenonT(60)
<1> QED
  BY <1>1, <1>9, <1>10, Framed, ZenonT(60) DEF otherThanUser

\* A listening socket is closed.
LEMMA CloseListenerStep ==
    ASSUME TcpInv, NEW u \in Users, CloseListener(u)
    PROVE  TcpInv' /\ KeptClosing
<1> DEFINE l == lsock[u]
           k == lst[l]
           q == k.pending \o k.accept
           j == [k EXCEPT !.active = FALSE, !.pending = <<>>, !.accept = <<>>]
<1>1. /\ l # 0
      /\ Goto(u, "lclose", [NoReg EXCEPT !.list = q])
      /\ lst' = [lst EXCEPT ![l] = [@ EXCEPT !.active = FALSE, !.pending = <<>>, !.accept = <<>>]]
      /\ lsock' = [lsock EXCEPT ![u] = 0]
      /\ UNCHANGED <<tcb, csock, wrote, otherThanUser>>
  BY ZenonT(60) DEF CloseListener
<1>2. l \in Listeners
  BY <1>1, ZenonT(60) DEF TcpInv, Socks
<1>3. lst' = [x \in Listeners |-> IF x = l THEN j ELSE lst[x]]
  BY <1>1, ZenonT(60) DEF TcpInv, Lists
<1> HIDE DEF l
<1>4. IsListener(k)
  BY <1>2, ZenonT(60) DEF TcpInv, Lists
<1>5. k.pending \in Seq(Slots) /\ k.accept \in Seq(Slots)
  BY <1>4, ZenonT(60) DEF IsListener
<1>6. q \in Seq(Slots)
  BY <1>5, JoinedLength, ZenonT(60)
<1> HIDE DEF k, q
<1>7. IsListener(j)
  <2>1. Depth \in Nat
    BY TableAssumption, ZenonT(60)
  <2>2. <<>> \in Seq(Slots) /\ Len(<<>>) + Len(<<>>) <= Depth
    BY <2>1
  <2> QED
    BY <1>4, <2>2, QueuesSet, ZenonT(60)
<1> HIDE DEF j
<1>8. Lists'
  BY <1>2, <1>3, <1>7, ListenerSet, ZenonT(60) DEF TcpInv
<1>9. Regs'
  <2>1. IsReg([NoReg EXCEPT !.list = q], "lclose")
    BY <1>6, ListIsReg, ZenonT(60)
  <2> QED
    BY <1>1, <2>1, GotoRegs, ZenonT(60) DEF TcpInv
<1>10. Socks'
  <2>1. lsock' \in [Users -> Listeners \cup {0}]
    BY <1>1, ZenonT(60) DEF TcpInv, Socks
  <2> QED
    BY <1>1, <2>1, ZenonT(60) DEF TcpInv, Socks
<1>11. Moved
  BY <1>1, SameMoved, ZenonT(60) DEF TcpInv
<1> QED
  BY <1>1, <1>8, <1>9, <1>10, <1>11, Framed, ZenonT(60) DEF otherThanUser

\* A block is marked as closing after a change that keeps it.
LEMMA MarkedAfter ==
    ASSUME NEW t, NEW u, Keeps(u, t), Closable(u)
    PROVE  Moves(Marked(u), t)
<1>1. IsBlock(u) /\ u.active = t.active /\ u.conn = t.conn /\ u.state = t.state
  BY ZenonT(60) DEF Keeps
<1> DEFINE v == Marked(u)
<1>2. Moves(v, u)
  BY <1>1, MarkedMoves, ZenonT(60)
<1> HIDE DEF v
<1>3. Moves(v, t)
  BY <1>1, <1>2, ZenonT(60) DEF Moves, StaysEarly, StaysClosing
<1> QED
  BY <1>3, ZenonT(60) DEF v

\* The next connection of a closed listener.
LEMMA LCloseNextStep ==
    ASSUME TcpInv, NEW u \in Users, LCloseNext(u)
    PROVE  TcpInv' /\ KeptClosing
<1> DEFINE s == Head(reg[u].list)
           t == [tcb[s] EXCEPT !.listener = 0]
           r == [reg[u] EXCEPT !.slot = s, !.ret = "lcheck", !.list = Tail(@)]
<1>1. /\ UNCHANGED <<lst, lsock, csock, wrote, otherThanUser>>
      /\ \/ Return(u) /\ tcb' = tcb
         \/ /\ reg[u].list # <<>> /\ Set(s, IF Closable(t) THEN Marked(t) ELSE t)
            /\ Goto(u, IF Closable(t) THEN "fin" ELSE "lcheck", r)
  BY ZenonT(60) DEF LCloseNext
<1>2. IsReg(reg[u], upc[u])
  BY ZenonT(60) DEF TcpInv, Regs
<1>3. Moved /\ Regs'
  <2>1. CASE Return(u) /\ tcb' = tcb
    BY <2>1, Returns, SameMoved, ZenonT(60) DEF TcpInv
  <2>2. CASE /\ reg[u].list # <<>> /\ Set(s, IF Closable(t) THEN Marked(t) ELSE t)
             /\ Goto(u, IF Closable(t) THEN "fin" ELSE "lcheck", r)
    <3>1. reg[u].list \in Seq(Slots)
      BY <1>2, ZenonT(60) DEF IsReg
    <3>2. s \in Slots
      BY <2>2, <3>1, QueueHead, ZenonT(60)
    <3> DEFINE p == IF Closable(t) THEN "fin" ELSE "lcheck"
    <3>3. IsReg(r, p)
      <4>1. p \in WithBlock
        BY ZenonT(60) DEF WithBlock
      <4> HIDE DEF p, s
      <4> QED
        BY <1>2, <2>2, <3>2, <4>1, ListRegs, ZenonT(60)
    <3>4. Regs'
      <4> HIDE DEF p, r
      <4> QED
        BY <2>2, <3>3, GotoRegs, ZenonT(60) DEF TcpInv, p
    <3> HIDE DEF s
    <3>5. IsBlock(tcb[s])
      BY <3>2, ZenonT(60) DEF TcpInv, Blocks
    <3>6. Keeps(t, tcb[s])
      BY <3>5, ForgetKeeps, ZenonT(60)
    <3> HIDE DEF t
    <3>7. Moves(t, tcb[s])
      BY <3>6, KeepsMoves, ZenonT(60)
    <3>8. Closable(t) => Moves(Marked(t), tcb[s])
      BY <3>6, MarkedAfter, ZenonT(60)
    <3>9. Moved
      BY <2>2, <3>2, <3>7, <3>8, SetMoved, ZenonT(60) DEF TcpInv
    <3> QED
      BY <3>4, <3>9
  <2> QED
    BY <1>1, <2>1, <2>2, ZenonT(60)
<1> QED
  BY <1>1, <1>3, Framed, ZenonT(60) DEF otherThanUser

\* A connection still in its handshake is freed.
LEMMA LCheckStep ==
    ASSUME TcpInv, NEW u \in Users, LCheck(u)
    PROVE  TcpInv' /\ KeptClosing
<1> DEFINE s == reg[u].slot
<1>1. /\ upc[u] = "lcheck" /\ Goto(u, "lclose", reg[u])
      /\ Set(s, IF tcb[s].state = "SYN_RECEIVED" THEN tcbFree(tcb[s]) ELSE tcb[s])
      /\ UNCHANGED <<lst, lsock, csock, wrote, otherThanUser>>
  BY ZenonT(60) DEF LCheck
<1>2. upc[u] \in WithBlock
  BY <1>1, ZenonT(60) DEF WithBlock
<1>3. s \in Slots /\ IsBlock(tcb[s])
  BY <1>2, HasBlock, ZenonT(60)
<1>4. Regs'
  BY <1>1, <1>2, GoesOn, ZenonT(60)
<1> HIDE DEF s
<1>5. Moves(tcbFree(tcb[s]), tcb[s]) /\ Moves(tcb[s], tcb[s])
  <2>1. Keeps(tcb[s], tcb[s])
    BY <1>3, ZenonT(60) DEF Keeps
  <2> QED
    BY <1>3, <2>1, FreeMoves, KeepsMoves, ZenonT(60)
<1>6. Moved
  BY <1>1, <1>3, <1>5, SetMoved, ZenonT(60) DEF TcpInv
<1> QED
  BY <1>1, <1>4, <1>6, Framed, ZenonT(60) DEF otherThanUser

\* tcpActiveConnect.
LEMMA ConnectStep ==
    ASSUME TcpInv, NEW u \in Users, Connect(u)
    PROVE  TcpInv' /\ KeptClosing
<1> DEFINE s == Lowest(FreeSlots)
<1>1. PICK c \in ActiveConns \cap present :
          /\ FreeSlots # {} /\ Set(s, ActiveInit(tcb[s], c))
          /\ Goto(u, "syn", [NoReg EXCEPT !.slot = s])
          /\ UNCHANGED <<lst, lsock, csock, wrote, otherThanUser>>
  BY ZenonT(60) DEF Connect
<1>2. s \in Slots /\ ~tcb[s].active
  BY <1>1, FreeSlotIsIn, ZenonT(60)
<1> HIDE DEF s
<1> DEFINE t == ActiveInit(tcb[s], c)
<1>3. IsBlock(tcb[s]) /\ c \in Conns
  BY <1>2, ZenonT(60) DEF TcpInv, Blocks, Conns
<1>4. IsBlock(t) /\ t.state = "SYN_SENT"
  BY <1>3, ActiveBlock, ZenonT(60)
<1>5. Set(s, t)
  BY <1>1, ZenonT(60)
<1> HIDE DEF t
<1>6. Moves(t, tcb[s])
  BY <1>2, <1>4, ZenonT(60) DEF Moves, StaysEarly, StaysClosing, Handshake
<1>7. Moved
  BY <1>2, <1>5, <1>6, SetMoved, ZenonT(60) DEF TcpInv
<1>8. Regs'
  <2>1. "syn" \in WithBlock
    BY ZenonT(60) DEF WithBlock
  <2>2. IsReg([NoReg EXCEPT !.slot = s], "syn")
    BY <1>2, <2>1, FirstRegs, ZenonT(60)
  <2> QED
    BY <1>1, <2>2, GotoRegs, ZenonT(60) DEF TcpInv
<1> QED
  BY <1>1, <1>7, <1>8, Framed, ZenonT(60) DEF otherThanUser

\* The SYN.
LEMMA ConnectSendStep ==
    ASSUME TcpInv, NEW u \in Users, ConnectSend(u)
    PROVE  TcpInv' /\ KeptClosing
<1> DEFINE s == reg[u].slot
           t == [tcb[s] EXCEPT !.sndNxt = ISS]
<1>1. /\ upc[u] = "syn" /\ Set(s, t)
      /\ \E ok \in BOOLEAN : Goto(u, "synacct", [reg[u] EXCEPT !.ok = ok])
      /\ UNCHANGED <<lst, lsock, csock, wrote, otherThanUser>>
  BY ZenonT(60) DEF ConnectSend
<1>2. upc[u] \in WithBlock /\ "synacct" \in WithBlock
  BY <1>1, ZenonT(60) DEF WithBlock
<1>3. s \in Slots /\ IsBlock(tcb[s]) /\ IsReg(reg[u], upc[u])
  BY <1>2, HasBlock, ZenonT(60)
<1>4. Regs'
  <2>1. PICK ok \in BOOLEAN : Goto(u, "synacct", [reg[u] EXCEPT !.ok = ok])
    BY <1>1, ZenonT(60)
  <2>2. 0 \in Int
    OBVIOUS
  <2>3. IsReg([reg[u] EXCEPT !.ok = ok], "synacct")
    BY <1>2, <1>3, <2>2, NextRegs, ZenonT(60)
  <2> QED
    BY <2>1, <2>3, GotoRegs, ZenonT(60) DEF TcpInv
<1> HIDE DEF s
<1>5. ISS \in Int
  BY BlockAssumption
<1>6. Keeps(t, tcb[s])
  BY <1>3, <1>5, NumberKeeps, ZenonT(60)
<1> HIDE DEF t
<1>7. Moved
  BY <1>1, <1>3, <1>6, KeepsMoves, SetMoved, ZenonT(60) DEF TcpInv
<1> QED
  BY <1>1, <1>4, <1>7, Framed, ZenonT(60) DEF otherThanUser

\* The SYN is accounted for, or the block given back.
LEMMA ConnectArmStep ==
    ASSUME TcpInv, NEW u \in Users, ConnectArm(u)
    PROVE  TcpInv' /\ KeptClosing
<1> DEFINE s == reg[u].slot
           t == [tcb[s] EXCEPT !.sndNxt = Plus(ISS, 1)]
<1>1. /\ upc[u] = "synacct"
      /\ \/ Set(s, AccountSyn(tcb[s])) /\ Goto(u, "connwait", reg[u]) /\ Rearm(s)
         \/ Set(s, tcbFree(t)) /\ Return(u) /\ scan' = scan
      /\ UNCHANGED <<lst, lsock, csock, wrote, rx, saved>>
  BY ZenonT(60) DEF ConnectArm
<1>2. upc[u] \in WithBlock /\ "connwait" \in WithBlock
  BY <1>1, ZenonT(60) DEF WithBlock
<1>3. s \in Slots /\ IsBlock(tcb[s])
  BY <1>2, HasBlock, ZenonT(60)
<1>4. Regs'
  BY <1>1, <1>2, GoesOn, Returns, ZenonT(60) DEF TcpInv
<1> HIDE DEF s
<1>5. Keeps(AccountSyn(tcb[s]), tcb[s])
  <2>1. 0 \in Int
    OBVIOUS
  <2> QED
    BY <1>3, <2>1, AccountKeeps, ZenonT(60)
<1>6. Moves(tcbFree(t), tcb[s])
  <2>1. Plus(ISS, 1) \in Int
    BY BlockAssumption DEF Plus
  <2>2. Keeps(t, tcb[s])
    BY <1>3, <2>1, NumberKeeps, ZenonT(60)
  <2> HIDE DEF t
  <2> QED
    BY <2>2, FreedAfter, ZenonT(60)
<1> HIDE DEF t
<1>7. Moved
  BY <1>1, <1>3, <1>5, <1>6, KeepsMoves, SetMoved, ZenonT(60) DEF TcpInv
<1>8. ScanAt'
  <2>1. CASE Rearm(s)
    BY <1>1, <2>1, RearmScan, ZenonT(60) DEF TcpInv
  <2>2. CASE scan' = scan
    BY <1>1, <2>2, ZenonT(60) DEF TcpInv, ScanAt
  <2> QED
    BY <1>1, <2>1, <2>2, ZenonT(60)
<1> QED
  BY <1>1, <1>4, <1>7, <1>8, Framed, ZenonT(60)

\* The wait for the handshake ends.
LEMMA ConnectWaitStep ==
    ASSUME TcpInv, NEW u \in Users, ConnectWait(u)
    PROVE  TcpInv' /\ KeptClosing
<1> DEFINE s == reg[u].slot
<1>1. /\ upc[u] = "connwait"
      /\ \/ csock' = [csock EXCEPT ![u] = s] /\ Return(u) /\ tcb' = tcb
         \/ Return(u) /\ tcb' = tcb /\ csock' = csock
         \/ tcpClose(u, s, "user") /\ csock' = csock
      /\ UNCHANGED <<lst, lsock, wrote, otherThanUser>>
  BY ZenonT(60) DEF ConnectWait
<1>2. upc[u] \in WithBlock
  BY <1>1, ZenonT(60) DEF WithBlock
<1>3. s \in Slots
  BY <1>2, HasBlock, ZenonT(60)
<1> HIDE DEF s
<1>4. Moved /\ Regs'
  BY <1>1, <1>3, CloseMoves, Returns, SameMoved, ZenonT(60) DEF TcpInv
<1>5. csock' \in [Users -> Slots \cup {0}]
  BY <1>1, <1>3, ZenonT(60) DEF TcpInv, Socks
<1>6. Socks'
  BY <1>1, <1>5, ZenonT(60) DEF TcpInv, Socks
<1> QED
  BY <1>1, <1>4, <1>6, Framed, ZenonT(60) DEF otherThanUser

\* sys_tcp_send.
LEMMA SendCallStep ==
    ASSUME TcpInv, NEW u \in Users, SendCall(u)
    PROVE  TcpInv' /\ KeptClosing
<1> DEFINE s == csock[u]
           t == tcb[s]
           b == <<t.conn, wrote[t.conn] + 1>>
           v == [t EXCEPT !.txBuf = Append(@, b)]
<1>1. /\ s # 0 /\ t.active
      /\ \/ tcb' = tcb /\ wrote' = wrote
         \/ /\ Len(t.txBuf) # BufCap /\ Set(s, v)
            /\ wrote' = [wrote EXCEPT ![t.conn] = @ + 1]
      /\ Goto(u, "drain", [NoReg EXCEPT !.slot = s])
      /\ UNCHANGED <<lst, lsock, csock, otherThanUser>>
  BY ZenonT(60) DEF SendCall
<1>2. s \in Slots
  BY <1>1, ZenonT(60) DEF TcpInv, Socks
<1> HIDE DEF s
<1>3. IsBlock(t)
  BY <1>2, ZenonT(60) DEF TcpInv, Blocks
<1>4. t.conn \in Conns
  BY <1>1, <1>3, ZenonT(60) DEF IsBlock, NameOK
<1> HIDE DEF t
<1>5. wrote \in [Conns -> Int]
  BY ZenonT(60) DEF TcpInv, Socks
<1>6. wrote[t.conn] + 1 \in Int
  BY <1>4, <1>5
<1>7. b \in Bytes
  BY <1>4, <1>6, ZenonT(60) DEF Bytes
<1>8. Moved
  <2>1. CASE tcb' = tcb
    BY <2>1, SameMoved, ZenonT(60) DEF TcpInv
  <2>2. CASE Len(t.txBuf) # BufCap /\ Set(s, v)
    <3> HIDE DEF b
    <3>1. Keeps(v, t)
      BY <1>3, <1>7, <2>2, WrittenKeeps, ZenonT(60)
    <3> HIDE DEF v
    <3>2. Moves(v, t)
      BY <3>1, KeepsMoves, ZenonT(60)
    <3> QED
      BY <1>2, <2>2, <3>2, SetMoved, ZenonT(60) DEF TcpInv, t
  <2> QED
    BY <1>1, <2>1, <2>2, ZenonT(60)
<1> HIDE DEF b, v
<1>9. wrote' \in [Conns -> Int]
  BY <1>1, <1>4, <1>5, <1>6, ZenonT(60)
<1>10. Socks'
  BY <1>1, <1>9, ZenonT(60) DEF TcpInv, Socks
<1>11. Regs'
  <2>1. "drain" \in WithBlock
    BY ZenonT(60) DEF WithBlock
  <2>2. IsReg([NoReg EXCEPT !.slot = s], "drain")
    BY <1>2, <2>1, FirstRegs, ZenonT(60)
  <2> QED
    BY <1>1, <2>2, GotoRegs, ZenonT(60) DEF TcpInv
<1> QED
  BY <1>1, <1>8, <1>10, <1>11, Framed, ZenonT(60) DEF otherThanUser

\* tcpTCBDrainTX sends.
LEMMA DrainSendStep ==
    ASSUME TcpInv, NEW u \in Users, DrainSend(u)
    PROVE  TcpInv' /\ KeptClosing
<1>1. /\ upc[u] = "drain" /\ UNCHANGED <<tcb, lst, lsock, csock, wrote, otherThanUser>>
      /\ \/ Return(u)
         \/ \E most : \E n \in 1..most : Goto(u, "drainacct", [reg[u] EXCEPT !.n = n])
  BY ZenonT(60) DEF DrainSend, SegmentLengths
<1>2. upc[u] \in WithBlock /\ "drainacct" \in WithBlock
  BY <1>1, ZenonT(60) DEF WithBlock
<1>3. Regs'
  <2>1. CASE Return(u)
    BY <2>1, Returns, ZenonT(60) DEF TcpInv
  <2>2. CASE \E most : \E n \in 1..most : Goto(u, "drainacct", [reg[u] EXCEPT !.n = n])
    <3>1. PICK most : \E n \in 1..most : Goto(u, "drainacct", [reg[u] EXCEPT !.n = n])
      BY <2>2, ZenonT(60)
    <3>2. PICK n \in 1..most : Goto(u, "drainacct", [reg[u] EXCEPT !.n = n])
      BY <3>1, ZenonT(60)
    <3>3. n \in Int
      BY <3>2
    <3>4. IsReg([reg[u] EXCEPT !.n = n], "drainacct")
      BY <1>2, <3>3, HasBlock, NextRegs, ZenonT(60)
    <3> QED
      BY <3>2, <3>4, GotoRegs, ZenonT(60) DEF TcpInv
  <2> QED
    BY <1>1, <2>1, <2>2, ZenonT(60)
<1>4. Moved
  BY <1>1, SameMoved, ZenonT(60) DEF TcpInv
<1> QED
  BY <1>1, <1>3, <1>4, Framed, ZenonT(60) DEF otherThanUser

\* The descriptor of what it sent.
LEMMA DrainAccountStep ==
    ASSUME TcpInv, NEW u \in Users, DrainAccount(u)
    PROVE  TcpInv' /\ KeptClosing
<1> DEFINE s == reg[u].slot
           n == reg[u].n
<1>1. /\ upc[u] = "drainacct" /\ Goto(u, "drain", [reg[u] EXCEPT !.n = 0])
      /\ Set(s, Account(tcb[s], n, "DATA")) /\ Rearm(s)
      /\ UNCHANGED <<lst, lsock, csock, wrote, rx, saved>>
  BY ZenonT(60) DEF DrainAccount
<1>2. upc[u] \in WithBlock /\ "drain" \in WithBlock
  BY <1>1, ZenonT(60) DEF WithBlock
<1>3. s \in Slots /\ IsBlock(tcb[s]) /\ IsReg(reg[u], upc[u])
  BY <1>2, HasBlock, ZenonT(60)
<1>4. n \in Int
  BY <1>3, ZenonT(60) DEF IsReg
<1>5. Regs'
  <2>1. 0 \in Int
    OBVIOUS
  <2>2. IsReg([reg[u] EXCEPT !.n = 0], "drain")
    BY <1>2, <1>3, <2>1, NextRegs, ZenonT(60)
  <2> QED
    BY <1>1, <2>2, GotoRegs, ZenonT(60) DEF TcpInv
<1> HIDE DEF s, n
<1>6. Keeps(Account(tcb[s], n, "DATA"), tcb[s])
  BY <1>3, <1>4, AccountKeeps, ZenonT(60)
<1>7. Moved
  BY <1>1, <1>3, <1>6, KeepsMoves, SetMoved, ZenonT(60) DEF TcpInv
<1>8. ScanAt'
  BY <1>1, RearmScan, ZenonT(60) DEF TcpInv
<1> QED
  BY <1>1, <1>5, <1>7, <1>8, Framed, ZenonT(60)

\* sys_tcp_recv.
LEMMA RecvStep ==
    ASSUME TcpInv, NEW u \in Users, Recv(u)
    PROVE  TcpInv' /\ KeptClosing
<1> DEFINE s == csock[u]
<1>1. s # 0 /\ UNCHANGED <<lst, upc, reg, lsock, csock, wrote, otherThanUser>>
  BY ZenonT(60) DEF Recv
<1>2. PICK n \in 1..Len(tcb[s].rxBuf) : Set(s, Drained(tcb[s], n))
  BY ZenonT(60) DEF Recv
<1>3. s \in Slots
  BY <1>1, ZenonT(60) DEF TcpInv, Socks
<1> HIDE DEF s
<1>4. IsBlock(tcb[s])
  BY <1>3, ZenonT(60) DEF TcpInv, Blocks
<1>5. Keeps(Drained(tcb[s], n), tcb[s])
  BY <1>4, DrainedKeeps, ZenonT(60)
<1>6. Moved
  BY <1>2, <1>3, <1>5, KeepsMoves, SetMoved, ZenonT(60) DEF TcpInv
<1> QED
  BY <1>1, <1>6, Framed, ZenonT(60) DEF otherThanUser

\* sys_shutdown.
LEMMA ShutdownStep ==
    ASSUME TcpInv, NEW u \in Users, Shutdown(u)
    PROVE  TcpInv' /\ KeptClosing
<1> DEFINE s == csock[u]
<1>1. s # 0 /\ UNCHANGED <<lst, lsock, csock, wrote, otherThanUser>>
  BY ZenonT(60) DEF Shutdown
<1>2. PICK ret \in {"user", "reset"} : tcpClose(u, s, ret)
  BY ZenonT(60) DEF Shutdown
<1>3. s \in Slots /\ ret \in {"user", "reset", "lcheck"}
  BY <1>1, ZenonT(60) DEF TcpInv, Socks
<1> HIDE DEF s
<1>4. Moved /\ Regs'
  BY <1>2, <1>3, CloseMoves, ZenonT(60)
<1> QED
  BY <1>1, <1>4, Framed, ZenonT(60) DEF otherThanUser

\* SHUT_RDWR empties the receive ring.
LEMMA ResetRxStep ==
    ASSUME TcpInv, NEW u \in Users, ResetRx(u)
    PROVE  TcpInv' /\ KeptClosing
<1> DEFINE s == reg[u].slot
           t == [tcb[s] EXCEPT !.rxBuf = <<>>]
<1>1. /\ upc[u] = "reset" /\ Return(u) /\ Set(s, t)
      /\ UNCHANGED <<lst, lsock, csock, wrote, otherThanUser>>
  BY ZenonT(60) DEF ResetRx
<1>2. upc[u] \in WithBlock
  BY <1>1, ZenonT(60) DEF WithBlock
<1>3. s \in Slots /\ IsBlock(tcb[s])
  BY <1>2, HasBlock, ZenonT(60)
<1> HIDE DEF s
<1>4. Keeps(t, tcb[s])
  BY <1>3, EmptyKeeps, ZenonT(60)
<1> HIDE DEF t
<1>5. Moved
  BY <1>1, <1>3, <1>4, KeepsMoves, SetMoved, ZenonT(60) DEF TcpInv
<1>6. Regs'
  BY <1>1, Returns, ZenonT(60) DEF TcpInv
<1> QED
  BY <1>1, <1>5, <1>6, Framed, ZenonT(60) DEF otherThanUser

\* A connection socket is closed.
LEMMA CloseStep ==
    ASSUME TcpInv, NEW u \in Users, Close(u)
    PROVE  TcpInv' /\ KeptClosing
<1> DEFINE s == csock[u]
<1>1. /\ s # 0 /\ tcpClose(u, s, "user") /\ csock' = [csock EXCEPT ![u] = 0]
      /\ UNCHANGED <<lst, lsock, wrote, otherThanUser>>
  BY ZenonT(60) DEF Close
<1>2. s \in Slots
  BY <1>1, ZenonT(60) DEF TcpInv, Socks
<1> HIDE DEF s
<1>3. Moved /\ Regs'
  BY <1>1, <1>2, CloseMoves, ZenonT(60)
<1>4. csock' \in [Users -> Slots \cup {0}]
  BY <1>1, ZenonT(60) DEF TcpInv, Socks
<1>5. Socks'
  BY <1>1, <1>4, ZenonT(60) DEF TcpInv, Socks
<1> QED
  BY <1>1, <1>3, <1>5, Framed, ZenonT(60) DEF otherThanUser

-----------------------------------------------------------------------------
(***************************************************************************)
(* The theorems.                                                            *)
(***************************************************************************)
\* tcpInit.
LEMMA InitTcpInv == ASSUME Init PROVE TcpInv
<1>1. <<>> \in Seq(Bytes) /\ <<>> \in Seq(Descriptors) /\ <<>> \in Seq(Slots) /\ Len(<<>>) = 0
      /\ 0 \in Int
  OBVIOUS
<1>2. Depth \in Nat /\ MaxRetx \in Nat /\ BufCap \in Nat /\ RetxMax \in Nat
  BY TableAssumption, BlockAssumption, ZenonT(60)
<1>3. 0 \in 0..MaxRetx /\ 0 \in 0..BufCap /\ 0 <= BufCap /\ 0 <= RetxMax /\ 0 + 0 <= BufCap
      /\ 0 + 0 <= Depth
  BY <1>2
<1>4. IsBlock(ZeroTCB)
  <2>1. IsRecord(ZeroTCB)
    BY ZenonT(60) DEF IsRecord, ZeroTCB, Fields
  <2>2. /\ ZeroTCB.active = FALSE /\ ZeroTCB.state = "CLOSED" /\ ZeroTCB.conn = NoConn
        /\ ZeroTCB.listener = 0 /\ ZeroTCB.sndNxt = 0 /\ ZeroTCB.tries = 0
        /\ ZeroTCB.rto = FALSE /\ ZeroTCB.retxQ = <<>> /\ ZeroTCB.txBuf = <<>>
        /\ ZeroTCB.clean = TRUE /\ ZeroTCB.rcvWnd = 0 /\ ZeroTCB.rxBuf = <<>>
    BY ZenonT(60) DEF ZeroTCB
  <2>3. NameOK(ZeroTCB)
    BY <2>2, ZenonT(60) DEF NameOK, States
  <2>4. SendOK(ZeroTCB)
    BY <1>1, <1>3, <2>2, ZenonT(60) DEF SendOK
  <2>5. ReceiveOK(ZeroTCB)
    BY <1>1, <1>3, <2>2, ZenonT(60) DEF ReceiveOK
  <2> QED
    BY <2>1, <2>3, <2>4, <2>5, ZenonT(60) DEF IsBlock
<1>5. Blocks
  <2>1. tcb = [s \in Slots |-> ZeroTCB]
    BY ZenonT(60) DEF Init
  <2> QED
    BY <1>4, <2>1, ZenonT(60) DEF Blocks
<1>6. Lists
  <2> DEFINE k == [NoListener EXCEPT !.active = TRUE, !.port = "echo"]
  <2>1. /\ k = [f \in ListenerFields |-> k[f]] /\ k.pending = <<>> /\ k.accept = <<>>
        /\ NoListener = [f \in ListenerFields |-> NoListener[f]]
        /\ NoListener.pending = <<>> /\ NoListener.accept = <<>>
    BY DEF NoListener, ListenerFields
  <2>2. lst = [l \in Listeners |-> IF l = 1 THEN k ELSE NoListener]
    BY ZenonT(60) DEF Init
  <2> HIDE DEF k
  <2>3. IsListener(k) /\ IsListener(NoListener)
    BY <1>1, <1>3, <2>1, ZenonT(60) DEF IsListener
  <2> QED
    BY <2>2, <2>3, ZenonT(60) DEF Lists
<1>7. RxAt
  BY ZenonT(60) DEF Init, RxIdle, RxAt
<1>8. ScanAt
  BY ZenonT(60) DEF Init, ScanAt
<1>9. Regs
  <2>1. upc = [u \in Users |-> "user"] /\ reg = [u \in Users |-> NoReg]
    BY ZenonT(60) DEF Init
  <2> QED
    BY <2>1, NoRegIsReg, ZenonT(60) DEF Regs
<1>10. Socks
  BY <1>1, ZenonT(60) DEF Init, Socks
<1> QED
  BY <1>5, <1>6, <1>7, <1>8, <1>9, <1>10, ZenonT(60) DEF TcpInv

\* Every step keeps the invariant, and opens no block that is closing.
LEMMA NextTcpInv == ASSUME TcpInv, [Next]_vars PROVE TcpInv' /\ KeptClosing
<1>1. CASE Rx
  BY <1>1, RxHandleStep, RxPassiveSendStep, RxPassiveArmStep, RxPassiveUnwindStep,
     ZenonT(60) DEF Rx
<1>2. CASE Arrival
  BY <1>2, RxResetStep, RxDispatchStep, RxPassiveOpenStep, ZenonT(60) DEF Arrival
<1>3. CASE Scan
  BY <1>3, ScanRestoreStep, RTOFireStep, PersistFireStep, TimeWaitFreeStep,
     ZenonT(60) DEF Scan, ScanFire
<1>4. CASE Echo
  BY <1>4, EchoServeStep, EchoCloseStep, ZenonT(60) DEF Echo
<1>5. CASE \E s \in Slots, k \in {"rto", "persist", "tw"} : ScanPass(s, k)
  BY <1>5, ScanPassStep, ZenonT(60)
<1>6. ASSUME NEW u \in Users, Inside(u) PROVE TcpInv' /\ KeptClosing
  BY <1>6, CloseSendStep, CloseAccountStep, LCloseNextStep, LCheckStep, ConnectSendStep,
     ConnectArmStep, ConnectWaitStep, DrainSendStep, DrainAccountStep, ResetRxStep,
     ZenonT(60) DEF Inside
<1>7. ASSUME NEW u \in Users, Call(u) PROVE TcpInv' /\ KeptClosing
  BY <1>7, ListenStep, AcceptStep, CloseListenerStep, ConnectStep, SendCallStep, RecvStep,
     ShutdownStep, CloseStep, ZenonT(60) DEF Call
<1>8. CASE UNCHANGED vars
  <2>1. Moved
    BY <1>8, SameMoved, ZenonT(60) DEF vars, TcpInv
  <2> QED
    BY <1>8, <2>1, Framed, ZenonT(60) DEF vars
<1> QED
  BY <1>1, <1>2, <1>3, <1>4, <1>5, <1>6, <1>7, <1>8, ZenonT(60) DEF Next

\* The inductive invariant of the stack.
THEOREM StackInvariant == Spec => []TcpInv
<1>1. Init => TcpInv
  BY InitTcpInv
<1>2. TcpInv /\ [Next]_vars => TcpInv'
  BY NextTcpInv
<1> QED
  BY <1>1, <1>2, PTL DEF Spec

\* Whatever the network, the timers and the processes do, each block's state,
\* window and queues stay within bounds, and so do the listeners' queues.
THEOREM StackTyped == Spec => []TypeOK
<1>1. TcpInv => TypeOK
  <2> SUFFICES ASSUME TcpInv PROVE TypeOK
    OBVIOUS
  <2>1. \A s \in Slots : IsBlock(tcb[s])
    BY ZenonT(60) DEF TcpInv, Blocks
  <2>2. \A l \in Listeners : Len(lst[l].pending) + Len(lst[l].accept) <= Depth
    BY ZenonT(60) DEF TcpInv, Lists, IsListener
  <2> QED
    BY <2>1, <2>2, ZenonT(60) DEF TypeOK, IsBlock, NameOK, SendOK, ReceiveOK
<1> QED
  BY <1>1, StackInvariant, PTL

\* The window that a connection announces fits the room in its receive ring
\* (rbFree), if its slot started with an empty one.
THEOREM WindowAlwaysFits == Spec => []WindowFits
<1>1. TcpInv => WindowFits
  BY ZenonT(60) DEF TcpInv, Blocks, WindowFits, tcpAdvertiseWin, IsBlock, ReceiveOK
<1> QED
  BY <1>1, StackInvariant, PTL

\* The retransmission timer runs while descriptors wait for an ACK.
THEOREM TimerRuns == Spec => []RetxArmed
<1>1. TcpInv => RetxArmed
  BY ZenonT(60) DEF TcpInv, Blocks, RetxArmed, IsBlock, SendOK
<1> QED
  BY <1>1, StackInvariant, PTL

\* No step opens a connection that has begun to close, the handlers that
\* tcpDispatchToTCB chose from a state read without the lock included.
THEOREM ClosingIsFinal == Spec => NoRevival
<1> DEFINE A == \A s \in Slots :
          tcb[s].active /\ tcb'[s].active /\ tcb'[s].conn = tcb[s].conn
          /\ tcb[s].state \notin Opening \cup {"CLOSED"}
          => tcb'[s].state \notin Opening
<1>1. TcpInv /\ [Next]_vars => [A]_vars
  BY NextTcpInv, ZenonT(60) DEF KeptClosing, StaysClosing
<1> HIDE DEF A
<1>2. Spec => [][A]_vars
  BY <1>1, StackInvariant, PTL DEF Spec
<1> QED
  BY <1>2 DEF A, NoRevival
=============================================================================
