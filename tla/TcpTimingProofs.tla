--------------------------- MODULE TcpTimingProofs --------------------------
(***************************************************************************)
(* The timing of a connection stays in range for every segment size,       *)
(* window, queue length and timeout, and however many ACKs arrive; the     *)
(* window does so until its word wraps.                                    *)
(***************************************************************************)
EXTENDS TcpTiming, SequenceTheorems, WellFoundedInduction, TLAPS

\* The time a leaf is given.
USE SMTT(60), ZenonT(60)

-----------------------------------------------------------------------------
(***************************************************************************)
(* Arithmetic.                                                             *)
(***************************************************************************)
\* A bounded set of naturals has a largest element, so Max is one of its
\* elements: the oldest send that tcpRTTSample uses is the age of a
\* descriptor.
LEMMA MaxIsElement ==
    ASSUME NEW S \in SUBSET Nat, NEW n \in Nat, S # {}, \A s \in S : s <= n
    PROVE  Max(S) \in S
<1> DEFINE T == {m \in Nat : \E s \in S : m = n - s}
           R == OpToRel(<, Nat)
<1>1. T # {} /\ T \subseteq Nat
  <2>1. PICK s \in S : TRUE
    BY ZenonT(60)
  <2>2. n - s \in T
    BY <2>1
  <2> QED
    BY <2>2, ZenonT(60)
<1>2. PICK x \in T : \A y \in T : ~(<<y, x>> \in R)
  <2> HIDE DEF T, R
  <2>1. IsWellFoundedOn(R, Nat)
    BY NatLessThanWellFounded, ZenonT(60) DEF R
  <2> QED
    BY <1>1, <2>1, WFMin, ZenonT(60)
<1>3. \A y \in T : ~(y < x)
  BY <1>2, ZenonT(60) DEF OpToRel
<1>4. PICK s \in S : x = n - s
  BY <1>2, ZenonT(60)
<1>5. \A t \in S : s >= t
  <2>1. SUFFICES ASSUME NEW t \in S PROVE s >= t
    BY ZenonT(60)
  <2>2. n - t \in T /\ n - t \in Nat
    OBVIOUS
  <2> QED
    BY <1>3, <1>4, <2>2
<1> QED
  BY <1>5, ZenonT(60) DEF Max

\* tcpCCOnAck's increment in congestion avoidance: with at least a segment in
\* the window it is at most a segment, so one subtraction brings cwndAccum
\* back below a segment.
LEMMA IncrementIsSmall ==
    ASSUME NEW m \in Nat, NEW c \in Nat, m > 0, c >= m
    PROVE  (m * m) \div c \in 0..m
<1> DEFINE q == (m * m) \div c
<1>1. m * m \in Nat /\ c > 0
  OBVIOUS
<1>2. q \in Int /\ c * q <= m * m /\ m * m < c * q + c
  BY <1>1
<1> HIDE DEF q
<1>3. q >= 0
  <2>1. SUFFICES ASSUME q <= -1 PROVE FALSE
    BY <1>2
  <2>2. c * q + c <= 0
    BY <1>1, <1>2, <2>1
  <2> QED
    BY <1>1, <1>2, <2>2
<1>4. q <= m
  <2>1. SUFFICES ASSUME q >= m + 1 PROVE FALSE
    BY <1>2
  <2>2. c * q >= c * (m + 1)
    BY <1>1, <1>2, <2>1
  <2>3. c * (m + 1) >= m * (m + 1)
    BY <1>1
  <2>4. m * (m + 1) = m * m + m
    OBVIOUS
  <2> QED
    BY <1>1, <1>2, <2>2, <2>3, <2>4
<1> QED
  BY <1>2, <1>3, <1>4 DEF q

\* tcpRTTUpdate: a weighted mean of the old estimate and the sample lies
\* between whatever bounds both, although the division rounds down.
LEMMA SmoothedBetween ==
    ASSUME NEW a \in Nat, NEW b \in Nat, NEW m \in a..b, NEW r \in a..b
    PROVE  (7 * m + r) \div 8 \in a..b
  OBVIOUS

-----------------------------------------------------------------------------
(***************************************************************************)
(* The inductive invariant: what the counters are, that no more is in      *)
(* flight than the peer allows, and that the descriptors are in the order  *)
(* of their ends, so that retxAckTo's scan from the head finds all of the  *)
(* acknowledged ones.                                                      *)
(***************************************************************************)
Descriptors == [end : Nat, age : 0..MaxAge, again : BOOLEAN]

Types ==
    /\ srttTicks \in Nat /\ rttvarTicks \in Nat
    /\ lo \in Nat /\ hi \in Nat
    /\ flight \in Nat /\ sending \in Nat /\ flight + sending <= SndWnd
    /\ dupAcks \in Nat /\ acks \in Nat /\ retxQ \in Seq(Descriptors)

InOrder ==
    /\ \A i \in 1..Len(retxQ) : retxQ[i].end \in 1..flight
    /\ \A i, j \in 1..Len(retxQ) : i < j => retxQ[i].end < retxQ[j].end

Windows ==
    /\ ssthresh \in (2 * Mss)..Infinite /\ cwndAccum \in 0..(Mss - 1)
    /\ cwnd \in Nat /\ cwnd < WordMod
    /\ Grown < WordMod => cwnd \in Mss..Grown

Timeout == rtoTicks \in RTOMin..RTOMax /\ left \in Off..RTOMax

Estimate == rttInitialized => srttTicks \div 8 \in lo..hi

TInv == Types /\ InOrder /\ Windows /\ Timeout /\ Estimate

\* retxAckTo stops at the first descriptor the ACK does not cover; since the
\* ends increase it has popped exactly those the ACK covers.
LEMMA PopsExactly ==
    ASSUME Types, InOrder, NEW n \in Nat, NEW k \in 0..Len(retxQ), Pops(k, n)
    PROVE  \A i \in 1..Len(retxQ) : retxQ[i].end <= n <=> i <= k
<1> SUFFICES ASSUME NEW i \in 1..Len(retxQ) PROVE retxQ[i].end <= n <=> i <= k
  BY ZenonT(60)
<1>1. Len(retxQ) \in Nat
  BY DEF Types
<1>2. CASE i <= k
  BY <1>1, <1>2 DEF Pops
<1>3. CASE i > k
  <2>1. k + 1 \in 1..Len(retxQ) /\ retxQ[k + 1].end > n
    BY <1>1, <1>3 DEF Pops
  <2>2. retxQ[i].end \in Nat /\ retxQ[k + 1].end \in Nat
    BY <1>1, <2>1 DEF InOrder, Types
  <2>3. retxQ[i].end >= retxQ[k + 1].end
    BY <1>1, <1>3, <2>1, <2>2 DEF InOrder
  <2> QED
    BY <1>1, <1>3, <2>1, <2>2, <2>3
<1> QED
  BY <1>1, <1>2, <1>3

\* What an ACK leaves in the queue is in order and within what is still in
\* flight.
LEMMA KeptInOrder ==
    ASSUME Types, InOrder, NEW n \in 1..flight, NEW k \in 0..Len(retxQ), Pops(k, n),
           retxQ' = Kept(k, n), flight' = flight - n
    PROVE  retxQ' \in Seq(Descriptors) /\ InOrder'
<1> DEFINE m == Len(retxQ) - k
           e(i) == [retxQ[k + i] EXCEPT !.end = @ - n]
<1>1. m \in Nat /\ n \in Nat /\ n > 0 /\ flight \in Nat /\ Len(retxQ) \in Nat /\ k \in Nat
  BY DEF Types
<1>2. \A i \in 1..m : /\ k + i \in 1..Len(retxQ)
                      /\ retxQ[k + i].end \in Nat
                      /\ retxQ[k + i].end > n /\ retxQ[k + i].end <= flight
  <2>1. SUFFICES ASSUME NEW i \in 1..m
                 PROVE  /\ k + i \in 1..Len(retxQ)
                        /\ retxQ[k + i].end \in Nat
                        /\ retxQ[k + i].end > n /\ retxQ[k + i].end <= flight
    BY ZenonT(60)
  <2>2. k + i \in 1..Len(retxQ) /\ ~(k + i <= k)
    BY <1>1
  <2>3. retxQ[k + i].end \in 1..flight /\ ~(retxQ[k + i].end <= n)
    BY <1>1, <2>2, PopsExactly, ZenonT(60) DEF InOrder
  <2> QED
    BY <1>1, <2>2, <2>3
<1>3. \A i \in 1..m : e(i) \in Descriptors /\ e(i).end = retxQ[k + i].end - n
  <2>1. SUFFICES ASSUME NEW i \in 1..m
                 PROVE  e(i) \in Descriptors /\ e(i).end = retxQ[k + i].end - n
    BY ZenonT(60)
  <2>2. retxQ[k + i] \in Descriptors
    BY <1>2 DEF Types
  <2>3. retxQ[k + i].end - n \in Nat
    BY <1>1, <1>2
  <2> QED
    BY <2>2, <2>3, ZenonT(60) DEF Descriptors
<1>4. retxQ' = [i \in 1..m |-> e(i)]
  BY ZenonT(60) DEF Kept
<1> HIDE DEF e
<1>5. Len(retxQ') = m /\ retxQ' \in Seq(Descriptors)
  BY <1>1, <1>3, <1>4
<1>6. \A i \in 1..m : retxQ'[i].end = retxQ[k + i].end - n
  BY <1>3, <1>4, ZenonT(60)
<1>7. \A i \in 1..m : retxQ'[i].end \in 1..flight'
  <2>1. SUFFICES ASSUME NEW i \in 1..m PROVE retxQ'[i].end \in 1..flight'
    BY ZenonT(60)
  <2>2. retxQ'[i].end = retxQ[k + i].end - n
    BY <1>6, ZenonT(60)
  <2>3. retxQ[k + i].end \in Nat /\ retxQ[k + i].end > n /\ retxQ[k + i].end <= flight
    BY <1>2, ZenonT(60)
  <2> HIDE DEF m
  <2> QED
    BY <1>1, <2>2, <2>3
<1>8. \A i, j \in 1..m : i < j => retxQ'[i].end < retxQ'[j].end
  <2>1. SUFFICES ASSUME NEW i \in 1..m, NEW j \in 1..m, i < j
                 PROVE  retxQ'[i].end < retxQ'[j].end
    BY ZenonT(60)
  <2>2. k + i < k + j /\ k + i \in 1..Len(retxQ) /\ k + j \in 1..Len(retxQ)
    BY <1>1, <1>2, <2>1
  <2>3. retxQ[k + i].end < retxQ[k + j].end
    BY <2>2, ZenonT(60) DEF InOrder
  <2>4. retxQ'[i].end = retxQ[k + i].end - n /\ retxQ'[j].end = retxQ[k + j].end - n
    BY <1>6, ZenonT(60)
  <2>5. retxQ[k + i].end \in Nat /\ retxQ[k + j].end \in Nat
    BY <1>2, ZenonT(60)
  <2> QED
    BY <1>1, <2>3, <2>4, <2>5
<1> QED
  BY <1>5, <1>7, <1>8, ZenonT(60) DEF InOrder

\* A word keeps what fits it.
LEMMA WordKeeps ==
    ASSUME NEW n \in Nat
    PROVE  Word(n) \in Nat /\ Word(n) < WordMod /\ (n < WordMod => Word(n) = n)
  BY TimingAssumption DEF Word

\* The first windows fit what the window may have grown to.
LEMMA InitialWindow ==
    tcpInitialWindow \in Nat /\ tcpInitialWindow >= 2 * Mss /\ tcpInitialWindow <= 4 * Mss
<1> USE TimingAssumption
<1>1. CASE Mss > 2190
  BY <1>1 DEF tcpInitialWindow
<1>2. CASE Mss > 1095 /\ Mss <= 2190
  BY <1>2 DEF tcpInitialWindow
<1>3. CASE Mss <= 1095
  BY <1>3 DEF tcpInitialWindow
<1> QED
  BY <1>1, <1>2, <1>3

\* What the window may have grown to.
LEMMA GrownIsNat ==
    ASSUME acks \in Nat
    PROVE  Grown \in Nat /\ Grown >= Max2(SndWnd \div 2, 2 * Mss) + 3 * Mss /\ Grown >= 5 * Mss
<1> DEFINE g == acks * Mss
           h == SndWnd \div 2
<1>1. g \in Nat /\ h \in Nat /\ Mss \in Nat
  BY TimingAssumption
<1>2. Grown = Max2(h, 2 * Mss) + 3 * Mss + g
  BY ZenonT(60) DEF Grown
<1> HIDE DEF g, h
<1>3. Max2(h, 2 * Mss) \in Nat /\ Max2(h, 2 * Mss) >= 2 * Mss
  BY <1>1 DEF Max2
<1>4. Grown \in Nat /\ Grown >= Max2(h, 2 * Mss) + 3 * Mss /\ Grown >= 5 * Mss
  BY <1>1, <1>2, <1>3
<1> QED
  BY <1>4, ZenonT(60) DEF h

\* An ACK lets it grow by a segment.
LEMMA GrownByAck ==
    ASSUME acks \in Nat, acks' = acks + 1
    PROVE  Grown' = Grown + Mss /\ Grown' \in Nat
<1> DEFINE g == acks * Mss
           m == Max2(SndWnd \div 2, 2 * Mss) + 3 * Mss
<1>1. (acks + 1) * Mss = g + Mss /\ g \in Nat /\ Mss \in Nat
  BY TimingAssumption
<1>2. m \in Nat
  <2>1. SndWnd \div 2 \in Nat /\ Mss \in Nat
    BY TimingAssumption
  <2> QED
    BY <2>1 DEF Max2
<1>3. Grown = m + g /\ Grown' = m + (acks + 1) * Mss
  BY ZenonT(60) DEF Grown
<1> HIDE DEF g, m
<1> QED
  BY <1>1, <1>2, <1>3

\* A step that leaves the windows and the count of ACKs alone.
LEMMA WindowsKept ==
    ASSUME Windows, UNCHANGED <<cwnd, ssthresh, cwndAccum, acks>>
    PROVE  Windows'
  BY ZenonT(60) DEF Windows, Grown

-----------------------------------------------------------------------------
(***************************************************************************)
(* The steps.                                                              *)
(***************************************************************************)
\* The first windows, tcpCCInit.
LEMMA InitTInv == Init => TInv
<1> SUFFICES ASSUME Init PROVE TInv
  BY ZenonT(60)
<1> USE TimingAssumption DEF Init
<1>1. Types /\ InOrder
  <2>1. retxQ \in Seq(Descriptors) /\ Len(retxQ) = 0
    BY EmptySeq, ZenonT(60)
  <2>2. Types
    BY <2>1 DEF Types
  <2>3. InOrder
    BY <2>1 DEF InOrder
  <2> QED
    BY <2>2, <2>3, ZenonT(60)
<1>2. cwnd = tcpInitialWindow /\ ssthresh = Infinite /\ cwndAccum = 0 /\ acks \in Nat
  OBVIOUS
<1>3. Windows
  <2>1. Infinite \in (2 * Mss)..Infinite
    BY DEF Infinite
  <2>2. cwnd \in Nat /\ cwnd < WordMod /\ cwnd \in Mss..Grown
    BY <1>2, InitialWindow, GrownIsNat
  <2> QED
    BY <1>2, <2>1, <2>2 DEF Windows
<1>4. Timeout /\ Estimate
  BY DEF Timeout, Estimate, Off
<1> QED
  BY <1>1, <1>3, <1>4, ZenonT(60) DEF TInv

\* tcpRTTSample: whatever the popped descriptors are, the timeout is clamped
\* and the estimate stays between the extremes of the samples.
LEMMA SampleInRange ==
    ASSUME Types, Timeout, Estimate, NEW k \in 0..Len(retxQ), tcpRTTSample(k)
    PROVE  /\ srttTicks' \in Nat /\ rttvarTicks' \in Nat
           /\ lo' \in Nat /\ hi' \in Nat
           /\ rtoTicks' \in RTOMin..RTOMax /\ Estimate'
<1> DEFINE ages == {0} \cup {retxQ[i].age : i \in 1..k}
           r == Max(ages)
<1>1. r \in Nat
  <2>1. \A i \in 1..k : retxQ[i].age \in 0..MaxAge
    <3>1. \A i \in 1..k : retxQ[i] \in Descriptors
      BY DEF Types
    <3> QED
      BY <3>1, ZenonT(60) DEF Descriptors
  <2>2. ages \in SUBSET Nat /\ ages # {} /\ \A a \in ages : a <= MaxAge
    BY <2>1, TimingAssumption
  <2> HIDE DEF ages
  <2>3. r \in ages
    BY <2>2, TimingAssumption, MaxIsElement, ZenonT(60) DEF r
  <2> QED
    BY <2>2, <2>3, ZenonT(60)
<1>2. CASE UNCHANGED <<rtt, rtoTicks>>
  BY <1>2, ZenonT(60) DEF Types, Timeout, Estimate, rtt
<1>3. CASE r > 0 /\ tcpRTTUpdate(r)
  <2> HIDE DEF r
  <2>1. lo' = Min2(lo, r) /\ hi' = Max2(hi, r)
    BY <1>3, ZenonT(60) DEF tcpRTTUpdate
  <2>2. lo' \in Nat /\ hi' \in Nat /\ r \in lo'..hi' /\ lo' <= lo /\ hi <= hi'
    BY <1>1, <2>1 DEF Types, Min2, Max2
  <2>3. /\ srttTicks' \in Nat /\ rttvarTicks' \in Nat
        /\ srttTicks' \div 8 \in lo'..hi'
    <3>1. CASE rttInitialized
      <4> DEFINE m == srttTicks \div 8
      <4>1. m \in Nat /\ m \in lo'..hi'
        BY <3>1, <2>2 DEF Types, Estimate
      <4>2. srttTicks' = 7 * m + r
        BY <3>1, <1>3, ZenonT(60) DEF tcpRTTUpdate, Smoothed
      <4>3. rttvarTicks' \in Nat
        <5>1. rttvarTicks' = 3 * (rttvarTicks \div 4) + (IF m > r THEN m - r ELSE r - m)
          BY <3>1, <1>3, ZenonT(60) DEF tcpRTTUpdate, Varied
        <5>2. rttvarTicks \div 4 \in Nat
          BY DEF Types
        <5> HIDE DEF m
        <5> QED
          BY <1>1, <4>1, <5>1, <5>2
      <4> HIDE DEF m
      <4>5. srttTicks' \in Nat /\ srttTicks' \div 8 \in lo'..hi'
        BY <1>1, <2>2, <4>1, <4>2, SmoothedBetween
      <4> QED
        BY <4>3, <4>5, ZenonT(60)
    <3>2. CASE ~rttInitialized
      <4>1. tcpRTTInit(r)
        BY <3>2, <1>3, ZenonT(60) DEF tcpRTTUpdate
      <4>2. srttTicks' = r * 8 /\ rttvarTicks' = Max2((r \div 2) * 4, 4)
        BY <4>1, ZenonT(60) DEF tcpRTTInit
      <4>3. (r * 8) \div 8 = r /\ r \div 2 \in Nat
        BY <1>1
      <4> QED
        BY <1>1, <2>2, <4>2, <4>3 DEF Max2
    <3> QED
      BY <3>1, <3>2, ZenonT(60)
  <2>4. rtoTicks' \in RTOMin..RTOMax
    <3>1. rtoTicks' = clampRTO((srttTicks' \div 8) + Max2(rttvarTicks', 1))
      BY <1>3, ZenonT(60) DEF tcpRTTUpdate, rttvarBasedRTO
    <3>2. (srttTicks' \div 8) + Max2(rttvarTicks', 1) \in Nat
      <4>0. \A x \in Nat : x \div 8 \in Nat
        OBVIOUS
      <4>1. srttTicks' \div 8 \in Nat /\ rttvarTicks' \in Nat
        BY <2>3, <4>0, ZenonT(60)
      <4> QED
        BY <4>1 DEF Max2
    <3> QED
      BY <3>1, <3>2, TimingAssumption DEF clampRTO, Min2, Max2
  <2> QED
    BY <2>2, <2>3, <2>4, ZenonT(60) DEF Estimate
<1> QED
  BY <1>2, <1>3, ZenonT(60) DEF tcpRTTSample

\* The threshold after a loss fits its word, since no more than the peer's
\* window is in flight.
LEMMA HalvedInRange ==
    ASSUME Types
    PROVE  /\ Halved \in (2 * Mss)..Infinite
           /\ Halved <= Max2(SndWnd \div 2, 2 * Mss)
<1> DEFINE h == flight \div 2
           w == SndWnd \div 2
<1>1. flight \in Nat /\ flight <= SndWnd
  BY TimingAssumption DEF Types
<1>2. h \in Nat /\ h <= flight /\ w \in Nat /\ h <= w
  BY <1>1, TimingAssumption
<1>3. Halved = Max2(h, 2 * Mss)
  BY ZenonT(60) DEF Halved
<1> HIDE DEF h, w
<1>4. Halved \in (2 * Mss)..Infinite /\ Halved <= Max2(w, 2 * Mss)
  BY <1>1, <1>2, <1>3, TimingAssumption DEF Max2, Infinite
<1> QED
  BY <1>4, ZenonT(60) DEF w

\* tcpCCOnAck.
LEMMA CCOnAckWindows ==
    ASSUME Windows, acks \in Nat, acks' = acks + 1, NEW n \in Nat \ {0}, tcpCCOnAck(n)
    PROVE  Windows'
<1> USE TimingAssumption
<1>1. /\ cwnd \in Nat /\ cwndAccum \in 0..(Mss - 1) /\ ssthresh \in (2 * Mss)..Infinite
      /\ Grown < WordMod => cwnd \in Mss..Grown
  BY DEF Windows
<1>2. Grown \in Nat /\ Grown' \in Nat /\ Grown' = Grown + Mss /\ Grown >= 5 * Mss
  BY GrownIsNat, GrownByAck
<1>3. Min2(n, Mss) \in Nat /\ Min2(n, Mss) <= Mss
  BY DEF Min2
\* A sum is in range, or so large that nothing is claimed of it.
<1>4. ASSUME NEW w \in Nat, NEW i \in Nat, i <= Mss, cwnd' = Word(w + i),
             Grown < WordMod => w >= Mss /\ w <= Grown
      PROVE  cwnd' \in Nat /\ cwnd' < WordMod /\ (Grown' < WordMod => cwnd' \in Mss..Grown')
  <2>1. w + i \in Nat
    BY <1>4
  <2>2. cwnd' \in Nat /\ cwnd' < WordMod /\ (w + i < WordMod => cwnd' = w + i)
    BY <1>4, <2>1, WordKeeps, ZenonT(60)
  <2> QED
    BY <1>2, <1>4, <2>2
<1>5. CASE cwnd = 0
  <2>1. /\ cwnd' = Word(tcpInitialWindow + Min2(n, Mss)) /\ ssthresh' = Infinite
        /\ cwndAccum' = 0
    BY <1>5, ZenonT(60) DEF tcpCCOnAck
  <2>2. /\ tcpInitialWindow \in Nat
        /\ Grown < WordMod => tcpInitialWindow >= Mss /\ tcpInitialWindow <= Grown
    BY <1>2, InitialWindow
  <2>3. cwnd' \in Nat /\ cwnd' < WordMod /\ (Grown' < WordMod => cwnd' \in Mss..Grown')
    BY <1>3, <1>4, <2>1, <2>2, ZenonT(60)
  <2>4. ssthresh' \in (2 * Mss)..Infinite /\ cwndAccum' \in 0..(Mss - 1)
    BY <2>1 DEF Infinite
  <2> QED
    BY <2>3, <2>4, ZenonT(60) DEF Windows, Infinite
<1>6. CASE cwnd # 0 /\ cwnd < ssthresh
  <2>1. ~(cwnd >= ssthresh)
    BY <1>1, <1>6
  <2>2. cwnd' = Word(cwnd + Min2(n, Mss)) /\ ssthresh' = ssthresh /\ cwndAccum' = cwndAccum
    BY <1>6, <2>1, ZenonT(60) DEF tcpCCOnAck
  <2>3. Grown < WordMod => cwnd >= Mss /\ cwnd <= Grown
    BY <1>1, <1>2
  <2>4. cwnd' \in Nat /\ cwnd' < WordMod /\ (Grown' < WordMod => cwnd' \in Mss..Grown')
    BY <1>1, <1>3, <1>4, <2>2, <2>3, ZenonT(60)
  <2> QED
    BY <1>1, <2>2, <2>4, ZenonT(60) DEF Windows, Infinite
<1>7. CASE cwnd # 0 /\ ~(cwnd < ssthresh)
  <2> DEFINE q == (Mss * Mss) \div cwnd
  <2>1. cwnd >= Mss
    BY <1>1, <1>7
  <2>2. q \in 0..Mss
    BY <1>1, <2>1, IncrementIsSmall
  <2>3. Grown < WordMod => cwnd >= Mss /\ cwnd <= Grown
    BY <1>1, <1>2
  <2>4. ssthresh' = ssthresh
    BY <1>7, ZenonT(60) DEF tcpCCOnAck
  <2>5. CASE cwndAccum + q >= Mss
    <3>1. cwnd' = Word(cwnd + Mss) /\ cwndAccum' = cwndAccum + q - Mss
      BY <1>1, <1>7, <2>2, <2>5 DEF tcpCCOnAck
    <3> HIDE DEF q
    <3>2. cwndAccum' \in 0..(Mss - 1)
      BY <1>1, <2>2, <2>5, <3>1
    <3>3. Mss \in Nat /\ Mss <= Mss
      OBVIOUS
    <3>4. cwnd' \in Nat /\ cwnd' < WordMod /\ (Grown' < WordMod => cwnd' \in Mss..Grown')
      BY <1>1, <1>4, <2>3, <3>1, <3>3, ZenonT(60)
    <3> QED
      BY <1>1, <2>4, <3>2, <3>4, ZenonT(60) DEF Windows, Infinite
  <2>6. CASE ~(cwndAccum + q >= Mss)
    <3>1. cwnd' = cwnd /\ cwndAccum' = cwndAccum + q
      BY <1>7, <2>6, ZenonT(60) DEF tcpCCOnAck
    <3> HIDE DEF q
    <3>2. cwndAccum' \in 0..(Mss - 1)
      BY <1>1, <2>2, <2>6, <3>1
    <3>3. cwnd' < WordMod /\ (Grown' < WordMod => cwnd' \in Mss..Grown')
      BY <1>1, <1>2, <3>1 DEF Windows
    <3> QED
      BY <1>1, <2>4, <3>1, <3>2, <3>3, ZenonT(60) DEF Windows, Infinite
  <2> QED
    BY <2>5, <2>6, ZenonT(60)
<1> QED
  BY <1>5, <1>6, <1>7, ZenonT(60)

\* tcpTCBDrainTX sends.
LEMMA SendTInv == ASSUME TInv, Send PROVE TInv'
<1>1. PICK n \in Sizes : /\ sending = 0 /\ flight + n <= Min2(cwnd, SndWnd)
                         /\ sending' = n
                         /\ UNCHANGED <<alive, cc, rtt, timer, retxQ, flight, acks>>
  BY ZenonT(60) DEF Send
<1>2. Types'
  <2>1. n \in Nat /\ flight + n <= SndWnd
    BY <1>1, TimingAssumption DEF TInv, Types, Windows, Min2
  <2> QED
    BY <1>1, <2>1, ZenonT(60) DEF TInv, Types, cc, rtt
<1>3. Windows'
  BY <1>1, WindowsKept, ZenonT(60) DEF TInv, cc
<1> QED
  BY <1>1, <1>2, <1>3, ZenonT(60) DEF TInv, InOrder, Timeout, Estimate, cc, rtt, timer

\* tcpTCBDrainTX accounts for what it sent.
LEMMA AccountTInv == ASSUME TInv, Account PROVE TInv'
<1> DEFINE d == [end |-> flight + sending, age |-> 0, again |-> FALSE]
<1>1. /\ sending > 0 /\ sending' = 0 /\ flight' = flight + sending
      /\ retxQ' = Append(retxQ, d) \/ retxQ' = retxQ
      /\ left' = rtoTicks
      /\ UNCHANGED <<alive, cc, rtt, rtoTicks, rtoFastRetx, acks>>
  BY ZenonT(60) DEF Account
<1>2. flight \in Nat /\ sending \in Nat /\ retxQ \in Seq(Descriptors) /\ d \in Descriptors
      /\ flight' \in Nat /\ flight' > flight
  BY <1>1, TimingAssumption DEF TInv, Types, Descriptors
<1>3. retxQ' \in Seq(Descriptors) /\ InOrder'
  <2>1. CASE retxQ' = retxQ
    BY <1>1, <1>2, <2>1 DEF TInv, InOrder
  <2>2. CASE retxQ' = Append(retxQ, d)
    <3> DEFINE m == Len(retxQ)
    <3>1. m \in Nat /\ Len(retxQ') = m + 1 /\ retxQ' \in Seq(Descriptors)
      BY <1>2, <2>2
    <3>2. \A i \in 1..m : retxQ'[i] = retxQ[i]
      BY <1>2, <2>2
    <3>3. retxQ'[m + 1].end = flight'
      BY <1>1, <1>2, <2>2
    <3>4. \A i \in 1..m : retxQ'[i].end \in Nat /\ retxQ'[i].end > 0 /\ retxQ'[i].end <= flight
      BY <1>2, <3>2 DEF TInv, InOrder
    <3>5. \A i \in 1..(m + 1) : retxQ'[i].end \in 1..flight'
      <4> SUFFICES ASSUME NEW i \in 1..(m + 1) PROVE retxQ'[i].end \in 1..flight'
        BY ZenonT(60)
      <4>1. CASE i = m + 1
        BY <1>2, <3>3, <4>1
      <4>2. CASE i \in 1..m
        BY <1>2, <3>4, <4>2
      <4> QED
        BY <3>1, <4>1, <4>2
    <3>6. \A i, j \in 1..(m + 1) : i < j => retxQ'[i].end < retxQ'[j].end
      <4> SUFFICES ASSUME NEW i \in 1..(m + 1), NEW j \in 1..(m + 1), i < j
                   PROVE  retxQ'[i].end < retxQ'[j].end
        BY ZenonT(60)
      <4>1. i \in 1..m
        BY <3>1
      <4>2. CASE j = m + 1
        BY <1>2, <3>3, <3>4, <4>1, <4>2
      <4>3. CASE j \in 1..m
        BY <3>2, <4>1, <4>3, ZenonT(60) DEF TInv, InOrder
      <4> QED
        BY <3>1, <4>2, <4>3
    <3> QED
      BY <3>1, <3>5, <3>6, ZenonT(60) DEF InOrder
  <2> QED
    BY <1>1, <2>1, <2>2, ZenonT(60)
<1>4. Types'
  BY <1>1, <1>2, <1>3, TimingAssumption DEF TInv, Types, cc, rtt
<1>5. Timeout'
  BY <1>1, TimingAssumption DEF TInv, Timeout, Off
<1>6. Windows'
  BY <1>1, WindowsKept, ZenonT(60) DEF TInv, cc
<1> QED
  BY <1>1, <1>3, <1>4, <1>5, <1>6, ZenonT(60) DEF TInv, Estimate, cc, rtt

\* tcpAckUpdate.
LEMMA AckTInv == ASSUME TInv, Ack PROVE TInv'
<1>1. PICK n \in 1..flight, k \in 0..Len(retxQ) :
        /\ flight' = flight - n /\ acks' = acks + 1
        /\ Pops(k, n) /\ retxQ' = Kept(k, n)
        /\ tcpRTTSample(k)
        /\ tcpCCOnAck(n) /\ dupAcks' = 0
        /\ left' = Off \/ left' = rtoTicks'
        /\ UNCHANGED <<alive, rtoFastRetx, sending>>
  BY ZenonT(60) DEF Ack
<1>2. n \in Nat \ {0} /\ n <= flight
  BY DEF TInv, Types
<1>3. retxQ' \in Seq(Descriptors) /\ InOrder'
  BY <1>1, KeptInOrder, ZenonT(60) DEF TInv
<1>4. /\ srttTicks' \in Nat /\ rttvarTicks' \in Nat /\ lo' \in Nat /\ hi' \in Nat
      /\ rtoTicks' \in RTOMin..RTOMax /\ Estimate'
  BY <1>1, SampleInRange, ZenonT(60) DEF TInv
<1>5. Types'
  BY <1>1, <1>2, <1>3, <1>4, TimingAssumption DEF TInv, Types
<1>6. Windows'
  BY <1>1, <1>2, CCOnAckWindows, ZenonT(60) DEF TInv, Types
<1>7. Timeout'
  BY <1>1, <1>4, TimingAssumption DEF Timeout, Off
<1> QED
  BY <1>3, <1>4, <1>5, <1>6, <1>7, ZenonT(60) DEF TInv

\* tcpHandleEstablished on a duplicate ACK.
LEMMA DupAckTInv == ASSUME TInv, DupAck PROVE TInv'
<1>1. /\ tcpCCOnDupAck /\ acks' = acks + 1
      /\ left' = 0 \/ left' = left
      /\ UNCHANGED <<alive, rtt, rtoTicks, retxQ, flight, sending>>
  BY ZenonT(60) DEF DupAck
<1>2. Types'
  BY <1>1, TimingAssumption DEF TInv, Types, rtt, tcpCCOnDupAck
<1>3. Windows'
  <2>0. /\ Grown \in Nat /\ Grown >= Max2(SndWnd \div 2, 2 * Mss) + 3 * Mss
        /\ Grown' = Grown + Mss
    BY <1>1, GrownIsNat, GrownByAck, ZenonT(60) DEF TInv, Types
  <2>1. CASE UNCHANGED <<ssthresh, cwnd, cwndAccum>>
    <3>1. Grown' < WordMod => cwnd' \in Mss..Grown'
      BY <2>0, <2>1, TimingAssumption DEF TInv, Windows
    <3> QED
      BY <2>1, <3>1, ZenonT(60) DEF TInv, Windows, Infinite
  <2>2. CASE ssthresh' = Halved /\ cwnd' = Word(Halved + 3 * Mss) /\ cwndAccum' = 0
    <3>1. Halved \in (2 * Mss)..Infinite /\ Halved <= Max2(SndWnd \div 2, 2 * Mss)
      BY HalvedInRange, ZenonT(60) DEF TInv
    <3> DEFINE x == Max2(SndWnd \div 2, 2 * Mss)
    <3>2. x \in Int
      BY TimingAssumption DEF Max2
    <3> HIDE DEF x
    <3>3. Halved + 3 * Mss \in Nat /\ Halved + 3 * Mss <= Grown /\ Halved + 3 * Mss >= Mss
      <4>1. Halved \in Int /\ Halved >= 2 * Mss /\ Halved <= x /\ Grown >= x + 3 * Mss
        BY <2>0, <3>1, TimingAssumption DEF Infinite, x
      <4> QED
        BY <2>0, <3>2, <4>1, TimingAssumption
    <3>4. /\ cwnd' \in Nat /\ cwnd' < WordMod
          /\ Halved + 3 * Mss < WordMod => cwnd' = Halved + 3 * Mss
      BY <2>2, <3>3, WordKeeps, ZenonT(60)
    <3>5. Grown' < WordMod => cwnd' \in Mss..Grown'
      <4>1. Halved \in Int /\ Mss \in Nat /\ WordMod \in Nat
        BY <3>1, TimingAssumption DEF Infinite
      <4> QED
        BY <2>0, <3>3, <3>4, <4>1
    <3>6. ssthresh' \in (2 * Mss)..Infinite' /\ cwndAccum' \in 0..(Mss - 1)
      BY <2>2, <3>1, TimingAssumption DEF Infinite
    <3> QED
      BY <3>4, <3>5, <3>6, ZenonT(60) DEF Windows
  <2> QED
    BY <1>1, <2>1, <2>2, ZenonT(60) DEF tcpCCOnDupAck
<1>4. Timeout'
  BY <1>1, TimingAssumption DEF TInv, Timeout, Off
<1> QED
  BY <1>1, <1>2, <1>3, <1>4, ZenonT(60) DEF TInv, InOrder, Estimate, rtt

\* tcpRTOFire.
LEMMA FireTInv == ASSUME TInv, Fire PROVE TInv'
<1>0. UNCHANGED <<rtt, flight, sending, acks>>
  BY ZenonT(60) DEF Fire
<1>1. CASE left' = Off /\ (retxQ' = <<>> \/ retxQ' = retxQ) /\ UNCHANGED <<cc, rtoTicks>>
  <2>1. retxQ' \in Seq(Descriptors) /\ InOrder'
    <3>1. CASE retxQ' = <<>>
      <4>1. retxQ' \in Seq(Descriptors) /\ Len(retxQ') = 0
        BY <3>1, EmptySeq, ZenonT(60)
      <4> QED
        BY <4>1 DEF InOrder
    <3>2. CASE retxQ' = retxQ
      BY <1>0, <3>2, ZenonT(60) DEF TInv, Types, InOrder
    <3> QED
      BY <1>1, <3>1, <3>2, ZenonT(60)
  <2>2. Types'
    BY <1>0, <1>1, <2>1, ZenonT(60) DEF TInv, Types, cc, rtt
  <2>3. Timeout'
    BY <1>1, TimingAssumption DEF TInv, Timeout, Off
  <2>4. Windows'
    BY <1>0, <1>1, WindowsKept, ZenonT(60) DEF TInv, cc
  <2> QED
    BY <1>0, <1>1, <2>1, <2>2, <2>3, <2>4, ZenonT(60) DEF TInv, Estimate, cc, rtt
<1>2. CASE /\ retxQ # <<>>
           /\ retxQ' = [retxQ EXCEPT ![1] = [end |-> @.end, age |-> 0, again |-> TRUE]]
           /\ UNCHANGED cc \/ tcpCCOnRTO
           /\ rtoTicks' = Min2(2 * rtoTicks, RTOMax) /\ left' = rtoTicks'
  <2>1. retxQ' \in Seq(Descriptors) /\ InOrder'
    <3> DEFINE m == Len(retxQ)
               d == [end |-> retxQ[1].end, age |-> 0, again |-> TRUE]
    <3>1. m \in Nat /\ 1 \in 1..m /\ retxQ \in [1..m -> Descriptors]
      BY <1>2, EmptySeq DEF TInv, Types
    <3>2. d \in Descriptors /\ d.end = retxQ[1].end
      BY <3>1, TimingAssumption DEF Descriptors
    <3>3. retxQ' = [retxQ EXCEPT ![1] = d]
      BY <1>2, <3>1, ZenonT(60)
    <3> HIDE DEF d
    <3>4. retxQ' \in [1..m -> Descriptors] /\ \A i \in 1..m : retxQ'[i].end = retxQ[i].end
      BY <3>1, <3>2, <3>3, ZenonT(60)
    <3>5. retxQ' \in Seq(Descriptors) /\ Len(retxQ') = m
      BY <3>1, <3>4
    <3> QED
      BY <1>0, <3>4, <3>5 DEF TInv, InOrder
  <2>2. Windows' /\ dupAcks' \in Nat
    <3>1. CASE UNCHANGED cc
      BY <1>0, <3>1, WindowsKept, ZenonT(60) DEF TInv, Types, cc
    <3>2. CASE tcpCCOnRTO
      <4>1. Halved \in (2 * Mss)..Infinite
        BY HalvedInRange, ZenonT(60) DEF TInv
      <4>2. Grown' = Grown /\ Grown \in Nat /\ Grown >= 5 * Mss
        BY <1>0, GrownIsNat, ZenonT(60) DEF TInv, Types, Grown
      <4>3. cwnd' = Mss /\ ssthresh' = Halved /\ cwndAccum' = 0 /\ dupAcks' = 0
        BY <3>2, ZenonT(60) DEF tcpCCOnRTO
      <4>4. cwnd' \in Nat /\ cwnd' < WordMod /\ cwnd' \in Mss..Grown'
        BY <4>2, <4>3, TimingAssumption
      <4>5. ssthresh' \in (2 * Mss)..Infinite' /\ cwndAccum' \in 0..(Mss - 1) /\ dupAcks' \in Nat
        BY <4>1, <4>3, TimingAssumption DEF Infinite
      <4> QED
        BY <4>4, <4>5, ZenonT(60) DEF Windows
    <3> QED
      BY <1>2, <3>1, <3>2, ZenonT(60)
  <2>3. Types'
    BY <1>0, <2>1, <2>2, ZenonT(60) DEF TInv, Types, rtt
  <2>4. Timeout'
    BY <1>2, TimingAssumption DEF TInv, Timeout, Off, Min2
  <2> QED
    BY <1>0, <2>1, <2>2, <2>3, <2>4, ZenonT(60) DEF TInv, Estimate, rtt
<1> QED
  BY <1>1, <1>2, ZenonT(60) DEF Fire

\* A tick of the PIT.
LEMMA TickTInv == ASSUME TInv, Tick PROVE TInv'
<1> DEFINE m == Len(retxQ)
           d(i) == [retxQ[i] EXCEPT !.age = Min2(@ + 1, MaxAge)]
<1>1. /\ left' = IF left = Off THEN Off ELSE Max2(left - 1, 0)
      /\ retxQ' = [i \in 1..m |-> d(i)]
      /\ UNCHANGED <<cc, rtt, rtoTicks, flight, sending, acks>>
  BY ZenonT(60) DEF Tick
<1>2. m \in Nat /\ \A i \in 1..m : retxQ[i] \in Descriptors
  BY DEF TInv, Types
<1>3. \A i \in 1..m : d(i) \in Descriptors /\ d(i).end = retxQ[i].end
  <2> SUFFICES ASSUME NEW i \in 1..m
               PROVE  d(i) \in Descriptors /\ d(i).end = retxQ[i].end
    BY ZenonT(60)
  <2>1. retxQ[i] \in Descriptors /\ retxQ[i].age \in 0..MaxAge
    BY <1>2, ZenonT(60) DEF Descriptors
  <2>2. Min2(retxQ[i].age + 1, MaxAge) \in 0..MaxAge
    BY <2>1, TimingAssumption DEF Min2
  <2> QED
    BY <2>1, <2>2, ZenonT(60) DEF Descriptors
<1> HIDE DEF d
<1>4. retxQ' \in Seq(Descriptors) /\ Len(retxQ') = m
      /\ \A i \in 1..m : retxQ'[i].end = retxQ[i].end
  BY <1>1, <1>2, <1>3
<1>5. Types'
  BY <1>1, <1>4, ZenonT(60) DEF TInv, Types, cc, rtt
<1>6. InOrder'
  BY <1>1, <1>4 DEF TInv, InOrder
<1>7. Timeout'
  BY <1>1, TimingAssumption DEF TInv, Timeout, Off, Max2
<1>8. Windows'
  BY <1>1, WindowsKept, ZenonT(60) DEF TInv, cc
<1> QED
  BY <1>1, <1>5, <1>6, <1>7, <1>8, ZenonT(60) DEF TInv, Estimate, cc, rtt

-----------------------------------------------------------------------------
\* For every segment size, peer window, queue length, clamp and sequence of
\* ACKs, losses and ticks, the timing of a connection stays in range: the
\* timeout between its clamps (clampRTO, tcpRTOFire), the threshold at least
\* two segments and, until enough ACKs have come to wrap its word, the window
\* at least one (tcp_cc.go), the descriptors within what is in flight
\* (retxAckTo), and the smoothed round trip between the shortest and the
\* longest sample (tcpRTTUpdate).
THEOREM TimingSafe == Spec => []TimingInRange
<1>1. Init => TInv
  BY InitTInv, ZenonT(60)
<1>2. TInv /\ [Next]_vars => TInv'
  <2> SUFFICES ASSUME TInv, [Next]_vars PROVE TInv'
    BY ZenonT(60)
  <2>1. CASE Send
    BY <2>1, SendTInv, ZenonT(60)
  <2>2. CASE Account
    BY <2>2, AccountTInv
  <2>3. CASE Ack
    BY <2>3, AckTInv
  <2>4. CASE DupAck
    BY <2>4, DupAckTInv
  <2>5. CASE Fire
    BY <2>5, FireTInv
  <2>6. CASE Tick
    BY <2>6, TickTInv
  <2>7. CASE UNCHANGED vars
    <3>1. /\ UNCHANGED <<cwnd, ssthresh, cwndAccum, dupAcks>>
          /\ UNCHANGED <<srttTicks, rttvarTicks, rttInitialized, lo, hi>>
          /\ UNCHANGED <<rtoTicks, left, retxQ, flight, sending, acks>>
      BY <2>7, ZenonT(60) DEF vars, cc, rtt, timer
    <3>2. Windows'
      BY <3>1, WindowsKept, ZenonT(60) DEF TInv
    <3> QED
      BY <3>1, <3>2, ZenonT(60) DEF TInv, Types, InOrder, Timeout, Estimate
  <2> QED
    BY <2>1, <2>2, <2>3, <2>4, <2>5, <2>6, <2>7, ZenonT(60) DEF Next
<1>3. TInv => TimingInRange
  BY ZenonT(60) DEF TInv, InOrder, Windows, Timeout, Estimate, TimingInRange
<1> QED
  BY <1>1, <1>2, <1>3, PTL DEF Spec
=============================================================================
