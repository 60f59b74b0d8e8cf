------------------------------ MODULE Checksum ------------------------------
(***************************************************************************)
(* The ones-complement checksums of ipv4.go, udp.go and tcp_segment.go over *)
(* packets that are sequences of bytes.  A byte is below Radix (2^8), a     *)
(* 16-bit word is two of them, the checksum field of a packet is the two    *)
(* bytes at CsumAt and the pseudo-header is given by its words.             *)
(***************************************************************************)
EXTENDS Integers, Sequences, FiniteSetsExt

CONSTANTS
    Radix,     \* 2^8
    CsumAt     \* where the checksum field of a transport header starts

Word == Radix * Radix

\* The big-endian words of a packet; an odd last byte is a high half.
WordAt(p, i) == p[i] * Radix + IF i < Len(p) THEN p[i + 1] ELSE 0
WordSum(p) ==
    FoldSet(LAMBDA i, acc : acc + WordAt(p, i), 0, {i \in 1..Len(p) : i % 2 = 1})

\* Carries go back in at the low end until none is left.
RECURSIVE Carried(_)
Carried(sum) == IF sum < Word THEN sum ELSE Carried((sum % Word) + (sum \div Word))

Complement(sum) == Word - 1 - Carried(sum)

WithCsum(p, c) == [p EXCEPT ![CsumAt] = c \div Radix, ![CsumAt + 1] = c % Radix]
Wire(p) == p[CsumAt] * Radix + p[CsumAt + 1]

ipv4Checksum(p) == Complement(WordSum(p))
\* What ipv4BuildHeader puts in the checksum field.
ipv4Sealed(p) == WithCsum(p, ipv4Checksum(WithCsum(p, 0)))
tcpChecksum(pseudo, p) == Complement(pseudo + WordSum(p))

\* Zero on the wire means "not computed", so a zero sum is sent as all ones.
udpChecksum(pseudo, p) ==
    LET c == tcpChecksum(pseudo, p) IN IF c = 0 THEN Word - 1 ELSE c

udpChecksumVerify(pseudo, p) ==
    Wire(p) = 0 \/ udpChecksum(pseudo, WithCsum(p, 0)) = Wire(p)

tcpChecksumVerify(pseudo, p) == tcpChecksum(pseudo, WithCsum(p, 0)) = Wire(p)

\* What udpSend and tcpComputeAndSetChecksum put on the wire for p.
UdpSealed(pseudo, p) == WithCsum(p, udpChecksum(pseudo, WithCsum(p, 0)))
TcpSealed(pseudo, p) == WithCsum(p, tcpChecksum(pseudo, WithCsum(p, 0)))
=============================================================================
