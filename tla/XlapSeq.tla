------------------------------- MODULE XlapSeq -------------------------------
(***************************************************************************)
(* The modulo-N arithmetic of the xlap sequence numbers (lib/xlap.c).      *)
(* Every link keeps four counters va (oldest unacknowledged number sent),  *)
(* vs (next number to send), vr (next number expected) and vapeer (the     *)
(* last vr the peer was told of).  All of them live in 0..N-1, N being     *)
(* lk_n (OP_MOD by default).                                               *)
(***************************************************************************)
EXTENDS Integers

CONSTANT N      \* lk_n: the modulus of the sequence numbers

ASSUME NAssumption == N \in Nat \ {0, 1}

SeqNo == 0..(N-1)

\* How many numbers lie from a (included) up to b (excluded).
Dist(a, b) == (b - a + N) % N

\* Fault: the successor is not reduced.
NextNo_NoWrap(a) == a + 1

\* The successor used for vs and vr.
NextNo(a) == (a + 1) % N

\* a advanced by d numbers.
Advance(a, d) == (a + d) % N

\* Fault: the number vs itself, which acknowledges everything, is refused.
OKNR_NotAll(va, vs, nr) == Dist(va, nr) < Dist(va, vs)

\* The received nr is acceptable: it acknowledges only what is in flight.
OKNR(va, vs, nr) == Dist(va, nr) <= Dist(va, vs)

\* The variant of OKNR the source keeps under #else walks from va to vs.
\* Its loop visits Advance(va, 0), Advance(va, 1), ... up to vs included.
OKNRLoop(va, vs, nr) == \E i \in 0..Dist(va, vs) : nr = Advance(va, i)

\* The received ns is the one expected.
OKNS(vr, ns) == ns = vr
=============================================================================
