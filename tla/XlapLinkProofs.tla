--------------------------- MODULE XlapLinkProofs ---------------------------
(***************************************************************************)
(* The window and acknowledgement invariants of the xlap links, proved for *)
(* every modulus, window, timeout and number of connections, after what is *)
(* needed of the arithmetic of their sequence numbers.  LinkInv is         *)
(* the inductive invariant of one link.  A lemma per operator of XlapLink  *)
(* shows that the operator keeps it; most operators change none of the     *)
(* fields it speaks of (Calm).  The actions then only have to be told      *)
(* which operators they apply.                                             *)
(*                                                                         *)
(* The second part is about the two ends of a connection and the frames    *)
(* between them.                                                           *)
(***************************************************************************)
EXTENDS XlapLink, SequenceTheorems, FiniteSetTheorems, WellFoundedInduction, TLAPS

-----------------------------------------------------------------------------
(* The sequence numbers *)

\* Dist without the modulo: at most one turn is ever taken back.
LEMMA DistCases ==
    ASSUME NEW a \in SeqNo, NEW b \in SeqNo
    PROVE  /\ Dist(a, b) = IF a <= b THEN b - a ELSE b - a + N
           /\ Dist(a, b) \in SeqNo
BY NAssumption DEF Dist, SeqNo

\* Advance without the modulo, for less than one turn.
LEMMA AdvanceCases ==
    ASSUME NEW a \in SeqNo, NEW d \in 0..N
    PROVE  /\ Advance(a, d) = IF a + d < N THEN a + d ELSE a + d - N
           /\ Advance(a, d) \in SeqNo
BY NAssumption DEF Advance, SeqNo

\* Sequence numbers and their distances are numbers below N.
LEMMA SeqNoRange ==
    ASSUME NEW a \in SeqNo
    PROVE  a \in Nat /\ a < N /\ a \in 0..N
BY NAssumption DEF SeqNo

\* A number is at distance 0 from itself.
LEMMA DistSelf ==
    ASSUME NEW a \in SeqNo
    PROVE  Dist(a, a) = 0
BY DistCases, SeqNoRange

\* Advance and Dist undo each other.
LEMMA DistOfAdvance ==
    ASSUME NEW a \in SeqNo, NEW d \in SeqNo
    PROVE  Dist(a, Advance(a, d)) = d
<1>1. d \in 0..N
  BY NAssumption DEF SeqNo
<1>2. PICK b \in SeqNo : b = Advance(a, d)
  BY <1>1, AdvanceCases
<1>3. b = IF a + d < N THEN a + d ELSE a + d - N
  BY <1>1, <1>2, AdvanceCases
<1>4. Dist(a, b) = IF a <= b THEN b - a ELSE b - a + N
  BY DistCases
<1>5. Dist(a, b) = d
  BY <1>3, <1>4, NAssumption DEF SeqNo
<1>6. QED
  BY <1>2, <1>5

\* Advancing by the distance to a number reaches it.
LEMMA AdvanceOfDist ==
    ASSUME NEW a \in SeqNo, NEW b \in SeqNo
    PROVE  Advance(a, Dist(a, b)) = b
<1>1. PICK d \in SeqNo : d = Dist(a, b)
  BY DistCases
<1>2. d \in 0..N
  BY NAssumption DEF SeqNo
<1>3. d = IF a <= b THEN b - a ELSE b - a + N
  BY <1>1, DistCases
<1>4. Advance(a, d) = IF a + d < N THEN a + d ELSE a + d - N
  BY <1>2, AdvanceCases
<1>5. Advance(a, d) = b
  BY <1>3, <1>4, NAssumption DEF SeqNo
<1>6. QED
  BY <1>1, <1>5

\* Two advances make one.
LEMMA AdvanceTwice ==
    ASSUME NEW a \in SeqNo, NEW d \in 0..N, NEW e \in 0..N, d + e <= N
    PROVE  Advance(Advance(a, d), e) = Advance(a, d + e)
<1>1. d + e \in 0..N
  BY NAssumption
<1>2. PICK b \in SeqNo : b = Advance(a, d)
  BY AdvanceCases
<1>3. b = IF a + d < N THEN a + d ELSE a + d - N
  BY <1>2, AdvanceCases
<1>4. Advance(b, e) = IF b + e < N THEN b + e ELSE b + e - N
  BY AdvanceCases
<1>5. Advance(a, d + e) = IF a + (d + e) < N THEN a + (d + e) ELSE a + (d + e) - N
  BY <1>1, AdvanceCases
<1>6. Advance(b, e) = Advance(a, d + e)
  BY <1>3, <1>4, <1>5, NAssumption DEF SeqNo
<1>7. QED
  BY <1>2, <1>6

\* A number between a and b splits the distance.
LEMMA DistSplit ==
    ASSUME NEW a \in SeqNo, NEW b \in SeqNo, NEW c \in SeqNo,
           Dist(a, c) <= Dist(a, b)
    PROVE  Dist(a, b) = Dist(a, c) + Dist(c, b)
<1>1. Dist(a, b) = IF a <= b THEN b - a ELSE b - a + N
  BY DistCases
<1>2. Dist(a, c) = IF a <= c THEN c - a ELSE c - a + N
  BY DistCases
<1>3. Dist(c, b) = IF c <= b THEN b - c ELSE b - c + N
  BY DistCases
<1>4. QED
  BY <1>1, <1>2, <1>3, NAssumption DEF SeqNo

-----------------------------------------------------------------------------
(* Counts without end, of which a sequence number is what is left modulo N *)

\* The sequence number of the n-th message of a connection, counted from 0.
SeqOf(n) == n % N

\* A count is a number of turns and a sequence number.
LEMMA CountTurns ==
    ASSUME NEW n \in Nat
    PROVE  /\ SeqOf(n) \in SeqNo
           /\ \E q \in Nat : n = N * q + SeqOf(n)
<1>1. n = N * (n \div N) + SeqOf(n)
  BY NAssumption, SMTT(30) DEF SeqOf
<1>2. n \div N \in Nat
  BY NAssumption, SMTT(30)
<1>3. SeqOf(n) \in SeqNo
  BY NAssumption DEF SeqNo, SeqOf
<1>4. QED
  BY <1>1, <1>2, <1>3

\* Whole turns do not show.
LEMMA TurnsVanish ==
    ASSUME NEW q \in Nat, NEW r \in SeqNo
    PROVE  SeqOf(N * q + r) = r
BY NAssumption, SMTT(30) DEF SeqNo, SeqOf

\* Counting on by d and advancing the sequence number by d agree.
LEMMA CountAdvance ==
    ASSUME NEW n \in Nat, NEW d \in 0..N
    PROVE  SeqOf(n + d) = Advance(SeqOf(n), d)
<1>1. PICK r \in SeqNo : r = SeqOf(n)
  BY CountTurns
<1>2. PICK q \in Nat : n = N * q + r
  BY <1>1, CountTurns
<1>3. Advance(r, d) = IF r + d < N THEN r + d ELSE r + d - N
  BY AdvanceCases
<1>4. CASE r + d < N
  <2>1. r + d \in SeqNo
    BY <1>4, NAssumption DEF SeqNo
  <2>2. n + d = N * q + (r + d)
    BY <1>2, NAssumption DEF SeqNo
  <2>3. QED
    BY <1>1, <1>3, <1>4, <2>1, <2>2, TurnsVanish
<1>5. CASE ~(r + d < N)
  <2>1. r + d - N \in SeqNo /\ q + 1 \in Nat
    BY <1>5, NAssumption DEF SeqNo
  <2>2. N * (q + 1) = N * q + N /\ N * q \in Int
    BY NAssumption
  <2>3. n + d = N * (q + 1) + (r + d - N)
    <3> DEFINE t == N * q
    <3>1. t \in Int /\ n = t + r /\ N * (q + 1) = t + N /\ r \in Int /\ N \in Int
      BY <1>2, <2>2, SeqNoRange, NAssumption
    <3> HIDE DEF t
    <3>2. n + d = (t + N) + (r + d - N)
      BY <3>1
    <3>3. QED
      BY <3>1, <3>2
  <2>4. QED
    BY <1>1, <1>3, <1>5, <2>1, <2>3, TurnsVanish
<1>6. QED
  BY <1>4, <1>5

\* The same for the number after n.
LEMMA CountNext ==
    ASSUME NEW n \in Nat
    PROVE  SeqOf(n + 1) = NextNo(SeqOf(n))
<1>1. 1 \in 0..N
  BY NAssumption
<1>2. SeqOf(n + 1) = Advance(SeqOf(n), 1)
  BY <1>1, CountAdvance
<1>3. QED
  BY <1>2 DEF Advance, NextNo

\* Less than a turn apart, the distance of two sequence numbers is the
\* difference of the counts.
LEMMA CountDist ==
    ASSUME NEW n \in Nat, NEW m \in Nat, n <= m, m - n < N
    PROVE  Dist(SeqOf(n), SeqOf(m)) = m - n
<1>1. PICK d \in SeqNo : d = m - n
  BY NAssumption DEF SeqNo
<1>2. PICK r \in SeqNo : r = SeqOf(n)
  BY CountTurns
<1>3. d \in 0..N /\ n + d = m
  BY <1>1, SeqNoRange
<1>4. SeqOf(m) = Advance(r, d)
  BY <1>2, <1>3, CountAdvance
<1>5. QED
  BY <1>1, <1>2, <1>4, DistOfAdvance

-----------------------------------------------------------------------------
(* The two variants of OKNR *)

\* The distance test of OKNR accepts exactly the numbers that the walk from
\* va to vs of the #else variant meets, whatever the modulus.
THEOREM OKNRWalks ==
    ASSUME NEW va \in SeqNo, NEW vs \in SeqNo, NEW nr \in SeqNo
    PROVE  OKNR(va, vs, nr) <=> OKNRLoop(va, vs, nr)
<1>1. Dist(va, vs) \in SeqNo /\ Dist(va, nr) \in SeqNo
  BY DistCases
<1>2. ASSUME OKNR(va, vs, nr)
      PROVE  OKNRLoop(va, vs, nr)
  <2>1. Dist(va, nr) \in 0..Dist(va, vs)
    BY <1>1, <1>2, NAssumption DEF OKNR, SeqNo
  <2>2. nr = Advance(va, Dist(va, nr))
    BY AdvanceOfDist
  <2>3. QED
    BY <2>1, <2>2 DEF OKNRLoop
<1>3. ASSUME OKNRLoop(va, vs, nr)
      PROVE  OKNR(va, vs, nr)
  <2>1. PICK i \in 0..Dist(va, vs) : nr = Advance(va, i)
    BY <1>3 DEF OKNRLoop
  <2>2. i \in SeqNo
    BY <1>1, <2>1, NAssumption DEF SeqNo
  <2>3. Dist(va, nr) = i
    BY <2>1, <2>2, DistOfAdvance
  <2>4. QED
    BY <1>1, <2>1, <2>3, NAssumption DEF OKNR, SeqNo
<1>4. QED
  BY <1>2, <1>3

-----------------------------------------------------------------------------
(* The links *)

\* A link is well typed, its send window and its debt of acknowledgements
\* are sound, and only a link with a socket is connected.
LinkInv(l) ==
    /\ l \in LinkType
    /\ WindowOf(l)
    /\ AckDebtOf(l)
    /\ l.conn => l.fd

\* r differs from l in nothing LinkInv speaks of but types, and neither its
\* queues nor what they recorded differ.
Calm(l, r) ==
    /\ r \in LinkType
    /\ r.va = l.va /\ r.vs = l.vs /\ r.ackqueue = l.ackqueue
    /\ r.vr = l.vr /\ r.vapeer = l.vapeer /\ r.iFrmRcvAt = l.iFrmRcvAt
    /\ r.conn = l.conn /\ r.fd = l.fd
    /\ r.outqueue = l.outqueue /\ r.sent = l.sent /\ r.rcvd = l.rcvd

\* A calm step of a link keeps LinkInv.
LEMMA CalmKeepsInv ==
    ASSUME NEW l, NEW r, LinkInv(l), Calm(l, r)
    PROVE  LinkInv(r)
BY DEF LinkInv, Calm, WindowOf, AckDebtOf

\* Two calm steps in a row are calm.
LEMMA CalmTwice ==
    ASSUME NEW l, NEW r, NEW s, Calm(l, r), Calm(r, s)
    PROVE  Calm(l, s)
BY DEF Calm

\* Doing nothing is calm.
LEMMA CalmSelf ==
    ASSUME NEW l \in LinkType
    PROVE  Calm(l, l)
BY DEF Calm

-----------------------------------------------------------------------------
(* Frames and new links *)

LEMMA UFrameType == ASSUME NEW t \in UType PROVE UFrame(t) \in Frame
BY NAssumption, BoundAssumption DEF UFrame, Frame, SeqNo, Msg, NoMsg

\* LapSendFrameS: the S frame built is a frame.
LEMMA SFrameType == ASSUME NEW nr \in SeqNo PROVE SFrame(nr) \in Frame
BY NAssumption, BoundAssumption DEF SFrame, Frame, SeqNo, Msg, NoMsg

\* LapSendFrameI: the I frame built is a frame.
LEMMA IFrameType ==
    ASSUME NEW ns \in SeqNo, NEW nr \in SeqNo, NEW m \in Msg
    PROVE  IFrame(ns, nr, m) \in Frame
BY DEF IFrame, Frame

\* The elements of a queue of messages are messages.
LEMMA ElemsType ==
    ASSUME NEW q \in Seq(Msg)
    PROVE  Elems(q) \subseteq Msg
BY DEF Elems

\* The messages of an ack queue are messages.
LEMMA AckMsgsType ==
    ASSUME NEW q \in Seq(Unacked)
    PROVE  AckMsgs(q) \subseteq Msg
<1>1. ASSUME NEW i \in 1..Len(q)
      PROVE  q[i].msg \in Msg
  <2>1. q[i] \in Unacked
    OBVIOUS
  <2>2. QED
    BY <2>1 DEF Unacked
<1>2. QED
  BY <1>1 DEF AckMsgs

\* A link that was just reset satisfies the invariant.
LEMMA NewLinkInv == LinkInv(NewLink)
<1>1. /\ 0 \in SeqNo
      /\ Off \in Timer(CnxDelay) /\ Off \in Timer(T1)
      /\ Off \in Timer(T2) /\ Off \in Timer(T3)
  BY NAssumption, TimerAssumption DEF SeqNo, Timer, Off, CnxDelay
<1>2. NewLink \in LinkType
  BY <1>1 DEF NewLink, LinkType, SSP
<1>3. Dist(0, 0) = 0
  BY <1>1, DistCases
<1>4. QED
  BY <1>2, <1>3, WindowAssumption, NAssumption
  DEF LinkInv, NewLink, WindowOf, AckDebtOf

-----------------------------------------------------------------------------
(* U frames and the start/stop procedure *)

LEMMA WriteCalm ==
    ASSUME NEW l \in LinkType, NEW f \in Frame
    PROVE  Calm(l, Write(l, f))
<1>1. Append(l.tx, f) \in Seq(Frame)
  BY DEF LinkType
<1>2. QED
  BY <1>1 DEF Write, Calm, LinkType

\* LapSendFrameU touches neither window nor acknowledgements.
LEMMA SendUCalm ==
    ASSUME NEW l \in LinkType, NEW t \in UType
    PROVE  Calm(l, LapSendFrameU(l, t))
<1> DEFINE b == l.tFrmSndAt \/ t = "TESTFRact"
           u == CASE t \in {"TESTFRcon", "STOPDTcon", "STARTDTcon"} -> Off
                  [] OTHER -> IF l.uFrmSndAt = Off THEN 0 ELSE l.uFrmSndAt
           r == [l EXCEPT !.tFrmSndAt = b, !.uFrmSndAt = u]
<1>1. b \in BOOLEAN
  OBVIOUS
<1>2. u \in Timer(T1)
  <2>1. l.uFrmSndAt \in Timer(T1)
    BY DEF LinkType
  <2>2. Off \in Timer(T1) /\ 0 \in Timer(T1)
    BY TimerAssumption DEF Timer, Off
  <2>3. QED
    BY <2>1, <2>2
<1>3. LapSendFrameU(l, t) = IF ~l.conn THEN l ELSE Write(r, UFrame(t))
  BY DEF LapSendFrameU
<1> HIDE DEF b, u
<1>4. Calm(l, r)
  BY <1>1, <1>2 DEF Calm, LinkType
<1>5. Calm(r, Write(r, UFrame(t)))
  BY <1>4, UFrameType, WriteCalm DEF Calm
<1>6. QED
  BY <1>3, <1>4, <1>5, CalmTwice, CalmSelf

\* LapSetState changes nothing but the SSP state.
LEMMA SetStateCalm ==
    ASSUME NEW l \in LinkType, NEW s \in SSP
    PROVE  Calm(l, LapSetState(l, s))
BY DEF LapSetState, Calm, LinkType

\* An U frame and a new state.
LEMMA SendUSetStateCalm ==
    ASSUME NEW l \in LinkType, NEW t \in UType, NEW s \in SSP
    PROVE  Calm(l, LapSetState(LapSendFrameU(l, t), s))
<1>1. Calm(l, LapSendFrameU(l, t))
  BY SendUCalm
<1>2. LapSendFrameU(l, t) \in LinkType
  BY <1>1 DEF Calm
<1>3. QED
  BY <1>1, <1>2, SetStateCalm, CalmTwice

\* Confirming STOPDTact is calm.
LEMMA ConfirmStopCalm ==
    ASSUME NEW l \in LinkType
    PROVE  Calm(l, ConfirmStop(l))
BY SendUSetStateCalm DEF ConfirmStop, UType, SSP

\* EventMasterSlave on EVT_TCP_CREATED and EVT_TCP_CONNECTED is calm.
LEMMA EventConnectedCalm ==
    ASSUME NEW i, NEW l \in LinkType
    PROVE  Calm(l, EventConnected(i, l))
BY SendUSetStateCalm, SetStateCalm, CalmSelf DEF EventConnected, UType, SSP

\* EventMasterSlave on an indication is calm.
LEMMA EventIndicationCalm ==
    ASSUME NEW l \in LinkType, NEW evt
    PROVE  Calm(l, EventIndication(l, evt))
<1>1. Calm(l, [l EXCEPT !.tFrmSndAt = FALSE])
  BY DEF Calm, LinkType
<1>2. Calm(l, StopIfAcked(l))
  BY ConfirmStopCalm, CalmSelf DEF StopIfAcked
<1>3. /\ Calm(l, LapSendFrameU(l, "TESTFRcon"))
      /\ Calm(l, LapSendFrameU(l, "STARTDTcon"))
      /\ Calm(l, LapSetState(LapSendFrameU(l, "STARTDTcon"), "STARTED"))
      /\ Calm(l, LapSetState(l, "STARTED"))
      /\ Calm(l, LapSetState(l, "STOPPED"))
      /\ Calm(l, LapSetState(l, "PENDING_UNCONFD"))
  BY SendUCalm, SendUSetStateCalm, SetStateCalm DEF UType, SSP
<1>4. QED
  BY <1>1, <1>2, <1>3, ConfirmStopCalm, CalmSelf DEF EventIndication

\* EventMasterSlave on a request is calm.
LEMMA EventRequestCalm ==
    ASSUME NEW l \in LinkType, NEW evt
    PROVE  Calm(l, EventRequest(l, evt))
<1>1. /\ Calm(l, LapSendFrameU(l, "TESTFRact"))
      /\ Calm(l, LapSetState(LapSendFrameU(l, "STARTDTact"), "PENDING_STARTED"))
      /\ Calm(l, LapSetState(LapSendFrameU(l, "STOPDTact"), "PENDING_STOPPED"))
  BY SendUCalm, SendUSetStateCalm DEF UType, SSP
<1>2. QED
  BY <1>1, CalmSelf DEF EventRequest

-----------------------------------------------------------------------------
(* Receiving: S frames, acknowledgements, I frames *)

\* An S frame settles the debt of acknowledgements, whatever it was.
LEMMA SendSInv ==
    ASSUME NEW l \in LinkType, WindowOf(l), l.conn => l.fd,
           AckDebtOf(l) \/ l.conn
    PROVE  /\ LinkInv(LapSendFrameS(l))
           /\ LapSendFrameS(l).conn = l.conn
<1>1. CASE ~l.conn
  BY <1>1 DEF LapSendFrameS, LinkInv
<1>2. CASE l.conn
  <2> DEFINE r == [l EXCEPT !.vapeer = l.vr]
  <2>1. l.vr \in SeqNo
    BY DEF LinkType
  <2>2. r \in LinkType
    BY <2>1 DEF LinkType
  <2>3. Dist(l.vr, l.vr) = 0
    BY <2>1, DistSelf
  <2>4. LinkInv(r) /\ r.conn = l.conn
    <3>1. r.vapeer = r.vr /\ r.vr = l.vr /\ r.conn = l.conn /\ r.fd = l.fd
      BY DEF LinkType
    <3>2. WindowOf(r)
      BY DEF WindowOf, LinkType
    <3>3. AckDebtOf(r)
      BY <2>3, <3>1, WindowAssumption, NAssumption DEF AckDebtOf
    <3>4. QED
      BY <2>2, <3>1, <3>2, <3>3 DEF LinkInv
  <2>5. LapSendFrameS(l) = Write(r, SFrame(l.vr))
    BY <1>2 DEF LapSendFrameS
  <2>6. Calm(r, Write(r, SFrame(l.vr)))
    BY <2>1, <2>2, SFrameType, WriteCalm
  <2>7. QED
    BY <2>4, <2>5, <2>6, CalmKeepsInv DEF Calm
<1>3. QED
  BY <1>1, <1>2 DEF LinkType

\* IncomingFrame: refusing a frame keeps LinkInv.
LEMMA SeqErrorInv ==
    ASSUME NEW l, LinkInv(l)
    PROVE  LinkInv(SeqError(l))
<1> DEFINE r == [l EXCEPT !.nberr = TRUE]
<1>1. Calm(l, r)
  BY DEF LinkInv, Calm, LinkType
<1>2. LinkInv(r)
  BY <1>1, CalmKeepsInv
<1>3. QED
  BY <1>2, SendSInv DEF SeqError, LinkInv

\* An acceptable nr removes from the ack queue exactly the messages before
\* nr: the queue left holds nr..vs-1.  This is where OKNR is needed.
LEMMA AckQueueCut ==
    ASSUME NEW l, LinkInv(l), NEW nr \in SeqNo, OKNR(l.va, l.vs, nr)
    PROVE  LET d == Dist(l.va, nr)
           IN  /\ d \in 0..Len(l.ackqueue)
               /\ LapRunAckQueue(l, nr) =
                    [l EXCEPT !.ackqueue = SubSeq(@, d+1, Len(@)),
                              !.acked    = @ \cup AckMsgs(SubSeq(l.ackqueue, 1, d))]
<1> DEFINE q    == l.ackqueue
           d    == Dist(l.va, nr)
           stop == {i \in 1..Len(q) : q[i].ns = nr}
           n    == IF stop = {} THEN Len(q)
                   ELSE (CHOOSE i \in stop : \A j \in stop : i <= j) - 1
<1>1. /\ l.va \in SeqNo /\ l.vs \in SeqNo
      /\ q \in Seq(Unacked) /\ Len(q) \in Nat
      /\ Len(q) = Dist(l.va, l.vs) /\ Len(q) <= K
      /\ \A j \in 1..Len(q) : q[j].ns = Advance(l.va, j-1)
  BY DEF LinkInv, WindowOf, LinkType
<1>2. d \in SeqNo /\ d <= Len(q)
  BY <1>1, DistCases DEF OKNR
<1>3. d \in 0..Len(q)
  BY <1>1, <1>2 DEF SeqNo
<1>4. ASSUME NEW j \in 1..Len(q)
      PROVE  q[j].ns = nr <=> j = d + 1
  <2>1. j - 1 \in SeqNo
    BY <1>1, WindowAssumption, NAssumption DEF SeqNo
  <2>2. q[j].ns = Advance(l.va, j - 1)
    BY <1>1
  <2>3. Dist(l.va, Advance(l.va, j - 1)) = j - 1
    BY <1>1, <2>1, DistOfAdvance
  <2>4. Advance(l.va, d) = nr
    BY <1>1, AdvanceOfDist
  <2>5. QED
    BY <1>2, <2>1, <2>2, <2>3, <2>4 DEF SeqNo
<1>5. n = d
  <2>1. CASE d = Len(q)
    <3>1. stop = {}
      BY <1>1, <1>4, <2>1
    <3>2. QED
      BY <2>1, <3>1
  <2>2. CASE d # Len(q)
    <3>1. stop = {d + 1}
      BY <1>1, <1>3, <1>4, <2>2
    <3>2. (CHOOSE i \in stop : \A j \in stop : i <= j) = d + 1
      BY <1>1, <1>3, <3>1
    <3>3. QED
      BY <1>3, <3>1, <3>2
  <2>3. QED
    BY <2>1, <2>2
<1>6. LapRunAckQueue(l, nr) =
        [l EXCEPT !.ackqueue = SubSeq(@, n+1, Len(@)),
                  !.acked    = @ \cup AckMsgs(SubSeq(l.ackqueue, 1, n))]
  BY DEF LapRunAckQueue
<1>7. QED
  BY <1>3, <1>5, <1>6

\* What is left of a sequence without its first d elements.
LEMMA SuffixOf ==
    ASSUME NEW S, NEW q \in Seq(S), NEW d \in 0..Len(q)
    PROVE  /\ SubSeq(q, d+1, Len(q)) \in Seq(S)
           /\ Len(SubSeq(q, d+1, Len(q))) = Len(q) - d
           /\ \A j \in 1..(Len(q) - d) : SubSeq(q, d+1, Len(q))[j] = q[d + j]
OBVIOUS

\* An element of the second of two sequences that are joined.
LEMMA JoinedSecond ==
    ASSUME NEW S, NEW q \in Seq(S), NEW r \in Seq(S), NEW j \in 1..Len(q \o r), j > Len(q)
    PROVE  (q \o r)[j] = r[j - Len(q)]
OBVIOUS

\* Acknowledging keeps the invariant, the connection and vr.
LEMMA AcknowledgeInv ==
    ASSUME NEW l, LinkInv(l), NEW nr \in SeqNo, OKNR(l.va, l.vs, nr)
    PROVE  /\ LinkInv(Acknowledge(l, nr))
           /\ Acknowledge(l, nr).conn = l.conn
<1> DEFINE d == Dist(l.va, nr)
           q == SubSeq(l.ackqueue, d+1, Len(l.ackqueue))
           a == l.acked \cup AckMsgs(SubSeq(l.ackqueue, 1, d))
           r == [l EXCEPT !.ackqueue = q, !.acked = a, !.va = nr]
<1>1. /\ d \in 0..Len(l.ackqueue)
      /\ Acknowledge(l, nr) = r
  BY AckQueueCut DEF Acknowledge
<1>2. /\ l \in LinkType
      /\ l.va \in SeqNo /\ l.vs \in SeqNo
      /\ l.ackqueue \in Seq(Unacked) /\ Len(l.ackqueue) \in Nat
      /\ l.acked \in SUBSET Msg
      /\ Len(l.ackqueue) = Dist(l.va, l.vs) /\ Len(l.ackqueue) <= K
      /\ \A j \in 1..Len(l.ackqueue) : l.ackqueue[j].ns = Advance(l.va, j-1)
  BY DEF LinkInv, WindowOf, LinkType
<1>3. /\ q \in Seq(Unacked)
      /\ Len(q) = Len(l.ackqueue) - d
      /\ \A j \in 1..Len(q) : q[j] = l.ackqueue[d + j]
  <2> HIDE DEF d
  <2>1. QED
    BY <1>1, <1>2, SuffixOf
<1>4. a \in SUBSET Msg
  <2>1. SubSeq(l.ackqueue, 1, d) \in Seq(Unacked)
    BY <1>1, <1>2
  <2>2. AckMsgs(SubSeq(l.ackqueue, 1, d)) \subseteq Msg
    BY <2>1, AckMsgsType
  <2>3. QED
    BY <1>2, <2>2
<1>5. d \in SeqNo /\ d \in 0..N /\ nr = Advance(l.va, d)
  BY <1>2, DistCases, SeqNoRange, AdvanceOfDist
<1>6. Dist(l.va, l.vs) = d + Dist(nr, l.vs)
  BY <1>2, DistSplit DEF OKNR
<1> HIDE DEF q, a
<1>7. /\ r \in LinkType
      /\ r.ackqueue = q /\ r.va = nr /\ r.vs = l.vs
      /\ r.vr = l.vr /\ r.vapeer = l.vapeer /\ r.iFrmRcvAt = l.iFrmRcvAt
      /\ r.conn = l.conn /\ r.fd = l.fd
  BY <1>2, <1>3, <1>4 DEF LinkType
<1>8. WindowOf(r)
  <2>1. Len(q) = Dist(nr, l.vs) /\ Len(q) <= K
    <3>1. Dist(nr, l.vs) \in Nat
      BY <1>2, DistCases, SeqNoRange
    <3>2. QED
      BY <1>1, <1>2, <1>3, <1>6, <3>1, WindowAssumption, NAssumption
  <2>2. ASSUME NEW j \in 1..Len(q)
        PROVE  q[j].ns = Advance(nr, j - 1)
    <3>1. d + j \in 1..Len(l.ackqueue) /\ j \in Int
      BY <1>1, <1>2, <1>3
    <3>2. q[j].ns = Advance(l.va, (d + j) - 1)
      BY <1>2, <1>3, <3>1
    <3>3. j - 1 \in 0..N /\ d + (j - 1) <= N
      BY <1>1, <1>2, <1>3, <3>1, WindowAssumption, NAssumption, SMTT(30)
    <3>4. Advance(Advance(l.va, d), j - 1) = Advance(l.va, d + (j - 1))
      BY <1>2, <1>5, <3>3, AdvanceTwice
    <3>5. (d + j) - 1 = d + (j - 1)
      BY <1>1, <3>1
    <3>6. QED
      BY <1>5, <3>2, <3>4, <3>5
  <2>3. QED
    BY <1>7, <2>1, <2>2 DEF WindowOf
<1>9. AckDebtOf(r)
  BY <1>7 DEF LinkInv, AckDebtOf
<1>10. QED
  BY <1>1, <1>7, <1>8, <1>9 DEF LinkInv

\* The number after x, without the modulo.
LEMMA NextNoCases ==
    ASSUME NEW x \in SeqNo
    PROVE  /\ NextNo(x) = IF x + 1 < N THEN x + 1 ELSE x + 1 - N
           /\ NextNo(x) \in SeqNo
BY NAssumption DEF NextNo, SeqNo

\* An accepted I frame adds one to the debt, which an S frame settles as soon
\* as it reaches W.
LEMMA AcceptFrameIInv ==
    ASSUME NEW l, LinkInv(l), l.conn, NEW f \in Frame, f.type = "I"
    PROVE  LinkInv(AcceptFrameI(l, f))
<1> DEFINE v == NextNo(l.vr)
           t == IF l.iFrmRcvAt = Off THEN 0 ELSE l.iFrmRcvAt
           d == Append(l.rcvd, f.msg)
           e == l.seen \cup {f.msg}
           r == [l EXCEPT !.vr = v, !.iFrmRcvAt = t, !.rcvd = d, !.seen = e]
           s == IF AckDue(r) THEN LapSendFrameS(r) ELSE r
<1>1. /\ l \in LinkType /\ l.fd
      /\ l.vr \in SeqNo /\ l.vapeer \in SeqNo /\ l.iFrmRcvAt \in Timer(T2)
      /\ l.rcvd \in Seq(Msg) /\ l.seen \in SUBSET Msg
  BY DEF LinkInv, LinkType
<1>2. f.msg \in Msg
  BY DEF Frame, UType
<1>3. v \in SeqNo
  BY <1>1, NextNoCases
<1>4. t \in Timer(T2) /\ t # Off
  BY <1>1, TimerAssumption DEF Timer, Off
<1>5. d \in Seq(Msg) /\ e \in SUBSET Msg
  BY <1>1, <1>2
<1>6. Dist(l.vapeer, v) <= Dist(l.vapeer, l.vr) + 1
  <2>1. v = IF l.vr + 1 < N THEN l.vr + 1 ELSE l.vr + 1 - N
    BY <1>1, NextNoCases
  <2>2. Dist(l.vapeer, v) = IF l.vapeer <= v THEN v - l.vapeer ELSE v - l.vapeer + N
    BY <1>1, <1>3, DistCases
  <2>3. Dist(l.vapeer, l.vr) = IF l.vapeer <= l.vr THEN l.vr - l.vapeer
                               ELSE l.vr - l.vapeer + N
    BY <1>1, DistCases
  <2>4. l.vapeer \in 0..(N-1) /\ l.vr \in 0..(N-1)
    BY <1>1 DEF SeqNo
  <2> HIDE DEF v
  <2>5. QED
    BY <2>1, <2>2, <2>3, <2>4, NAssumption
<1>7. AcceptFrameI(l, f) = EventIndication(s, "FRAMEI")
  BY DEF AcceptFrameI
<1> HIDE DEF v, t, d, e
<1>8. /\ r \in LinkType
      /\ r.vr = v /\ r.iFrmRcvAt = t /\ r.vapeer = l.vapeer
      /\ r.va = l.va /\ r.vs = l.vs /\ r.ackqueue = l.ackqueue
      /\ r.conn = l.conn /\ r.fd = l.fd
  BY <1>1, <1>3, <1>4, <1>5 DEF LinkType
<1>9. WindowOf(r)
  BY <1>8 DEF LinkInv, WindowOf
<1> HIDE DEF r
<1>10. LinkInv(s)
  <2>1. CASE AckDue(r)
    BY <1>1, <1>8, <1>9, <2>1, SendSInv
  <2>2. CASE ~AckDue(r)
    <3>1. Dist(l.vapeer, v) \in Nat /\ Dist(l.vapeer, l.vr) \in Nat
      BY <1>1, <1>3, DistCases, SeqNoRange
    <3>2. Dist(l.vapeer, l.vr) < W
      BY DEF LinkInv, AckDebtOf
    <3>3. Dist(l.vapeer, v) # W
      BY <1>8, <2>2 DEF AckDue
    <3>4. Dist(l.vapeer, v) < W
      BY <1>6, <3>1, <3>2, <3>3, WindowAssumption, NAssumption
    <3>5. QED
      BY <1>1, <1>4, <1>8, <1>9, <2>2, <3>4 DEF LinkInv, AckDebtOf
  <2>3. QED
    BY <2>1, <2>2
<1> HIDE DEF s
<1>11. Calm(s, EventIndication(s, "FRAMEI"))
  BY <1>10, EventIndicationCalm DEF LinkInv
<1>12. QED
  BY <1>7, <1>10, <1>11, CalmKeepsInv

\* EventMasterSlave on an indication keeps LinkInv.
LEMMA IndicationInv ==
    ASSUME NEW l, LinkInv(l), NEW evt
    PROVE  LinkInv(EventIndication(l, evt))
BY EventIndicationCalm, CalmKeepsInv DEF LinkInv

\* Whatever frame is received, of the right type or not.
LEMMA IncomingFrameInv ==
    ASSUME NEW l0, LinkInv(l0), l0.conn, NEW f \in Frame
    PROVE  LinkInv(IncomingFrame(l0, f))
<1> DEFINE l == [l0 EXCEPT !.xFrmRcvAt = 0]
           u == [l EXCEPT !.uFrmSndAt = Off]
<1>1. /\ 0 \in Timer(T3) /\ Off \in Timer(T1)
      /\ l0 \in LinkType
  BY TimerAssumption DEF Timer, Off, LinkInv
<1>2. Calm(l0, l) /\ Calm(l, u)
  BY <1>1 DEF Calm, LinkType
<1>3. LinkInv(l) /\ LinkInv(u) /\ l.conn
  <2>1. LinkInv(l)
    BY <1>2, CalmKeepsInv
  <2>2. QED
    BY <1>2, <2>1, CalmKeepsInv DEF Calm
<1>4. f.nr \in SeqNo /\ f.type \in UType \cup {"S", "I"}
  BY DEF Frame
<1>5. IncomingFrame(l0, f) =
        CASE f.type \in {"TESTFRcon", "STOPDTcon", "STARTDTcon"} ->
                EventIndication(u, f.type)
          [] f.type \in {"TESTFRact", "STOPDTact", "STARTDTact"} ->
                EventIndication(l, f.type)
          [] f.type = "S" ->
                IF OKNR(l.va, l.vs, f.nr)
                THEN EventIndication(Acknowledge(l, f.nr), "FRAMES")
                ELSE SeqError(l)
          [] f.type = "I" ->
                IF ~OKNR(l.va, l.vs, f.nr) THEN SeqError(l)
                ELSE IF ~OKNS(l.vr, f.ns) THEN SeqError(Acknowledge(l, f.nr))
                ELSE AcceptFrameI(Acknowledge(l, f.nr), f)
  BY DEF IncomingFrame
<1> HIDE DEF l, u
<1>6. LinkInv(EventIndication(u, f.type)) /\ LinkInv(EventIndication(l, f.type))
  BY <1>3, IndicationInv
<1>7. LinkInv(SeqError(l))
  BY <1>3, SeqErrorInv
<1>8. ASSUME OKNR(l.va, l.vs, f.nr)
      PROVE  /\ LinkInv(EventIndication(Acknowledge(l, f.nr), "FRAMES"))
             /\ LinkInv(SeqError(Acknowledge(l, f.nr)))
             /\ f.type = "I" => LinkInv(AcceptFrameI(Acknowledge(l, f.nr), f))
  <2>1. LinkInv(Acknowledge(l, f.nr)) /\ Acknowledge(l, f.nr).conn
    BY <1>3, <1>4, <1>8, AcknowledgeInv
  <2>2. QED
    BY <2>1, IndicationInv, SeqErrorInv, AcceptFrameIInv
<1>9. QED
  BY <1>4, <1>5, <1>6, <1>7, <1>8 DEF UType

-----------------------------------------------------------------------------
(* Sending the out queue *)

\* Room is what the window leaves.
LEMMA SendRoomFits ==
    ASSUME NEW l, LinkInv(l)
    PROVE  /\ SendRoom(l) \in 0..Len(l.outqueue)
           /\ Len(l.ackqueue) + SendRoom(l) <= K
<1> DEFINE b == Advance(l.va, K)
<1>1. /\ l.va \in SeqNo /\ l.vs \in SeqNo /\ K \in SeqNo /\ K \in 0..N
      /\ Len(l.outqueue) \in Nat /\ Len(l.ackqueue) \in Nat
      /\ Len(l.ackqueue) = Dist(l.va, l.vs) /\ Len(l.ackqueue) <= K
  BY WindowAssumption, NAssumption DEF LinkInv, LinkType, WindowOf, SeqNo
<1>2. b \in SeqNo /\ Dist(l.va, b) = K
  BY <1>1, AdvanceCases, DistOfAdvance
<1>3. Dist(l.va, b) = Dist(l.va, l.vs) + Dist(l.vs, b)
  BY <1>1, <1>2, DistSplit
<1>4. Dist(l.vs, b) \in Nat
  BY <1>1, <1>2, DistCases, SeqNoRange
<1>5. SendRoom(l) = IF Len(l.outqueue) < Dist(l.vs, b) THEN Len(l.outqueue)
                    ELSE Dist(l.vs, b)
  BY DEF SendRoom
<1>6. QED
  <2>1. K \in Nat
    BY <1>1, SeqNoRange
  <2> HIDE DEF b
  <2>2. QED
    BY <1>1, <1>2, <1>3, <1>4, <1>5, <2>1

\* What SendFirst appends to the ack queue.
LEMMA SentMessages ==
    ASSUME NEW l, LinkInv(l), NEW n \in 0..Len(l.outqueue), n <= N
    PROVE  LET ms == [j \in 1..n |->
                        [msg |-> l.outqueue[j], ns |-> Advance(l.vs, j-1), age |-> 0]]
           IN  ms \in Seq(Unacked) /\ Len(ms) = n
<1>1. l.vs \in SeqNo /\ l.outqueue \in Seq(Msg) /\ Len(l.outqueue) \in Nat
  BY DEF LinkInv, LinkType
<1>2. ASSUME NEW j \in 1..n
      PROVE  [msg |-> l.outqueue[j], ns |-> Advance(l.vs, j-1), age |-> 0] \in Unacked
  <2>1. j - 1 \in 0..N /\ j \in 1..Len(l.outqueue)
    BY <1>1, NAssumption
  <2>2. Advance(l.vs, j-1) \in SeqNo /\ l.outqueue[j] \in Msg
    BY <1>1, <2>1, AdvanceCases
  <2>3. 0 \in 0..(T1 + 1)
    BY TimerAssumption
  <2>4. QED
    BY <2>2, <2>3 DEF Unacked
<1>3. n \in Nat
  BY <1>1
<1>4. QED
  BY <1>2, <1>3

\* LapRunOutQueue: sending as many messages as fit keeps LinkInv.
LEMMA SendFirstInv ==
    ASSUME NEW l, LinkInv(l), NEW n \in 0..Len(l.outqueue),
           Len(l.ackqueue) + n <= K
    PROVE  LinkInv(SendFirst(l, n))
<1> DEFINE fs  == [j \in 1..n |-> IFrame(Advance(l.vs, j-1), l.vr, l.outqueue[j])]
           ms  == [j \in 1..n |->
                     [msg |-> l.outqueue[j], ns |-> Advance(l.vs, j-1), age |-> 0]]
           x   == l.tx \o fs
           a   == l.ackqueue \o ms
           o   == SubSeq(l.outqueue, n+1, Len(l.outqueue))
           s   == l.sent \o SubSeq(l.outqueue, 1, n)
           v   == Advance(l.vs, n)
           r   == [l EXCEPT !.tx = x, !.ackqueue = a, !.outqueue = o,
                            !.sent = s, !.vs = v]
<1>1. /\ l \in LinkType
      /\ l.va \in SeqNo /\ l.vs \in SeqNo /\ l.vr \in SeqNo
      /\ l.outqueue \in Seq(Msg) /\ Len(l.outqueue) \in Nat
      /\ l.ackqueue \in Seq(Unacked) /\ Len(l.ackqueue) \in Nat
      /\ l.tx \in Seq(Frame) /\ l.sent \in Seq(Msg)
      /\ Len(l.ackqueue) = Dist(l.va, l.vs)
      /\ \A j \in 1..Len(l.ackqueue) : l.ackqueue[j].ns = Advance(l.va, j-1)
  BY DEF LinkInv, WindowOf, LinkType
<1>2. n \in Nat /\ n \in 0..N /\ Len(l.ackqueue) \in 0..N
  BY <1>1, WindowAssumption, NAssumption
<1>3. ASSUME NEW j \in 1..n
      PROVE  /\ Advance(l.vs, j-1) \in SeqNo
             /\ l.outqueue[j] \in Msg
  <2>1. j - 1 \in 0..N /\ j \in 1..Len(l.outqueue)
    BY <1>1, <1>2, NAssumption
  <2>2. QED
    BY <1>1, <2>1, AdvanceCases
<1>4. fs \in Seq(Frame)
  BY <1>1, <1>2, <1>3, IFrameType
<1>5. ms \in Seq(Unacked) /\ Len(ms) = n
  <2>1. n <= N
    BY <1>2
  <2>2. QED
    BY <2>1, SentMessages
<1>6. /\ x \in Seq(Frame) /\ a \in Seq(Unacked) /\ o \in Seq(Msg) /\ s \in Seq(Msg)
      /\ Len(a) = Len(l.ackqueue) + n
  <2> HIDE DEF fs, ms
  <2>1. SubSeq(l.outqueue, 1, n) \in Seq(Msg) /\ o \in Seq(Msg)
    BY <1>1, <1>2
  <2>2. x \in Seq(Frame)
    BY <1>1, <1>4
  <2>3. a \in Seq(Unacked) /\ Len(a) = Len(l.ackqueue) + n
    BY <1>1, <1>5, ConcatProperties
  <2>4. s \in Seq(Msg)
    BY <1>1, <2>1
  <2>5. QED
    BY <2>1, <2>2, <2>3, <2>4
<1>7. v \in SeqNo
  BY <1>1, <1>2, AdvanceCases
<1>8. Len(a) = Dist(l.va, v)
  <2>1. Advance(l.va, Len(l.ackqueue)) = l.vs
    BY <1>1, AdvanceOfDist
  <2>2. Len(l.ackqueue) + n <= N /\ Len(l.ackqueue) + n \in SeqNo
    BY <1>1, <1>2, WindowAssumption, NAssumption, SMTT(30) DEF SeqNo
  <2>3. v = Advance(l.va, Len(l.ackqueue) + n)
    BY <1>1, <1>2, <2>1, <2>2, AdvanceTwice
  <2>4. QED
    BY <1>1, <1>6, <2>2, <2>3, DistOfAdvance
<1>9. ASSUME NEW j \in 1..Len(a)
      PROVE  a[j].ns = Advance(l.va, j-1)
  <2>1. CASE j <= Len(l.ackqueue)
    <3>1. a[j] = l.ackqueue[j] /\ j \in 1..Len(l.ackqueue)
      BY <1>1, <1>5, <1>6, <2>1
    <3>2. QED
      BY <1>1, <3>1
  <2>2. CASE j > Len(l.ackqueue)
    <3> DEFINE k == j - Len(l.ackqueue)
    <3>0. k \in 1..n
      BY <1>1, <1>2, <1>6, <2>2
    <3>1. a[j] = ms[k]
      <4> HIDE DEF ms
      <4>1. QED
        BY <1>1, <1>5, <2>2, JoinedSecond
    <3>2. a[j].ns = Advance(l.vs, k - 1)
      BY <3>0, <3>1
    <3>3. l.vs = Advance(l.va, Len(l.ackqueue))
      BY <1>1, AdvanceOfDist
    <3>4. k - 1 \in 0..N /\ Len(l.ackqueue) + (k - 1) <= N
      <4>1. Len(l.ackqueue) + n <= N
        BY <1>1, <1>2, WindowAssumption, NAssumption
      <4> HIDE DEF a, ms, k
      <4>2. QED
        BY <1>2, <3>0, <4>1, NAssumption
    <3>5. Advance(l.vs, k - 1) = Advance(l.va, Len(l.ackqueue) + (k - 1))
      BY <1>1, <1>2, <3>3, <3>4, AdvanceTwice
    <3>6. Len(l.ackqueue) + (k - 1) = j - 1
      BY <1>1, <1>6
    <3>7. QED
      BY <3>2, <3>5, <3>6
  <2>3. QED
    BY <1>1, <1>2, <1>6, <2>1, <2>2
<1>10. SendFirst(l, n) = r
  BY DEF SendFirst
<1> HIDE DEF x, a, o, s, v
<1>11. /\ r \in LinkType
       /\ r.ackqueue = a /\ r.vs = v /\ r.va = l.va
       /\ r.vr = l.vr /\ r.vapeer = l.vapeer /\ r.iFrmRcvAt = l.iFrmRcvAt
       /\ r.conn = l.conn /\ r.fd = l.fd
  BY <1>1, <1>6, <1>7 DEF LinkType
<1>12. WindowOf(r)
  BY <1>1, <1>6, <1>8, <1>9, <1>11 DEF WindowOf
<1>13. QED
  BY <1>10, <1>11, <1>12 DEF LinkInv, AckDebtOf

\* LapRunOutQueue keeps LinkInv, whichever write fails.
LEMMA RunOutQueueInv ==
    ASSUME NEW l, LinkInv(l), NEW fail \in Nat
    PROVE  LinkInv(LapRunOutQueue(l, fail))
<1> DEFINE r == IF l.ackqueue = <<>> THEN [l EXCEPT !.vs = l.va] ELSE l
           n == IF fail < SendRoom(r) THEN fail ELSE SendRoom(r)
<1>1. r = l
  <2>1. CASE l.ackqueue = <<>>
    <3>1. l.va \in SeqNo /\ l.vs \in SeqNo /\ Dist(l.va, l.vs) = 0
      BY <2>1 DEF LinkInv, LinkType, WindowOf
    <3>2. l.vs = l.va
      <4>1. Advance(l.va, 0) = l.va
        BY <3>1, SeqNoRange, AdvanceCases, NAssumption
      <4>2. QED
        BY <3>1, <4>1, AdvanceOfDist
    <3>3. QED
      BY <3>2 DEF LinkInv, LinkType
  <2>2. QED
    BY <2>1
<1>2. n \in 0..Len(l.outqueue) /\ Len(l.ackqueue) + n <= K
  <2>1. SendRoom(l) \in 0..Len(l.outqueue) /\ Len(l.ackqueue) + SendRoom(l) <= K
    BY SendRoomFits
  <2>2. Len(l.outqueue) \in Nat /\ Len(l.ackqueue) \in Nat
    BY DEF LinkInv, LinkType
  <2>3. QED
    BY <1>1, <2>1, <2>2, WindowAssumption, NAssumption
<1>3. LinkInv(SendFirst(r, n))
  BY <1>1, <1>2, SendFirstInv
<1>4. QED
  BY <1>3 DEF LapRunOutQueue

-----------------------------------------------------------------------------
(* Reset, disconnection and the clock *)

LEMMA ResetInv ==
    ASSUME NEW l \in LinkType, NEW full \in BOOLEAN
    PROVE  /\ LinkInv(LapReset(l, full))
           /\ LapReset(l, full).tx = l.tx
<1> DEFINE o == IF full THEN <<>> ELSE l.outqueue
           p == IF full THEN l.purged \cup Elems(l.outqueue) ELSE l.purged
           r == [NewLink EXCEPT !.outqueue = o, !.tx = l.tx, !.acked = l.acked,
                                !.acklost = l.acklost, !.purged = p, !.seen = l.seen]
<1>1. o \in Seq(Msg)
  BY DEF LinkType
<1>2. p \in SUBSET Msg
  <2>1. l.outqueue \in Seq(Msg) /\ l.purged \in SUBSET Msg
    BY DEF LinkType
  <2>2. Elems(l.outqueue) \subseteq Msg
    BY <2>1, ElemsType
  <2>3. QED
    BY <2>1, <2>2
<1>3. LapReset(l, full) = r
  BY DEF LapReset
<1> HIDE DEF o, p
<1>4. NewLink \in LinkType /\ LinkInv(NewLink)
  BY NewLinkInv DEF LinkInv
<1>5. /\ r \in LinkType /\ r.tx = l.tx
      /\ r.va = NewLink.va /\ r.vs = NewLink.vs /\ r.ackqueue = NewLink.ackqueue
      /\ r.vr = NewLink.vr /\ r.vapeer = NewLink.vapeer
      /\ r.iFrmRcvAt = NewLink.iFrmRcvAt /\ r.conn = NewLink.conn /\ r.fd = NewLink.fd
  BY <1>1, <1>2, <1>4 DEF LinkType
<1> HIDE DEF r
<1>6. QED
  BY <1>3, <1>4, <1>5 DEF LinkInv, WindowOf, AckDebtOf, r

\* LapDisconnected leaves a fresh link that satisfies LinkInv.
LEMMA DisconnectedInv ==
    ASSUME NEW i, NEW l \in LinkType
    PROVE  /\ LinkInv(LapDisconnected(i, l))
           /\ LapDisconnected(i, l).tx = l.tx
<1> DEFINE a == l.acklost \cup AckMsgs(l.ackqueue)
           r == [l EXCEPT !.acklost = a]
<1>1. a \in SUBSET Msg
  <2>1. l.ackqueue \in Seq(Unacked) /\ l.acklost \in SUBSET Msg
    BY DEF LinkType
  <2>2. AckMsgs(l.ackqueue) \subseteq Msg
    BY <2>1, AckMsgsType
  <2>3. QED
    BY <2>1, <2>2
<1>2. LapDisconnected(i, l) = LapReset(r, ~(i = Cli /\ KeepOutq))
  BY DEF LapDisconnected
<1> HIDE DEF a
<1>3. r \in LinkType /\ r.tx = l.tx
  BY <1>1 DEF LinkType
<1>4. QED
  BY <1>2, <1>3, ResetInv

\* The same, for LinkInv alone.
LEMMA DisconnectedKeeps ==
    ASSUME NEW i, NEW l, LinkInv(l)
    PROVE  LinkInv(LapDisconnected(i, l))
BY DisconnectedInv DEF LinkInv

\* A second more on one timer: it stays a timer, and a running one runs on.
LEMMA OlderType ==
    ASSUME NEW T \in Nat, NEW a \in Timer(T)
    PROVE  /\ Older(a, T) \in Timer(T)
           /\ a # Off => Older(a, T) # Off
<1>1. a \in Int /\ a >= -1 /\ a <= T + 1
  BY DEF Timer, Off
<1>2. CASE a \in {Off, T + 1}
  BY <1>2 DEF Older
<1>3. CASE a \notin {Off, T + 1}
  <2>1. Older(a, T) = a + 1
    BY <1>3 DEF Older
  <2>2. a + 1 \in 0..(T + 1)
    BY <1>1, <1>3 DEF Off
  <2>3. QED
    BY <2>1, <2>2 DEF Timer, Off
<1>4. QED
  BY <1>2, <1>3

\* A second more on the four timers of a link.
LEMMA AgedTypes ==
    ASSUME NEW l, LinkInv(l)
    PROVE  /\ Older(l.progAt, CnxDelay) \in Timer(CnxDelay)
           /\ Older(l.uFrmSndAt, T1) \in Timer(T1)
           /\ Older(l.iFrmRcvAt, T2) \in Timer(T2)
           /\ Older(l.xFrmRcvAt, T3) \in Timer(T3)
           /\ l.iFrmRcvAt # Off => Older(l.iFrmRcvAt, T2) # Off
<1>1. /\ l.progAt \in Timer(CnxDelay) /\ l.uFrmSndAt \in Timer(T1)
      /\ l.iFrmRcvAt \in Timer(T2) /\ l.xFrmRcvAt \in Timer(T3)
  BY DEF LinkInv, LinkType
<1>2. T1 \in Nat /\ T2 \in Nat /\ T3 \in Nat /\ CnxDelay \in Nat
  BY TimerAssumption DEF CnxDelay
<1>3. Older(l.progAt, CnxDelay) \in Timer(CnxDelay)
  BY <1>1, <1>2, OlderType
<1>4. Older(l.uFrmSndAt, T1) \in Timer(T1)
  BY <1>1, <1>2, OlderType
<1>5. /\ Older(l.iFrmRcvAt, T2) \in Timer(T2)
      /\ l.iFrmRcvAt # Off => Older(l.iFrmRcvAt, T2) # Off
  BY <1>1, <1>2, OlderType
<1>6. Older(l.xFrmRcvAt, T3) \in Timer(T3)
  BY <1>1, <1>2, OlderType
<1>7. QED
  BY <1>3, <1>4, <1>5, <1>6

\* A second more on every timer: the numbers in the ack queue stay.
LEMMA AgedInv ==
    ASSUME NEW l, LinkInv(l)
    PROVE  LinkInv(Aged(l))
<1> DEFINE p == Older(l.progAt, CnxDelay)
           u == Older(l.uFrmSndAt, T1)
           t == Older(l.iFrmRcvAt, T2)
           x == Older(l.xFrmRcvAt, T3)
           q == [j \in 1..Len(l.ackqueue) |-> OlderMsg(l.ackqueue[j])]
           r == [l EXCEPT !.progAt = p, !.uFrmSndAt = u, !.iFrmRcvAt = t,
                          !.xFrmRcvAt = x, !.ackqueue = q]
<1>1. /\ l \in LinkType
      /\ l.progAt \in Timer(CnxDelay) /\ l.uFrmSndAt \in Timer(T1)
      /\ l.iFrmRcvAt \in Timer(T2) /\ l.xFrmRcvAt \in Timer(T3)
      /\ l.ackqueue \in Seq(Unacked) /\ Len(l.ackqueue) \in Nat
  BY DEF LinkInv, LinkType
<1>2. /\ p \in Timer(CnxDelay) /\ u \in Timer(T1) /\ t \in Timer(T2) /\ x \in Timer(T3)
  BY AgedTypes
<1>3. l.iFrmRcvAt # Off => t # Off
  BY AgedTypes
<1>4. ASSUME NEW j \in 1..Len(l.ackqueue)
      PROVE  /\ OlderMsg(l.ackqueue[j]) \in Unacked
             /\ OlderMsg(l.ackqueue[j]).ns = l.ackqueue[j].ns
  <2>1. l.ackqueue[j] \in Unacked
    BY <1>1
  <2>2. Older(l.ackqueue[j].age, T1) \in 0..(T1 + 1)
    <3>1. PICK g \in 0..(T1 + 1) : g = l.ackqueue[j].age
      BY <2>1 DEF Unacked
    <3>2. Older(g, T1) \in 0..(T1 + 1)
      BY TimerAssumption DEF Older, Off
    <3>3. QED
      BY <3>1, <3>2
  <2>3. QED
    BY <2>1, <2>2 DEF Unacked, OlderMsg
<1>5. q \in Seq(Unacked) /\ Len(q) = Len(l.ackqueue)
  BY <1>1, <1>4
<1>6. Aged(l) = r
  BY DEF Aged
<1>7. \A j \in 1..Len(l.ackqueue) : q[j].ns = l.ackqueue[j].ns
  BY <1>4
<1> HIDE DEF p, u, t, x, q
<1>8. /\ r \in LinkType
      /\ r.ackqueue = q /\ r.iFrmRcvAt = t
      /\ r.va = l.va /\ r.vs = l.vs /\ r.vr = l.vr /\ r.vapeer = l.vapeer
      /\ r.conn = l.conn /\ r.fd = l.fd
  BY <1>1, <1>2, <1>5 DEF LinkType
<1>9. WindowOf(r)
  BY <1>5, <1>7, <1>8 DEF LinkInv, WindowOf
<1>10. AckDebtOf(r)
  BY <1>3, <1>8 DEF LinkInv, AckDebtOf
<1>11. QED
  BY <1>6, <1>8, <1>9, <1>10 DEF LinkInv

\* LapTimerT1T2T3 keeps LinkInv.
LEMMA TimerT1T2T3Inv ==
    ASSUME NEW i, NEW l, LinkInv(l)
    PROVE  LinkInv(LapTimerT1T2T3(i, l))
<1> DEFINE r == [l EXCEPT !.iFrmRcvAt = Off]
<1>1. LinkInv(LapDisconnected(i, l))
  BY DisconnectedKeeps
<1>2. ASSUME l.conn
      PROVE  LinkInv(LapSendFrameS(r))
  <2>1. Off \in Timer(T2) /\ l \in LinkType
    BY TimerAssumption DEF Timer, Off, LinkInv
  <2>2. /\ r \in LinkType /\ r.conn = l.conn /\ r.fd = l.fd
        /\ r.va = l.va /\ r.vs = l.vs /\ r.ackqueue = l.ackqueue
    BY <2>1 DEF LinkType
  <2> HIDE DEF r
  <2>3. WindowOf(r)
    BY <2>2 DEF LinkInv, WindowOf
  <2>4. QED
    BY <1>2, <2>2, <2>3, SendSInv DEF LinkInv
<1>3. LinkInv(LapSendFrameU(l, "TESTFRact"))
  BY SendUCalm, CalmKeepsInv DEF LinkInv, UType
<1>4. QED
  BY <1>1, <1>2, <1>3 DEF LapTimerT1T2T3

\* rtl_LapDoClockScPeriod keeps LinkInv for each link.
LEMMA ClockInv ==
    ASSUME NEW i, NEW l, LinkInv(l), NEW re \in BOOLEAN
    PROVE  LinkInv(LapDoClockSc(i, l, re))
<1> DEFINE r == IF re THEN LapReConnect(i, Aged(l)) ELSE Aged(l)
           s == LapTimerT1T2T3(i, r)
<1>1. LinkInv(Aged(l))
  BY AgedInv
<1>2. LinkInv(r)
  <2>1. LinkInv(LapDisconnected(i, Aged(l)))
    BY <1>1, DisconnectedKeeps
  <2>2. QED
    BY <1>1, <2>1 DEF LapReConnect
<1> HIDE DEF r
<1>3. LinkInv(s)
  BY <1>2, TimerT1T2T3Inv
<1> HIDE DEF s
<1>4. LinkInv(LapTimerAckQueue(i, s))
  BY <1>3, DisconnectedKeeps DEF LapTimerAckQueue
<1>5. QED
  BY <1>4 DEF LapDoClockSc, r, s

-----------------------------------------------------------------------------
(* The inductive invariant *)

\* What every reachable state satisfies.  SendWindow and AckDebt are not
\* inductive alone: that S frames settle the debt needs a connected link to
\* have a socket, and both need the ranges of the counters.
LinksInv ==
    /\ TypeOK
    /\ \A i \in Link : LinkInv(lk[i])

\* Every state variable but lk and net keeps its type.
RestOK ==
    /\ tcp \in [Conn -> {"free", "syn", "backlog", "open", "shut"}]
    /\ cur \in Conn \cup {NoConn}
    /\ up \in [Conn -> BOOLEAN]
    /\ bound \in BOOLEAN
    /\ cnxcount \in Int
    /\ used \in [Budget -> Nat]

\* One link is replaced: enough to look at that link, without its output.
LEMMA OneLink ==
    ASSUME LinksInv, NEW i \in Link, NEW l, LinkInv(l),
           lk' = [lk EXCEPT ![i] = [l EXCEPT !.tx = <<>>]],
           net' \in [Link -> Seq(Frame)], RestOK'
    PROVE  LinksInv'
<1> DEFINE r == [l EXCEPT !.tx = <<>>]
<1>1. Calm(l, r) /\ r.tx = <<>>
  <2>1. l \in LinkType /\ <<>> \in Seq(Frame)
    BY DEF LinkInv
  <2>2. QED
    BY <2>1 DEF Calm, LinkType
<1>2. LinkInv(r) /\ r \in LinkType
  BY <1>1, CalmKeepsInv DEF Calm
<1> HIDE DEF r
<1>3. lk' = [lk EXCEPT ![i] = r]
  BY DEF r
<1>4. lk \in [Link -> LinkType] /\ \A j \in Link : LinkInv(lk[j]) /\ lk[j].tx = <<>>
  BY DEF LinksInv, TypeOK
<1>5. lk' \in [Link -> LinkType]
  BY <1>2, <1>3, <1>4
<1>6. ASSUME NEW j \in Link
      PROVE  LinkInv(lk'[j]) /\ lk'[j].tx = <<>>
  <2>1. CASE j = i
    BY <1>1, <1>2, <1>3, <1>4, <2>1
  <2>2. CASE j # i
    BY <1>3, <1>4, <2>2
  <2>3. QED
    BY <2>1, <2>2
<1>7. QED
  BY <1>5, <1>6 DEF LinksInv, TypeOK, RestOK

\* The output of a link goes into the network.
LEMMA CommitInv ==
    ASSUME LinksInv, NEW i \in Link, NEW l, LinkInv(l), Commit(i, l),
           up' = up, bound' = bound, used' \in [Budget -> Nat]
    PROVE  LinksInv'
<1>1. /\ net \in [Link -> Seq(Frame)]
      /\ tcp \in [Conn -> {"free", "syn", "backlog", "open", "shut"}]
      /\ cur \in Conn \cup {NoConn} /\ up \in [Conn -> BOOLEAN]
      /\ bound \in BOOLEAN /\ cnxcount \in Int
  BY DEF LinksInv, TypeOK
<1>2. l.tx \in Seq(Frame)
  BY DEF LinkInv, LinkType
<1>3. lk' = [lk EXCEPT ![i] = [l EXCEPT !.tx = <<>>]]
  BY DEF Commit
<1>4. net' \in [Link -> Seq(Frame)]
  <2>1. ASSUME NEW j \in Link
        PROVE  /\ net[j] \in Seq(Frame)
               /\ net[j] \o l.tx \in Seq(Frame)
               /\ <<>> \in Seq(Frame)
    BY <1>1, <1>2
  <2>2. QED
    BY <2>1 DEF Commit
<1>5. cur' \in Conn \cup {NoConn} /\ cnxcount' \in Int
  BY <1>1 DEF Commit
<1>6. tcp' \in [Conn -> {"free", "syn", "backlog", "open", "shut"}]
  <2> DEFINE c == ConnOf(i)
  <2>1. /\ [tcp EXCEPT ![c] = IF @ \in {"syn", "shut"} THEN "free" ELSE @]
             \in [Conn -> {"free", "syn", "backlog", "open", "shut"}]
        /\ [tcp EXCEPT ![c] = IF cur = c THEN "shut" ELSE "free"]
             \in [Conn -> {"free", "syn", "backlog", "open", "shut"}]
    <3> HIDE DEF c
    <3>1. QED
      BY <1>1
  <2>2. \/ tcp' = tcp
        \/ tcp' = [tcp EXCEPT ![c] = IF @ \in {"syn", "shut"} THEN "free" ELSE @]
        \/ tcp' = [tcp EXCEPT ![c] = IF cur = c THEN "shut" ELSE "free"]
    BY DEF Commit
  <2>3. QED
    BY <1>1, <2>1, <2>2
<1>7. QED
  BY <1>1, <1>3, <1>4, <1>5, <1>6, OneLink DEF RestOK

\* Counting a use of a bound keeps the type of the counters.
LEMMA SpendType ==
    ASSUME TypeOK, NEW b \in Budget, Spend(b)
    PROVE  used' \in [Budget -> Nat]
BY DEF TypeOK, Spend

\* A message that may still be put is one.
LEMMA PutMsg ==
    ASSUME TypeOK, Left("put")
    PROVE  used["put"] + 1 \in Msg
<1>1. used["put"] \in Nat
  BY DEF TypeOK, Budget
<1>2. used["put"] < MaxPut
  BY DEF Left, Bound
<1>3. QED
  BY <1>1, <1>2, BoundAssumption DEF Msg

\* The initial links satisfy the invariant.
LEMMA InitInv == ASSUME Init PROVE LinksInv
<1>1. LinkInv(NewLink) /\ NewLink \in LinkType /\ NewLink.tx = <<>>
  BY NewLinkInv DEF LinkInv, NewLink
<1>2. \A i \in Link : lk[i] = NewLink
  BY DEF Init
<1>3. lk \in [Link -> LinkType]
  BY <1>1 DEF Init
<1>4. net \in [Link -> Seq(Frame)]
  BY DEF Init
<1>5. QED
  BY <1>1, <1>2, <1>3, <1>4 DEF Init, LinksInv, TypeOK, Budget

-----------------------------------------------------------------------------
(* Every step keeps it *)

LEMMA LinkStepInv ==
    ASSUME LinksInv, NEW i \in Link, LinkStep(i)
    PROVE  LinksInv'
<1>1. LinkInv(lk[i]) /\ lk[i] \in LinkType /\ TypeOK
  BY DEF LinksInv, LinkInv
<1>2. used \in [Budget -> Nat]
  BY <1>1 DEF TypeOK
<1>3. CASE Recv(i)
  <2> DEFINE l == IncomingFrame(lk[i], Head(net[i]))
  <2>1. Head(net[i]) \in Frame /\ Tail(net[i]) \in Seq(Frame)
    BY <1>1, <1>3 DEF Recv, TypeOK
  <2>2. LinkInv(l)
    BY <1>1, <1>3, <2>1, IncomingFrameInv DEF Recv
  <2>3. l.tx \in Seq(Frame)
    BY <2>2 DEF LinkInv, LinkType
  <2>4. lk' = [lk EXCEPT ![i] = [l EXCEPT !.tx = <<>>]]
    BY <1>3 DEF Recv
  <2>5. net' \in [Link -> Seq(Frame)]
    <3>1. ASSUME NEW j \in Link
          PROVE  net[j] \in Seq(Frame) /\ net[j] \o l.tx \in Seq(Frame)
      <4> HIDE DEF l
      <4>1. QED
        BY <1>1, <2>3 DEF TypeOK
    <3>2. QED
      BY <1>3, <2>1, <3>1 DEF Recv
  <2>6. RestOK'
    BY <1>1, <1>3 DEF Recv, TypeOK, RestOK
  <2> HIDE DEF l
  <2>7. QED
    BY <2>2, <2>4, <2>5, <2>6, OneLink
<1>4. CASE Send(i)
  <2>1. PICK fail \in Nat : Commit(i, LapRunOutQueue(lk[i], fail))
    BY <1>4, WindowAssumption, NAssumption DEF Send
  <2>2. LinkInv(LapRunOutQueue(lk[i], fail))
    BY <1>1, RunOutQueueInv
  <2>3. QED
    BY <1>2, <1>4, <2>1, <2>2, CommitInv DEF Send
<1>5. CASE ReadEof(i) \/ ReadError(i)
  <2>1. LinkInv(LapDisconnected(i, lk[i]))
    BY <1>1, DisconnectedKeeps
  <2>2. QED
    BY <1>2, <1>5, <2>1, CommitInv DEF ReadEof, ReadError
<1>6. CASE \E re \in BOOLEAN : ClockSc(i, re)
  <2>1. PICK re \in BOOLEAN : ClockSc(i, re)
    BY <1>6
  <2>2. LinkInv(LapDoClockSc(i, lk[i], re))
    BY <1>1, ClockInv
  <2>3. QED
    BY <1>2, <2>1, <2>2, CommitInv DEF ClockSc
<1>7. CASE PutOutQueue(i)
  <2> DEFINE o == Append(lk[i].outqueue, used["put"] + 1)
             l == [lk[i] EXCEPT !.outqueue = o]
  <2>1. used["put"] + 1 \in Msg
    BY <1>1, <1>7, PutMsg DEF PutOutQueue
  <2>2. o \in Seq(Msg)
    BY <1>1, <2>1 DEF LinkType
  <2>3. lk' = [lk EXCEPT ![i] = l]
    BY <1>7 DEF PutOutQueue
  <2> HIDE DEF o
  <2>4. /\ l \in LinkType /\ l.tx = lk[i].tx
        /\ l.va = lk[i].va /\ l.vs = lk[i].vs /\ l.ackqueue = lk[i].ackqueue
        /\ l.vr = lk[i].vr /\ l.vapeer = lk[i].vapeer
        /\ l.iFrmRcvAt = lk[i].iFrmRcvAt /\ l.conn = lk[i].conn /\ l.fd = lk[i].fd
    BY <1>1, <2>2 DEF LinkType
  <2>5. l = [l EXCEPT !.tx = <<>>]
    BY <1>1, <2>4 DEF TypeOK, LinkType
  <2>6. net' \in [Link -> Seq(Frame)] /\ RestOK'
    <3>1. used' \in [Budget -> Nat]
      BY <1>1, <1>7, SpendType DEF PutOutQueue, Budget
    <3>2. QED
      BY <1>1, <1>7, <3>1 DEF PutOutQueue, TypeOK, RestOK
  <2> HIDE DEF l
  <2>7. LinkInv(l)
    BY <1>1, <2>4 DEF LinkInv, WindowOf, AckDebtOf
  <2>8. QED
    BY <2>3, <2>5, <2>6, <2>7, OneLink
<1>8. CASE \E evt \in {"STARTDTact", "STOPDTact", "TESTFRact"} : Request(i, evt)
  <2>1. PICK evt : Request(i, evt)
    BY <1>8
  <2>2. LinkInv(EventRequest(lk[i], evt))
    BY <1>1, EventRequestCalm, CalmKeepsInv
  <2>3. used' \in [Budget -> Nat]
    BY <1>1, <2>1, SpendType DEF Request, Budget
  <2>4. QED
    BY <2>1, <2>2, <2>3, CommitInv DEF Request
<1>9. CASE Disc(i)
  <2>1. LinkInv(LapDisconnected(i, lk[i]))
    BY <1>1, DisconnectedKeeps
  <2>2. used' \in [Budget -> Nat]
    BY <1>1, <1>9, SpendType DEF Disc, Budget
  <2>3. QED
    BY <1>9, <2>1, <2>2, CommitInv DEF Disc
<1>10. QED
  BY <1>3, <1>4, <1>5, <1>6, <1>7, <1>8, <1>9 DEF LinkStep

\* A step that leaves the links alone.
LEMMA LinksAlone ==
    ASSUME LinksInv, lk' = lk, net' \in [Link -> Seq(Frame)], RestOK'
    PROVE  LinksInv'
BY DEF LinksInv, TypeOK, RestOK

\* Every step of a connection preserves the invariant, one step per action.
LEMMA ConnStepInv ==
    ASSUME LinksInv, NEW c \in Conn, ConnStep(c)
    PROVE  LinksInv'
<1>1. /\ TypeOK /\ Cli \in Link /\ c \in Link
      /\ lk[c] \in LinkType /\ lk[Cli] \in LinkType
      /\ LinkInv(lk[c]) /\ LinkInv(lk[Cli])
  BY DEF LinksInv, LinkInv, Link
<1>2. CASE Dial(c)
  <2> DEFINE l == [lk[Cli] EXCEPT !.fd = TRUE, !.progAt = 0]
  <2>1. 0 \in Timer(CnxDelay)
    BY DEF Timer, CnxDelay, Off
  <2>2. /\ l \in LinkType /\ l.fd
        /\ l.va = lk[Cli].va /\ l.vs = lk[Cli].vs /\ l.ackqueue = lk[Cli].ackqueue
        /\ l.vr = lk[Cli].vr /\ l.vapeer = lk[Cli].vapeer
        /\ l.iFrmRcvAt = lk[Cli].iFrmRcvAt /\ l.tx = lk[Cli].tx
    BY <1>1, <2>1 DEF LinkType
  <2>3. LinkInv(l)
    BY <1>1, <2>2 DEF LinkInv, WindowOf, AckDebtOf
  <2>4. l = [l EXCEPT !.tx = <<>>]
    BY <1>1, <2>2 DEF TypeOK, LinkType
  <2>5. lk' = [lk EXCEPT ![Cli] = l]
    BY <1>1, <1>2 DEF Dial, TypeOK
  <2>6. used' \in [Budget -> Nat]
    BY <1>1, <1>2, SpendType DEF Dial, Budget
  <2>7. net' \in [Link -> Seq(Frame)] /\ RestOK'
    BY <1>1, <1>2, <2>6 DEF Dial, TypeOK, RestOK
  <2> HIDE DEF l
  <2>8. QED
    BY <1>1, <2>3, <2>4, <2>5, <2>7, OneLink
<1>3. CASE Handshake(c)
  BY <1>1, <1>3, LinksAlone DEF Handshake, TypeOK, RestOK
<1>4. CASE Accept(c)
  <2> DEFINE r == [LapReset(lk[c], TRUE) EXCEPT !.fd = TRUE, !.conn = TRUE]
             l == EventConnected(c, r)
  <2>1. LinkInv(LapReset(lk[c], TRUE))
    BY <1>1, ResetInv
  <2>2. LinkInv(r)
    <3> DEFINE k == LapReset(lk[c], TRUE)
    <3>1. LinkInv(k) /\ r = [k EXCEPT !.fd = TRUE, !.conn = TRUE]
      BY <2>1
    <3> HIDE DEF k, r
    <3>2. /\ r \in LinkType /\ r.fd
          /\ r.va = k.va /\ r.vs = k.vs /\ r.ackqueue = k.ackqueue
          /\ r.vr = k.vr /\ r.vapeer = k.vapeer /\ r.iFrmRcvAt = k.iFrmRcvAt
      BY <3>1 DEF LinkInv, LinkType
    <3>3. QED
      BY <3>1, <3>2 DEF LinkInv, WindowOf, AckDebtOf
  <2> HIDE DEF r
  <2>3. LinkInv(l)
    BY <2>2, EventConnectedCalm, CalmKeepsInv DEF LinkInv
  <2>4. l.tx \in Seq(Frame)
    BY <2>3 DEF LinkInv, LinkType
  <2>5. /\ lk' = [lk EXCEPT ![c] = [l EXCEPT !.tx = <<>>]]
        /\ net' = IF cur = c /\ up[c] THEN [net EXCEPT ![Cli] = @ \o l.tx] ELSE net
    BY <1>4 DEF Accept, r
  <2> HIDE DEF l
  <2>6. net' \in [Link -> Seq(Frame)]
    BY <1>1, <2>4, <2>5 DEF TypeOK
  <2>7. RestOK'
    BY <1>1, <1>4 DEF Accept, TypeOK, RestOK
  <2>8. QED
    BY <1>1, <2>3, <2>5, <2>6, <2>7, OneLink
<1>5. CASE AcceptRefused(c)
  <2>1. net' \in [Link -> Seq(Frame)]
    BY <1>1, <1>5 DEF AcceptRefused, TypeOK
  <2>2. RestOK' /\ lk' = lk
    BY <1>1, <1>5 DEF AcceptRefused, TypeOK, RestOK
  <2>3. QED
    BY <2>1, <2>2, LinksAlone
<1>6. CASE PollMarked(c)
  <2>1. LinkInv(LapDisconnected(c, lk[c]))
    BY <1>1, DisconnectedKeeps
  <2>2. used' \in [Budget -> Nat]
    BY <1>1, <1>6 DEF PollMarked, TypeOK
  <2>3. QED
    BY <1>1, <1>6, <2>1, <2>2, CommitInv DEF PollMarked
<1>7. CASE Cut(c)
  <2>1. net' \in [Link -> Seq(Frame)]
    BY <1>1, <1>7 DEF Cut, TypeOK
  <2>2. used' \in [Budget -> Nat]
    BY <1>1, <1>7, SpendType DEF Cut, Budget
  <2>3. RestOK' /\ lk' = lk
    BY <1>1, <1>7, <2>2 DEF Cut, TypeOK, RestOK
  <2>4. QED
    BY <2>1, <2>3, LinksAlone
<1>8. QED
  BY <1>2, <1>3, <1>4, <1>5, <1>6, <1>7 DEF ConnStep

\* Every step preserves the invariant.
LEMMA NextInv ==
    ASSUME LinksInv, [Next]_vars
    PROVE  LinksInv'
<1>1. /\ TypeOK /\ Cli \in Link
      /\ lk[Cli] \in LinkType /\ LinkInv(lk[Cli])
      /\ net \in [Link -> Seq(Frame)] /\ used \in [Budget -> Nat]
  BY DEF LinksInv, LinkInv, Link, TypeOK
<1>2. CASE ConnectDone
  <2> DEFINE r == [lk[Cli] EXCEPT !.conn = TRUE, !.progAt = Off]
  <2>1. Off \in Timer(CnxDelay) /\ lk[Cli].fd
    BY <1>2 DEF Timer, CnxDelay, Off, ConnectDone
  <2>2. /\ r \in LinkType /\ r.fd
        /\ r.va = lk[Cli].va /\ r.vs = lk[Cli].vs /\ r.ackqueue = lk[Cli].ackqueue
        /\ r.vr = lk[Cli].vr /\ r.vapeer = lk[Cli].vapeer
        /\ r.iFrmRcvAt = lk[Cli].iFrmRcvAt
    BY <1>1, <2>1 DEF LinkType
  <2>3. Commit(Cli, EventConnected(Cli, r))
    BY <1>2 DEF ConnectDone
  <2> HIDE DEF r
  <2>4. LinkInv(r)
    BY <1>1, <2>2 DEF LinkInv, WindowOf, AckDebtOf
  <2>5. LinkInv(EventConnected(Cli, r))
    BY <2>2, <2>4, EventConnectedCalm, CalmKeepsInv
  <2>6. QED
    BY <1>1, <1>2, <2>3, <2>5, CommitInv DEF ConnectDone
<1>3. CASE ConnectRejected
  <2>1. LinkInv(LapDisconnected(Cli, lk[Cli]))
    BY <1>1, DisconnectedKeeps
  <2>2. QED
    BY <1>1, <1>3, <2>1, CommitInv DEF ConnectRejected
<1>4. CASE \E nice \in BOOLEAN : CloseBind(nice)
  <2>1. PICK nice \in BOOLEAN : CloseBind(nice)
    BY <1>4
  <2>2. used' \in [Budget -> Nat]
    BY <1>1, <2>1, SpendType DEF CloseBind, Budget
  <2>3. RestOK'
    BY <1>1, <2>1, <2>2 DEF CloseBind, DropBacklog, TypeOK, RestOK
  <2>4. net' \in [Link -> Seq(Frame)]
    BY <1>1, <2>1 DEF CloseBind
  <2>5. ASSUME NEW i \in Link
        PROVE  /\ LinkInv(lk'[i]) /\ lk'[i] \in LinkType /\ lk'[i].tx = <<>>
    <3> DEFINE r == [lk[i] EXCEPT !.tobedisc = TRUE]
    <3>1. LinkInv(lk[i]) /\ lk[i] \in LinkType /\ lk[i].tx = <<>>
      BY <1>1 DEF LinksInv, LinkInv, TypeOK
    <3>2. Calm(lk[i], r) /\ r \in LinkType /\ r.tx = <<>>
      BY <3>1 DEF Calm, LinkType
    <3>3. lk'[i] = r \/ lk'[i] = lk[i]
      BY <2>1 DEF CloseBind
    <3> HIDE DEF r
    <3>4. QED
      BY <3>1, <3>2, <3>3, CalmKeepsInv
  <2>6. lk' \in [Link -> LinkType]
    <3>1. lk' = [i \in Link |-> lk'[i]]
      BY <2>1 DEF CloseBind
    <3>2. QED
      BY <2>5, <3>1
  <2>7. QED
    BY <2>3, <2>4, <2>5, <2>6 DEF LinksInv, TypeOK, RestOK
<1>5. CASE CloseBindNow
  <2>1. used' \in [Budget -> Nat]
    BY <1>1, <1>5, SpendType DEF CloseBindNow, Budget
  <2>2. Cardinality({c \in Conn : lk[c].fd}) \in Nat
    <3>1. IsFiniteSet({c \in Conn : lk[c].fd})
      BY ConnAssumption, FS_Subset
    <3>2. QED
      BY <3>1, FS_CardinalityType
  <2>3. RestOK'
    <3>1. cnxcount' \in Int
      <4> DEFINE n == Cardinality({c \in Conn : lk[c].fd})
      <4>1. cnxcount \in Int /\ n \in Nat /\ cnxcount' = cnxcount - n
        BY <1>1, <1>5, <2>2 DEF CloseBindNow, TypeOK
      <4> HIDE DEF n
      <4>2. QED
        BY <4>1
    <3>2. tcp' \in [Conn -> {"free", "syn", "backlog", "open", "shut"}]
      BY <1>1, <1>5 DEF CloseBindNow, DropBacklog, TypeOK
    <3>3. QED
      BY <1>1, <1>5, <2>1, <3>1, <3>2 DEF CloseBindNow, TypeOK, RestOK
  <2>4. net' \in [Link -> Seq(Frame)]
    BY <1>1, <1>5 DEF CloseBindNow
  <2>5. ASSUME NEW i \in Link
        PROVE  /\ LinkInv(lk'[i]) /\ lk'[i] \in LinkType /\ lk'[i].tx = <<>>
    <3>1. LinkInv(lk[i]) /\ lk[i] \in LinkType /\ lk[i].tx = <<>>
      BY <1>1 DEF LinksInv, LinkInv, TypeOK
    <3>2. /\ LinkInv(LapDisconnected(i, lk[i]))
          /\ LapDisconnected(i, lk[i]).tx = <<>>
          /\ LapDisconnected(i, lk[i]) \in LinkType
      BY <3>1, DisconnectedInv DEF LinkInv
    <3>3. lk'[i] = LapDisconnected(i, lk[i]) \/ lk'[i] = lk[i]
      BY <1>5 DEF CloseBindNow
    <3>4. QED
      BY <3>1, <3>2, <3>3
  <2>6. lk' \in [Link -> LinkType]
    <3>1. lk' = [i \in Link |-> lk'[i]]
      BY <1>5 DEF CloseBindNow
    <3>2. QED
      BY <2>5, <3>1
  <2>7. QED
    BY <2>3, <2>4, <2>5, <2>6 DEF LinksInv, TypeOK, RestOK
<1>6. CASE OpenBind
  BY <1>1, <1>6, LinksAlone DEF OpenBind, TypeOK, RestOK
<1>7. CASE \E c \in Conn : ConnStep(c)
  BY <1>7, ConnStepInv
<1>8. CASE \E i \in Link : LinkStep(i)
  BY <1>8, LinkStepInv
<1>9. CASE UNCHANGED vars
  BY <1>1, <1>9, LinksAlone DEF vars, TypeOK, RestOK
<1>10. QED
  BY <1>2, <1>3, <1>4, <1>5, <1>6, <1>7, <1>8, <1>9 DEF Next

-----------------------------------------------------------------------------
(* The theorems *)

\* LinksInv holds in every state of every behaviour of the links.
THEOREM Invariance == Spec => []LinksInv
<1>1. Init => LinksInv
  BY InitInv
<1>2. LinksInv /\ [Next]_vars => LinksInv'
  BY NextInv
<1>3. QED
  BY <1>1, <1>2, PTL DEF Spec

\* Every counter, timer and queue of a link stays in its range, for every
\* modulus, window, timeout and number of connections.
THEOREM TypeCorrect == Spec => []TypeOK
<1>1. LinksInv => TypeOK
  BY DEF LinksInv
<1>2. QED
  BY <1>1, Invariance, PTL

\* LapRunOutQueue and LapRunAckQueue: the ack queue always holds exactly the
\* messages numbered va..vs-1 in order, at most K of them.
THEOREM WindowCorrect == Spec => []SendWindow
<1>1. LinksInv => SendWindow
  BY DEF LinksInv, LinkInv, SendWindow
<1>2. QED
  BY <1>1, Invariance, PTL

\* IncomingFrame and LapTimerT1T2T3All: an end never owes W acknowledgements,
\* and whenever it owes one T2 is running.
THEOREM DebtCorrect == Spec => []AckDebt
<1>1. LinksInv => AckDebt
  BY DEF LinksInv, LinkInv, AckDebt
<1>2. QED
  BY <1>1, Invariance, PTL

\* In every reachable state OKNR and its variant under #else agree on every
\* nr a frame could carry.
THEOREM OKNRCorrect == Spec => []OKNRIsWalk
<1>1. LinksInv => OKNRIsWalk
  <2>1. ASSUME LinksInv, NEW i \in Link, NEW nr \in SeqNo
        PROVE  OKNR(lk[i].va, lk[i].vs, nr) <=> OKNRLoop(lk[i].va, lk[i].vs, nr)
    <3>1. lk[i].va \in SeqNo /\ lk[i].vs \in SeqNo
      BY <2>1 DEF LinksInv, LinkInv, LinkType
    <3>2. QED
      BY <3>1, OKNRWalks
  <2>2. QED
    BY <2>1 DEF OKNRIsWalk
<1>2. QED
  BY <1>1, Invariance, PTL

-----------------------------------------------------------------------------
(***************************************************************************)
(* The two ends of a connection and what is between them: proofs that the  *)
(* sequence numbers never fail between two xlap links, that the messages   *)
(* arrive in order, and that only what arrived is acknowledged.            *)
(*                                                                         *)
(* A sequence number says too little to reason with, since it comes again  *)
(* after N messages.  The histories sent and rcvd of a link count without  *)
(* end, and the invariant numbers the frames on a wire by such counts: cnt *)
(* counts the messages up to a frame, ack those that the frame             *)
(* acknowledges.                                                           *)
(***************************************************************************)

(* Counts *)

\* How many messages of this connection link x knows to have arrived, and
\* how many received ones its last S frame told the other end of.
Base(x) == Len(x.sent) - Len(x.ackqueue)
Told(x) == Len(x.rcvd) - Dist(x.vapeer, x.vr)

\* The sequence numbers of a link are its counts, what waits for its
\* acknowledgement was sent last, and no frame was refused.
CountInv(x) ==
    /\ Base(x) \in Nat /\ Told(x) \in Nat
    /\ x.va = SeqOf(Base(x)) /\ x.vs = SeqOf(Len(x.sent)) /\ x.vr = SeqOf(Len(x.rcvd))
    /\ \A j \in 1..Len(x.ackqueue) : x.ackqueue[j].msg = x.sent[Base(x) + j]
    /\ \A j \in 1..Len(x.rcvd) : x.rcvd[j] \in x.seen
    /\ ~x.nberr
    /\ ~x.conn => x.sent = <<>> /\ x.rcvd = <<>> /\ x.ackqueue = <<>>

\* cnt[p] and ack[p] are the counts once p frames of w are read.
Numbers(w, cnt, ack) ==
    /\ cnt \in [0..Len(w) -> Nat]
    /\ ack \in [0..Len(w) -> Nat]
    /\ \A p \in 1..Len(w) :
         /\ cnt[p] = IF w[p].type = "I" THEN cnt[p-1] + 1 ELSE cnt[p-1]
         /\ w[p].type = "I" => w[p].ns = SeqOf(cnt[p-1])
         /\ w[p].type \in {"S", "I"} => w[p].nr = SeqOf(ack[p])
         /\ w[p].type \notin {"S", "I"} => ack[p] = ack[p-1]
    /\ \A p, q \in 0..Len(w) : p <= q => cnt[p] <= cnt[q] /\ ack[p] <= ack[q]

\* Link b can read the frames w: they go on where it is, and acknowledge
\* only what it sent and the user of the other end was given (S).
ReadBy(b, w, S, cnt, ack) ==
    /\ cnt[0] = Len(b.rcvd)
    /\ ack[0] = Base(b)
    /\ ack[Len(w)] <= Len(b.sent)
    /\ \A j \in 1..ack[Len(w)] : b.sent[j] \in S

\* Link a wrote the frames w: they end where it is, and carry what it sent.
WrittenBy(a, b, w, cnt, ack) ==
    /\ cnt[Len(w)] = Len(a.sent)
    /\ Told(a) <= ack[Len(w)]
    /\ ack[Len(w)] <= Len(a.rcvd)
    /\ \A p \in 1..Len(w) : w[p].type = "I" => w[p].msg = a.sent[cnt[p]]
    /\ \A j \in 1..Len(b.rcvd) : b.rcvd[j] = a.sent[j]

Readable(b, w, S) == \E cnt, ack : Numbers(w, cnt, ack) /\ ReadBy(b, w, S, cnt, ack)

Flow(a, b, w, S) ==
    \E cnt, ack : Numbers(w, cnt, ack) /\ ReadBy(b, w, S, cnt, ack) /\ WrittenBy(a, b, w, cnt, ack)

\* What can be read to the end can be read.
LEMMA FlowReadable ==
    ASSUME NEW a, NEW b, NEW w, NEW S, Flow(a, b, w, S)
    PROVE  Readable(b, w, S)
BY DEF Flow, Readable

-----------------------------------------------------------------------------
(* Numbering longer and shorter wires *)

\* The counts on w, then those on u.
Glue(w, u, f, g) == [p \in 0..Len(w \o u) |-> IF p <= Len(w) THEN f[p] ELSE g[p - Len(w)]]

\* The counts on what is left of w without its first frame.
Shift(w, f) == [p \in 0..Len(Tail(w)) |-> f[p + 1]]

LEMMA NumbersGlue ==
    ASSUME NEW w \in Seq(Frame), NEW u \in Seq(Frame),
           NEW cnt, NEW ack, Numbers(w, cnt, ack),
           NEW c, NEW k, Numbers(u, c, k),
           c[0] = cnt[Len(w)], k[0] = ack[Len(w)]
    PROVE  Numbers(w \o u, Glue(w, u, cnt, c), Glue(w, u, ack, k))
<1> DEFINE L == Len(w)
           M == Len(u)
           z == w \o u
           C == Glue(w, u, cnt, c)
           A == Glue(w, u, ack, k)
<1>1. /\ z \in Seq(Frame) /\ Len(z) = L + M /\ L \in Nat /\ M \in Nat
      /\ \A p \in 1..(L + M) : z[p] = IF p <= L THEN w[p] ELSE u[p - L]
  BY ConcatProperties
<1>2. \A p \in 0..(L + M) : /\ C[p] = IF p <= L THEN cnt[p] ELSE c[p - L]
                            /\ A[p] = IF p <= L THEN ack[p] ELSE k[p - L]
  BY <1>1 DEF Glue
<1>3. /\ cnt \in [0..L -> Nat] /\ ack \in [0..L -> Nat]
      /\ c \in [0..M -> Nat] /\ k \in [0..M -> Nat]
  BY DEF Numbers
<1>4. C \in [0..(L + M) -> Nat] /\ A \in [0..(L + M) -> Nat]
  <2>1. \A p \in 0..(L + M) : p <= L \/ p - L \in 0..M
    BY <1>1
  <2>2. QED
    BY <1>1, <1>3, <2>1 DEF Glue
<1>5. ASSUME NEW p \in 1..(L + M)
      PROVE  /\ C[p] = IF z[p].type = "I" THEN C[p-1] + 1 ELSE C[p-1]
             /\ z[p].type = "I" => z[p].ns = SeqOf(C[p-1])
             /\ z[p].type \in {"S", "I"} => z[p].nr = SeqOf(A[p])
             /\ z[p].type \notin {"S", "I"} => A[p] = A[p-1]
  <2>1. CASE p <= L
    <3>1. p \in 1..L /\ p - 1 <= L /\ p - 1 \in 0..(L + M)
      BY <1>1, <2>1
    <3>2. z[p] = w[p] /\ C[p] = cnt[p] /\ C[p-1] = cnt[p-1] /\ A[p] = ack[p] /\ A[p-1] = ack[p-1]
      BY <1>1, <1>2, <3>1
    <3> HIDE DEF C, A, z, L
    <3>3. QED
      BY <3>1, <3>2 DEF Numbers, L
  <2>2. CASE p > L
    <3> DEFINE q == p - L
    <3>1. q \in 1..M /\ p - 1 \in 0..(L + M) /\ (p - 1) - L = q - 1
      BY <1>1, <2>2
    <3>2. z[p] = u[q] /\ C[p] = c[q] /\ A[p] = k[q]
      BY <1>1, <1>2, <2>2
    <3>3. C[p-1] = c[q-1] /\ A[p-1] = k[q-1]
      <4>1. CASE q = 1
        <5>1. p - 1 = L /\ q - 1 = 0
          BY <1>1, <4>1
        <5>2. C[p-1] = cnt[L] /\ A[p-1] = ack[L]
          BY <1>1, <1>2, <3>1, <5>1
        <5>3. QED
          BY <5>1, <5>2
      <4>2. CASE q # 1
        <5>1. ~(p - 1 <= L)
          BY <1>1, <3>1, <4>2
        <5>2. QED
          BY <1>2, <3>1, <5>1
      <4>3. QED
        BY <4>1, <4>2
    <3> HIDE DEF C, A, z, M, q
    <3>4. QED
      BY <3>1, <3>2, <3>3 DEF Numbers, M
  <2>3. QED
    BY <1>1, <2>1, <2>2
<1>6. ASSUME NEW p \in 0..(L + M), NEW q \in 0..(L + M), p <= q
      PROVE  C[p] <= C[q] /\ A[p] <= A[q]
  <2>1. /\ \A i, j \in 0..L : i <= j => cnt[i] <= cnt[j] /\ ack[i] <= ack[j]
        /\ \A i, j \in 0..M : i <= j => c[i] <= c[j] /\ k[i] <= k[j]
    BY DEF Numbers
  <2>2. CASE q <= L
    BY <1>1, <1>2, <1>6, <2>1, <2>2
  <2>3. CASE p > L
    BY <1>1, <1>2, <1>6, <2>1, <2>3
  <2>4. CASE p <= L /\ q > L
    <3>1. p \in 0..L /\ L \in 0..L /\ q - L \in 0..M /\ 0 \in 0..M /\ 0 <= q - L
      BY <1>1, <2>4
    <3>2. /\ C[p] = cnt[p] /\ A[p] = ack[p] /\ C[q] = c[q - L] /\ A[q] = k[q - L]
      BY <1>1, <1>2, <2>4
    <3>3. /\ cnt[p] <= cnt[L] /\ ack[p] <= ack[L]
          /\ c[0] <= c[q - L] /\ k[0] <= k[q - L]
      BY <1>1, <2>1, <3>1
    <3>4. /\ cnt[p] \in Nat /\ cnt[L] \in Nat /\ ack[p] \in Nat /\ ack[L] \in Nat
          /\ c[q - L] \in Nat /\ k[q - L] \in Nat
      BY <1>3, <3>1
    <3> HIDE DEF C, A
    <3>5. QED
      BY <3>2, <3>3, <3>4
  <2>5. QED
    BY <1>1, <2>2, <2>3, <2>4
<1> HIDE DEF C, A, z
<1>7. QED
  BY <1>1, <1>4, <1>5, <1>6 DEF Numbers, z, C, A

LEMMA NumbersTail ==
    ASSUME NEW w \in Seq(Frame), w # <<>>,
           NEW cnt, NEW ack, Numbers(w, cnt, ack)
    PROVE  /\ Numbers(Tail(w), Shift(w, cnt), Shift(w, ack))
           /\ Shift(w, cnt)[0] = cnt[1] /\ Shift(w, ack)[0] = ack[1]
           /\ Shift(w, cnt)[Len(Tail(w))] = cnt[Len(w)]
           /\ Shift(w, ack)[Len(Tail(w))] = ack[Len(w)]
           /\ \A p \in 1..Len(Tail(w)) : Tail(w)[p] = w[p + 1] /\ Shift(w, cnt)[p] = cnt[p + 1]
<1> DEFINE L == Len(w)
           t == Tail(w)
           C == Shift(w, cnt)
           A == Shift(w, ack)
<1>1. /\ L \in Nat \ {0} /\ t \in Seq(Frame) /\ Len(t) = L - 1
      /\ \A p \in 1..(L - 1) : t[p] = w[p + 1]
  BY HeadTailProperties
<1>2. \A p \in 0..(L - 1) : C[p] = cnt[p + 1] /\ A[p] = ack[p + 1]
  BY <1>1 DEF Shift
<1>3. cnt \in [0..L -> Nat] /\ ack \in [0..L -> Nat]
  BY DEF Numbers
<1>4. C \in [0..(L - 1) -> Nat] /\ A \in [0..(L - 1) -> Nat]
  <2>1. \A p \in 0..(L - 1) : p + 1 \in 0..L
    BY <1>1
  <2>2. QED
    BY <1>1, <1>3, <2>1 DEF Shift
<1>5. ASSUME NEW p \in 1..(L - 1)
      PROVE  /\ C[p] = IF t[p].type = "I" THEN C[p-1] + 1 ELSE C[p-1]
             /\ t[p].type = "I" => t[p].ns = SeqOf(C[p-1])
             /\ t[p].type \in {"S", "I"} => t[p].nr = SeqOf(A[p])
             /\ t[p].type \notin {"S", "I"} => A[p] = A[p-1]
  <2>1. p + 1 \in 1..L /\ p \in 0..(L - 1) /\ p - 1 \in 0..(L - 1) /\ (p - 1) + 1 = (p + 1) - 1
    BY <1>1
  <2>2. /\ t[p] = w[p + 1] /\ C[p] = cnt[p + 1] /\ A[p] = ack[p + 1]
        /\ C[p-1] = cnt[(p + 1) - 1] /\ A[p-1] = ack[(p + 1) - 1]
    BY <1>1, <1>2, <2>1
  <2> DEFINE q == p + 1
  <2> HIDE DEF C, A, t, q, L
  <2>3. QED
    BY <2>1, <2>2 DEF Numbers, q, L
<1>6. ASSUME NEW p \in 0..(L - 1), NEW q \in 0..(L - 1), p <= q
      PROVE  C[p] <= C[q] /\ A[p] <= A[q]
  <2>1. \A i, j \in 0..L : i <= j => cnt[i] <= cnt[j] /\ ack[i] <= ack[j]
    BY DEF Numbers
  <2>2. QED
    BY <1>1, <1>2, <1>6, <2>1
<1>7. Numbers(t, C, A)
  <2> HIDE DEF C, A, t
  <2>1. QED
    BY <1>1, <1>4, <1>5, <1>6 DEF Numbers
<1>8. /\ C[0] = cnt[1] /\ A[0] = ack[1] /\ C[L - 1] = cnt[L] /\ A[L - 1] = ack[L]
      /\ \A p \in 1..(L - 1) : C[p] = cnt[p + 1]
  BY <1>1, <1>2
<1> HIDE DEF C, A, t
<1>9. QED
  BY <1>1, <1>7, <1>8 DEF C, A, t

-----------------------------------------------------------------------------
(* What the ends of a wire may change *)

\* The lengths of what a link keeps.
LEMMA Lengths ==
    ASSUME NEW x \in LinkType
    PROVE  /\ Len(x.sent) \in Nat /\ Len(x.rcvd) \in Nat /\ Len(x.ackqueue) \in Nat
           /\ Base(x) \in Int /\ Base(x) <= Len(x.sent)
           /\ Told(x) \in Int /\ Told(x) <= Len(x.rcvd)
<1>1. /\ x.sent \in Seq(Msg) /\ x.rcvd \in Seq(Msg) /\ x.ackqueue \in Seq(Unacked)
      /\ x.vapeer \in SeqNo /\ x.vr \in SeqNo
  BY DEF LinkType
<1>2. Len(x.sent) \in Nat /\ Len(x.rcvd) \in Nat /\ Len(x.ackqueue) \in Nat
  BY <1>1
<1>3. Dist(x.vapeer, x.vr) \in Nat
  BY <1>1, DistCases, SeqNoRange
<1>4. \A m, n \in Nat : m - n \in Int /\ m - n <= m
  OBVIOUS
<1>5. QED
  BY <1>2, <1>3, <1>4 DEF Base, Told

\* The reader sent more, and users were given more.
LEMMA ReaderGrows ==
    ASSUME NEW b \in LinkType, NEW r \in LinkType, NEW S, NEW T, S \subseteq T,
           r.rcvd = b.rcvd, Base(r) = Base(b), Len(b.sent) <= Len(r.sent),
           \A j \in 1..Len(b.sent) : r.sent[j] = b.sent[j],
           NEW w \in Seq(Frame)
    PROVE  /\ Readable(b, w, S) => Readable(r, w, T)
           /\ \A a : Flow(a, b, w, S) => Flow(a, r, w, T)
<1>1. /\ Len(b.sent) \in Nat /\ Len(r.sent) \in Nat /\ Len(w) \in Nat
  BY Lengths
<1>2. ASSUME NEW cnt, NEW ack, Numbers(w, cnt, ack), ReadBy(b, w, S, cnt, ack)
      PROVE  ReadBy(r, w, T, cnt, ack)
  <2>1. ack[Len(w)] \in Nat
    BY <1>1, <1>2 DEF Numbers
  <2>2. \A j \in 1..ack[Len(w)] : j \in 1..Len(b.sent) /\ b.sent[j] \in T
    BY <1>1, <1>2, <2>1 DEF ReadBy
  <2>3. ack[Len(w)] <= Len(r.sent)
    BY <1>1, <1>2, <2>1 DEF ReadBy
  <2>4. QED
    BY <1>2, <2>2, <2>3 DEF ReadBy
<1>3. Readable(b, w, S) => Readable(r, w, T)
  BY <1>2 DEF Readable
<1>4. ASSUME NEW a, Flow(a, b, w, S)
      PROVE  Flow(a, r, w, T)
  <2>1. PICK cnt, ack : Numbers(w, cnt, ack) /\ ReadBy(b, w, S, cnt, ack)
                        /\ WrittenBy(a, b, w, cnt, ack)
    BY <1>4 DEF Flow
  <2>2. ReadBy(r, w, T, cnt, ack)
    BY <1>2, <2>1
  <2>3. WrittenBy(a, r, w, cnt, ack)
    BY <2>1 DEF WrittenBy
  <2>4. QED
    BY <2>1, <2>2, <2>3 DEF Flow
<1>5. QED
  BY <1>3, <1>4

\* What the writer sent and received stays the same.
LEMMA WriterSame ==
    ASSUME NEW a, NEW r, r.sent = a.sent, r.rcvd = a.rcvd, Told(r) = Told(a),
           NEW b, NEW w, NEW S, Flow(a, b, w, S)
    PROVE  Flow(r, b, w, S)
BY DEF Flow, WrittenBy

\* What the reader sent and received stays the same.
LEMMA ReadableSame ==
    ASSUME NEW b, NEW r, r.sent = b.sent, Len(r.rcvd) = Len(b.rcvd), Base(r) = Base(b),
           NEW w, NEW S, Readable(b, w, S)
    PROVE  Readable(r, w, S)
BY DEF Readable, ReadBy

LEMMA ReaderSame ==
    ASSUME NEW b, NEW r, r.sent = b.sent, r.rcvd = b.rcvd, Base(r) = Base(b),
           NEW w, NEW S, NEW a, Flow(a, b, w, S)
    PROVE  Flow(a, r, w, S)
<1>1. PICK cnt, ack : Numbers(w, cnt, ack) /\ ReadBy(b, w, S, cnt, ack)
                      /\ WrittenBy(a, b, w, cnt, ack)
  BY DEF Flow
<1>2. ReadBy(r, w, S, cnt, ack)
  BY <1>1 DEF ReadBy
<1>3. WrittenBy(a, r, w, cnt, ack)
  BY <1>1 DEF WrittenBy
<1>4. QED
  BY <1>1, <1>2, <1>3 DEF Flow

\* An U frame is written.
LEMMA FlowU ==
    ASSUME NEW a, NEW b, NEW w \in Seq(Frame), NEW S, Flow(a, b, w, S),
           NEW f \in Frame, f.type \in UType
    PROVE  Flow(a, b, Append(w, f), S)
<1> DEFINE u == <<f>>
           L == Len(w)
<1>1. PICK cnt, ack : Numbers(w, cnt, ack) /\ ReadBy(b, w, S, cnt, ack)
                      /\ WrittenBy(a, b, w, cnt, ack)
  BY DEF Flow
<1> DEFINE c == [p \in 0..1 |-> cnt[L]]
           k == [p \in 0..1 |-> ack[L]]
           C == Glue(w, u, cnt, c)
           A == Glue(w, u, ack, k)
<1>2. u \in Seq(Frame) /\ Len(u) = 1 /\ u[1] = f /\ L \in Nat /\ f.type \notin {"S", "I"}
  BY DEF UType
<1>3. cnt[L] \in Nat /\ ack[L] \in Nat
  BY <1>1, <1>2 DEF Numbers
<1>4. Numbers(u, c, k)
  <2>1. c \in [0..1 -> Nat] /\ k \in [0..1 -> Nat]
    BY <1>3
  <2>2. c[0] = cnt[L] /\ c[1] = cnt[L] /\ k[0] = ack[L] /\ k[1] = ack[L]
    OBVIOUS
  <2>3. \A p, q \in 0..1 : c[p] <= c[q] /\ k[p] <= k[q]
    BY <1>3
  <2>4. \A p \in 1..1 : p = 1
    OBVIOUS
  <2> HIDE DEF c, k, u
  <2>5. QED
    BY <1>2, <2>1, <2>2, <2>3, <2>4 DEF Numbers
<1>5. Numbers(w \o u, C, A)
  <2>1. c[0] = cnt[L] /\ k[0] = ack[L]
    OBVIOUS
  <2> HIDE DEF c, k, u
  <2>2. QED
    BY <1>1, <1>2, <1>4, <2>1, NumbersGlue
<1>6. /\ Len(w \o u) = L + 1 /\ w \o u = Append(w, f)
      /\ \A p \in 1..L : (w \o u)[p] = w[p]
      /\ (w \o u)[L + 1] = f
  BY <1>2, AppendIsConcat, AppendProperties
<1>7. /\ C[0] = cnt[0] /\ A[0] = ack[0] /\ C[L + 1] = cnt[L] /\ A[L + 1] = ack[L]
      /\ \A p \in 1..L : C[p] = cnt[p]
  BY <1>2, <1>6 DEF Glue
<1> HIDE DEF C, A, u
<1>8. ReadBy(b, w \o u, S, C, A)
  BY <1>1, <1>6, <1>7 DEF ReadBy
<1>9. WrittenBy(a, b, w \o u, C, A)
  <2>1. \A p \in 1..(L + 1) : p \in 1..L \/ p = L + 1
    BY <1>2
  <2>2. \A p \in 1..(L + 1) : (w \o u)[p].type = "I" => (w \o u)[p].msg = a.sent[C[p]]
    BY <1>1, <1>2, <1>6, <1>7, <2>1 DEF WrittenBy
  <2>3. QED
    BY <1>1, <1>6, <1>7, <2>2 DEF WrittenBy
<1>10. QED
  BY <1>5, <1>6, <1>8, <1>9 DEF Flow

\* S or I frames are written: they acknowledge all that the writer received.
LEMMA FlowSI ==
    ASSUME NEW a \in LinkType, NEW r \in LinkType, NEW b \in LinkType,
           r.rcvd = a.rcvd, Len(a.sent) <= Len(r.sent),
           \A j \in 1..Len(a.sent) : r.sent[j] = a.sent[j],
           NEW w \in Seq(Frame), NEW S, Flow(a, b, w, S),
           NEW u \in Seq(Frame), u # <<>>,
           NEW c \in [0..Len(u) -> Nat],
           c[0] = Len(a.sent), c[Len(u)] = Len(r.sent),
           \A p, q \in 0..Len(u) : p <= q => c[p] <= c[q],
           \A p \in 1..Len(u) :
               /\ u[p].nr = SeqOf(Len(a.rcvd))
               /\ \/ u[p].type = "S" /\ c[p] = c[p-1]
                  \/ u[p].type = "I" /\ c[p] = c[p-1] + 1
                     /\ u[p].ns = SeqOf(c[p-1]) /\ u[p].msg = r.sent[c[p]],
           Len(a.rcvd) <= Len(b.sent),
           \A j \in 1..Len(a.rcvd) : b.sent[j] \in S
    PROVE  Flow(r, b, w \o u, S)
<1> DEFINE L == Len(w)
           M == Len(u)
<1>1. PICK cnt, ack : Numbers(w, cnt, ack) /\ ReadBy(b, w, S, cnt, ack)
                      /\ WrittenBy(a, b, w, cnt, ack)
  BY DEF Flow
<1> DEFINE k == [p \in 0..M |-> IF p = 0 THEN ack[L] ELSE Len(a.rcvd)]
           C == Glue(w, u, cnt, c)
           A == Glue(w, u, ack, k)
<1>2. /\ L \in Nat /\ M \in Nat \ {0}
      /\ Len(a.sent) \in Nat /\ Len(a.rcvd) \in Nat /\ Len(b.rcvd) \in Nat /\ Len(r.sent) \in Nat
  BY Lengths, EmptySeq
<1>3. /\ cnt \in [0..L -> Nat] /\ ack \in [0..L -> Nat] /\ ack[L] \in Nat /\ cnt[L] \in Nat
      /\ cnt[L] = Len(a.sent) /\ ack[L] <= Len(a.rcvd)
  BY <1>1, <1>2 DEF Numbers, WrittenBy
<1>4. Numbers(u, c, k)
  <2>1. k \in [0..M -> Nat]
    BY <1>2, <1>3
  <2>2. \A p \in 1..M : p # 0 /\ p \in 0..M /\ k[p] = Len(a.rcvd)
    BY <1>2
  <2>3. \A p, q \in 0..M : p <= q => k[p] <= k[q]
    BY <1>2, <1>3
  <2> HIDE DEF k
  <2>4. QED
    BY <2>1, <2>2, <2>3 DEF Numbers
<1>5. k[0] = ack[L] /\ k[M] = Len(a.rcvd)
  BY <1>2
<1> HIDE DEF k
<1>6. Numbers(w \o u, C, A)
  BY <1>1, <1>3, <1>4, <1>5, NumbersGlue
<1>7. /\ Len(w \o u) = L + M
      /\ \A p \in 1..(L + M) : (w \o u)[p] = IF p <= L THEN w[p] ELSE u[p - L]
  BY <1>2, ConcatProperties
<1>8. /\ C[0] = cnt[0] /\ A[0] = ack[0]
      /\ C[L + M] = Len(r.sent) /\ A[L + M] = Len(a.rcvd)
      /\ \A p \in 1..(L + M) : C[p] = IF p <= L THEN cnt[p] ELSE c[p - L]
  BY <1>2, <1>5, <1>7 DEF Glue
<1> HIDE DEF C, A
<1>9. ReadBy(b, w \o u, S, C, A)
  BY <1>1, <1>7, <1>8 DEF ReadBy
<1>10. ASSUME NEW p \in 1..(L + M), (w \o u)[p].type = "I"
       PROVE  (w \o u)[p].msg = r.sent[C[p]]
  <2>1. CASE p <= L
    <3>1. /\ p \in 1..L /\ w[p].type = "I" /\ (w \o u)[p] = w[p] /\ C[p] = cnt[p]
      BY <1>2, <1>7, <1>8, <1>10, <2>1
    <3>2. /\ cnt[p] \in Nat /\ cnt[p-1] \in Nat /\ cnt[p] = cnt[p-1] + 1 /\ cnt[p] <= cnt[L]
      <4>1. p \in 0..L /\ p - 1 \in 0..L /\ L \in 0..L /\ p <= L
        BY <1>2, <3>1
      <4>2. /\ \A q \in 1..L : w[q].type = "I" => cnt[q] = cnt[q-1] + 1
            /\ \A q, s \in 0..L : q <= s => cnt[q] <= cnt[s]
        BY <1>1 DEF Numbers
      <4>3. QED
        BY <1>3, <3>1, <4>1, <4>2
    <3>3. cnt[p] \in 1..Len(a.sent)
      BY <1>2, <1>3, <3>2
    <3>4. w[p].msg = a.sent[cnt[p]]
      BY <1>1, <3>1 DEF WrittenBy
    <3>5. QED
      BY <3>1, <3>3, <3>4
  <2>2. CASE p > L
    <3>1. p - L \in 1..M /\ (w \o u)[p] = u[p - L] /\ C[p] = c[p - L]
      BY <1>2, <1>7, <1>8, <2>2
    <3>2. QED
      BY <1>10, <3>1
  <2>3. QED
    BY <1>2, <2>1, <2>2
<1>11. ASSUME NEW j \in 1..Len(b.rcvd)
       PROVE  b.rcvd[j] = r.sent[j]
  <2>1. cnt[0] = Len(b.rcvd) /\ cnt[0] <= cnt[L]
    BY <1>1, <1>2 DEF Numbers, ReadBy
  <2>2. j \in 1..Len(a.sent)
    BY <1>2, <1>3, <2>1
  <2>3. b.rcvd[j] = a.sent[j]
    BY <1>1 DEF WrittenBy
  <2>4. QED
    BY <2>2, <2>3
<1>12. WrittenBy(r, b, w \o u, C, A)
  <2>1. Told(r) <= Len(a.rcvd)
    BY Lengths
  <2>2. QED
    BY <1>2, <1>7, <1>8, <1>10, <1>11, <2>1 DEF WrittenBy
<1>13. QED
  BY <1>6, <1>9, <1>12 DEF Flow
-----------------------------------------------------------------------------
(* Steps of one link *)

\* ConcatProperties for messages, and for what waits in an ack queue.
LEMMA JoinedMsgs ==
    /\ \A q, t \in Seq(Msg) :
         /\ q \o t \in Seq(Msg) /\ Len(q \o t) = Len(q) + Len(t)
         /\ \A j \in 1..(Len(q) + Len(t)) :
                (q \o t)[j] = IF j <= Len(q) THEN q[j] ELSE t[j - Len(q)]
    /\ \A q, t \in Seq(Unacked) :
         /\ q \o t \in Seq(Unacked) /\ Len(q \o t) = Len(q) + Len(t)
         /\ \A j \in 1..(Len(q) + Len(t)) :
                (q \o t)[j] = IF j <= Len(q) THEN q[j] ELSE t[j - Len(q)]
BY ConcatProperties

\* ConcatAssociative for frames.
LEMMA JoinedFrames ==
    \A q, t, u \in Seq(Frame) : (q \o t) \o u = q \o (t \o u)
BY ConcatAssociative

\* Writing one more frame after those of a step.
LEMMA OneMoreFrame ==
    ASSUME NEW q \in Seq(Frame), NEW t \in Seq(Frame), NEW f \in Frame
    PROVE  /\ Append(q \o t, f) = q \o Append(t, f)
           /\ (q \o t) \o <<f>> = q \o Append(t, f)
<1>1. q \o t \in Seq(Frame) /\ <<f>> \in Seq(Frame)
  BY ConcatProperties
<1>2. Append(q \o t, f) = (q \o t) \o <<f>> /\ Append(t, f) = t \o <<f>>
  BY <1>1, AppendIsConcat
<1>3. QED
  BY <1>1, <1>2, ConcatAssociative

\* Link l, before which the frames v are waiting, becomes r, before which
\* the frames u are: what could be read still can, and a sound exchange with
\* any other end goes on being sound.  Nothing is acknowledged that was not
\* seen.
Moves(l, v, r, u) ==
    /\ l.seen \subseteq r.seen
    /\ \A T : r.seen \subseteq T /\ Readable(l, v, T) =>
           Readable(r, u, T) /\ r.acked \subseteq l.acked \cup T
    /\ \A b \in LinkType, w \in Seq(Frame) : \A T :
           (r.seen \subseteq T /\ Flow(l, b, w \o l.tx, T) /\ Flow(b, l, v, T))
           => Flow(r, b, w \o r.tx, T) /\ Flow(b, r, u, T)

\* One step after another.
LEMMA MovesTwice ==
    ASSUME NEW l, NEW v, NEW r, NEW u, NEW s, NEW x,
           Moves(l, v, r, u), Moves(r, u, s, x)
    PROVE  Moves(l, v, s, x)
<1>1. l.seen \subseteq r.seen /\ r.seen \subseteq s.seen
  BY DEF Moves
<1>2. ASSUME NEW T, s.seen \subseteq T, Readable(l, v, T)
      PROVE  Readable(s, x, T) /\ s.acked \subseteq l.acked \cup T
  <2>1. Readable(r, u, T) /\ r.acked \subseteq l.acked \cup T
    BY <1>1, <1>2 DEF Moves
  <2>2. Readable(s, x, T) /\ s.acked \subseteq r.acked \cup T
    BY <1>2, <2>1 DEF Moves
  <2>3. QED
    BY <2>1, <2>2
<1>3. ASSUME NEW b \in LinkType, NEW w \in Seq(Frame), NEW T, s.seen \subseteq T,
             Flow(l, b, w \o l.tx, T), Flow(b, l, v, T)
      PROVE  Flow(s, b, w \o s.tx, T) /\ Flow(b, s, x, T)
  <2>1. Flow(r, b, w \o r.tx, T) /\ Flow(b, r, u, T)
    BY <1>1, <1>3 DEF Moves
  <2>2. QED
    BY <1>3, <2>1 DEF Moves
<1>4. QED
  BY <1>1, <1>2, <1>3 DEF Moves

\* The counts do not move and nothing is written.
LEMMA SameCounts ==
    ASSUME NEW l \in LinkType, NEW r \in LinkType, NEW v \in Seq(Frame),
           r.sent = l.sent, r.rcvd = l.rcvd, Base(r) = Base(l), Told(r) = Told(l),
           r.tx = l.tx, r.seen = l.seen, r.acked = l.acked
    PROVE  Moves(l, v, r, v)
<1>1. ASSUME NEW T, Readable(l, v, T)
      PROVE  Readable(r, v, T) /\ r.acked \subseteq l.acked \cup T
  BY <1>1, ReadableSame
<1>2. ASSUME NEW b, NEW w, NEW T, Flow(l, b, w \o l.tx, T), Flow(b, l, v, T)
      PROVE  Flow(r, b, w \o r.tx, T) /\ Flow(b, r, v, T)
  <2>1. Flow(r, b, w \o r.tx, T)
    BY <1>2, WriterSame
  <2>2. Flow(b, r, v, T)
    BY <1>2, ReaderSame
  <2>3. QED
    BY <2>1, <2>2
<1>3. QED
  BY <1>1, <1>2 DEF Moves

\* r differs from l in nothing the counts speak of, and at most one U frame
\* was written.
Mute(l, r) ==
    /\ Calm(l, r)
    /\ r.acked = l.acked /\ r.acklost = l.acklost /\ r.purged = l.purged
    /\ r.seen = l.seen /\ r.nberr = l.nberr
    /\ r.tx = l.tx \/ \E f \in Frame : f.type \in UType /\ r.tx = Append(l.tx, f)

\* A mute step keeps the counts and is a move.
LEMMA MuteMoves ==
    ASSUME NEW l \in LinkType, CountInv(l), NEW r, Mute(l, r), NEW v \in Seq(Frame)
    PROVE  CountInv(r) /\ Moves(l, v, r, v)
<1>1. /\ r \in LinkType
      /\ r.va = l.va /\ r.vs = l.vs /\ r.ackqueue = l.ackqueue
      /\ r.vr = l.vr /\ r.vapeer = l.vapeer /\ r.conn = l.conn
      /\ r.sent = l.sent /\ r.rcvd = l.rcvd
      /\ r.acked = l.acked /\ r.seen = l.seen /\ r.nberr = l.nberr
  BY DEF Mute, Calm
<1>2. Base(r) = Base(l) /\ Told(r) = Told(l)
  BY <1>1 DEF Base, Told
<1>3. CountInv(r)
  BY <1>1, <1>2 DEF CountInv
<1>4. CASE r.tx = l.tx
  BY <1>1, <1>2, <1>3, <1>4, SameCounts
<1>5. CASE r.tx # l.tx
  <2>1. PICK f \in Frame : f.type \in UType /\ r.tx = Append(l.tx, f)
    BY <1>5 DEF Mute
  <2>2. ASSUME NEW T, Readable(l, v, T)
        PROVE  Readable(r, v, T) /\ r.acked \subseteq l.acked \cup T
    BY <1>1, <1>2, <2>2 DEF Readable, ReadBy
  <2>3. ASSUME NEW b, NEW w \in Seq(Frame), NEW T, Flow(l, b, w \o l.tx, T), Flow(b, l, v, T)
        PROVE  Flow(r, b, w \o r.tx, T) /\ Flow(b, r, v, T)
    <3>1. l.tx \in Seq(Frame) /\ w \o l.tx \in Seq(Frame)
      BY DEF LinkType
    <3>2. Flow(r, b, w \o l.tx, T)
      BY <1>1, <1>2, <2>3, WriterSame
    <3>3. Flow(r, b, Append(w \o l.tx, f), T)
      BY <2>1, <3>1, <3>2, FlowU
    <3>4. Append(w \o l.tx, f) = w \o r.tx
      <4>1. Append(w \o l.tx, f) = w \o Append(l.tx, f)
        BY <2>1, <3>1, OneMoreFrame
      <4>2. QED
        BY <2>1, <4>1
    <3>5. Flow(b, r, v, T)
      BY <1>1, <1>2, <2>3, ReaderSame
    <3>6. QED
      BY <3>3, <3>4, <3>5
  <2>4. Moves(l, v, r, v)
    BY <1>1, <2>2, <2>3 DEF Moves
  <2>5. QED
    BY <1>3, <2>4
<1>6. QED
  BY <1>4, <1>5
-----------------------------------------------------------------------------
(* What a link received was sent to it, and its users were given it *)

LEMMA ReceivedWasSent ==
    ASSUME NEW l \in LinkType, CountInv(l), NEW b \in LinkType,
           NEW v \in Seq(Frame), NEW T, l.seen \subseteq T, Flow(b, l, v, T)
    PROVE  /\ Len(l.rcvd) <= Len(b.sent)
           /\ \A j \in 1..Len(l.rcvd) : b.sent[j] \in T
<1>1. PICK cnt, ack : Numbers(v, cnt, ack) /\ ReadBy(l, v, T, cnt, ack)
                      /\ WrittenBy(b, l, v, cnt, ack)
  BY DEF Flow
<1>2. Len(v) \in Nat /\ 0 \in 0..Len(v) /\ Len(v) \in 0..Len(v) /\ 0 <= Len(v)
  OBVIOUS
<1>3. cnt[0] <= cnt[Len(v)]
  BY <1>1, <1>2 DEF Numbers
<1>4. cnt[0] = Len(l.rcvd) /\ cnt[Len(v)] = Len(b.sent)
  BY <1>1 DEF ReadBy, WrittenBy
<1>5. \A j \in 1..Len(l.rcvd) : l.rcvd[j] = b.sent[j] /\ l.rcvd[j] \in T
  BY <1>1 DEF WrittenBy, CountInv
<1>6. QED
  BY <1>3, <1>4, <1>5

\* LapSendFrameS tells the other end of all that was received.
LEMMA SendSMoves ==
    ASSUME NEW l \in LinkType, CountInv(l), l.conn, l.fd, NEW v \in Seq(Frame)
    PROVE  LET r == LapSendFrameS(l)
           IN  /\ r \in LinkType /\ CountInv(r) /\ Moves(l, v, r, v)
               /\ r.fd = l.fd /\ r.conn = l.conn /\ r.tobedisc = l.tobedisc
<1> DEFINE f == SFrame(l.vr)
           x == Append(l.tx, f)
           r == [l EXCEPT !.vapeer = l.vr, !.tx = x]
           u == <<f>>
<1>1. LapSendFrameS(l) = r
  BY DEF LapSendFrameS, Write, LinkType
<1>2. /\ l.vr \in SeqNo /\ f \in Frame /\ f.type = "S" /\ f.nr = l.vr
      /\ l.tx \in Seq(Frame) /\ x \in Seq(Frame)
  BY SFrameType DEF LinkType, SFrame
<1> HIDE DEF f, x
<1>3. /\ r \in LinkType
      /\ r.va = l.va /\ r.vs = l.vs /\ r.ackqueue = l.ackqueue
      /\ r.vr = l.vr /\ r.vapeer = l.vr
      /\ r.fd = l.fd /\ r.conn = l.conn /\ r.tobedisc = l.tobedisc
      /\ r.sent = l.sent /\ r.rcvd = l.rcvd
      /\ r.acked = l.acked /\ r.seen = l.seen /\ r.nberr = l.nberr /\ r.tx = x
  BY <1>2 DEF LinkType
<1>4. Base(r) = Base(l) /\ Told(r) = Len(l.rcvd) /\ Len(l.rcvd) \in Nat /\ Len(l.sent) \in Nat
  <2>1. Dist(l.vr, l.vr) = 0
    BY <1>2, DistSelf
  <2>2. QED
    BY <1>3, <2>1, Lengths DEF Base, Told
<1> HIDE DEF r
<1>5. CountInv(r)
  BY <1>3, <1>4 DEF CountInv
<1>6. ASSUME NEW T, Readable(l, v, T)
      PROVE  Readable(r, v, T) /\ r.acked \subseteq l.acked \cup T
  BY <1>3, <1>4, <1>6 DEF Readable, ReadBy
<1>7. ASSUME NEW b \in LinkType, NEW w \in Seq(Frame), NEW T, r.seen \subseteq T,
             Flow(l, b, w \o l.tx, T), Flow(b, l, v, T)
      PROVE  Flow(r, b, w \o r.tx, T) /\ Flow(b, r, v, T)
  <2>1. w \o l.tx \in Seq(Frame)
    BY <1>2
  <2>2. /\ Len(l.rcvd) <= Len(b.sent)
        /\ \A j \in 1..Len(l.rcvd) : b.sent[j] \in T
    BY <1>3, <1>7, ReceivedWasSent
  <2> DEFINE c == [p \in 0..1 |-> Len(l.sent)]
  <2>3. u \in Seq(Frame) /\ Len(u) = 1 /\ u # <<>> /\ u[1] = f
    BY <1>2
  <2>4. c \in [0..1 -> Nat] /\ c[0] = Len(l.sent) /\ c[1] = Len(l.sent)
        /\ \A p, q \in 0..1 : p <= q => c[p] <= c[q]
    BY <1>4
  <2>5. \A p \in 1..1 : u[p].nr = SeqOf(Len(l.rcvd)) /\ u[p].type = "S" /\ c[p] = c[p-1]
    BY <1>2, <2>3, <2>4 DEF CountInv
  <2> HIDE DEF c, u
  <2>6. Flow(r, b, (w \o l.tx) \o u, T)
    <3>1. /\ r.rcvd = l.rcvd /\ Len(l.sent) <= Len(r.sent)
          /\ \A j \in 1..Len(l.sent) : r.sent[j] = l.sent[j]
      BY <1>3, <1>4
    <3>2. /\ c \in [0..Len(u) -> Nat] /\ c[0] = Len(l.sent) /\ c[Len(u)] = Len(r.sent)
          /\ \A p, q \in 0..Len(u) : p <= q => c[p] <= c[q]
      BY <1>3, <2>3, <2>4
    <3>3. \A p \in 1..Len(u) :
             /\ u[p].nr = SeqOf(Len(l.rcvd))
             /\ \/ u[p].type = "S" /\ c[p] = c[p-1]
                \/ u[p].type = "I" /\ c[p] = c[p-1] + 1
                   /\ u[p].ns = SeqOf(c[p-1]) /\ u[p].msg = r.sent[c[p]]
      BY <2>3, <2>5
    <3>4. QED
      BY <1>3, <1>7, <2>1, <2>2, <2>3, <3>1, <3>2, <3>3, FlowSI
  <2>7. (w \o l.tx) \o u = w \o r.tx
    <3>1. (w \o l.tx) \o <<f>> = w \o Append(l.tx, f)
      BY <1>2, OneMoreFrame
    <3>2. QED
      BY <1>3, <3>1 DEF x, u
  <2>8. Flow(b, r, v, T)
    BY <1>3, <1>4, <1>7, ReaderSame
  <2>9. QED
    BY <2>6, <2>7, <2>8
<1>8. QED
  BY <1>1, <1>3, <1>5, <1>6, <1>7 DEF Moves

\* LapRunOutQueue: the messages sent go on the wire in order, numbered on.
LEMMA SendFirstMoves ==
    ASSUME NEW l, LinkInv(l), CountInv(l), l.conn, NEW n \in 0..Len(l.outqueue),
           Len(l.ackqueue) + n <= K, NEW v \in Seq(Frame)
    PROVE  CountInv(SendFirst(l, n)) /\ Moves(l, v, SendFirst(l, n), v)
<1> DEFINE fs  == [j \in 1..n |-> IFrame(Advance(l.vs, j-1), l.vr, l.outqueue[j])]
           ms  == [j \in 1..n |->
                     [msg |-> l.outqueue[j], ns |-> Advance(l.vs, j-1), age |-> 0]]
           x   == l.tx \o fs
           a   == l.ackqueue \o ms
           o   == SubSeq(l.outqueue, n+1, Len(l.outqueue))
           h   == SubSeq(l.outqueue, 1, n)
           s   == l.sent \o h
           d   == Advance(l.vs, n)
           r   == [l EXCEPT !.tx = x, !.ackqueue = a, !.outqueue = o,
                            !.sent = s, !.vs = d]
           S   == Len(l.sent)
           Q   == Len(l.ackqueue)
<1>1. /\ l \in LinkType
      /\ l.vs \in SeqNo /\ l.vr \in SeqNo
      /\ l.outqueue \in Seq(Msg) /\ Len(l.outqueue) \in Nat
      /\ l.ackqueue \in Seq(Unacked) /\ Q \in Nat
      /\ l.tx \in Seq(Frame) /\ l.sent \in Seq(Msg) /\ S \in Nat
      /\ l.rcvd \in Seq(Msg) /\ Len(l.rcvd) \in Nat
  BY DEF LinkInv, LinkType
<1>2. n \in Nat /\ n \in 0..N /\ N \in Nat
  BY <1>1, WindowAssumption, NAssumption
<1>3. /\ Base(l) \in Nat /\ Base(l) = S - Q /\ l.vs = SeqOf(S) /\ l.vr = SeqOf(Len(l.rcvd))
  BY DEF CountInv, Base
<1>4. ASSUME NEW j \in 1..n
      PROVE  /\ Advance(l.vs, j-1) \in SeqNo /\ Advance(l.vs, j-1) = SeqOf(S + (j-1))
             /\ l.outqueue[j] \in Msg
  <2>1. j - 1 \in 0..N /\ j \in 1..Len(l.outqueue)
    BY <1>1, <1>2, NAssumption
  <2>2. Advance(l.vs, j-1) \in SeqNo
    BY <1>1, <2>1, AdvanceCases
  <2>3. SeqOf(S + (j-1)) = Advance(SeqOf(S), j-1)
    <3> HIDE DEF S
    <3>1. QED
      BY <1>1, <2>1, CountAdvance
  <2>4. QED
    BY <1>1, <1>3, <2>1, <2>2, <2>3
<1>5. /\ fs \in Seq(Frame) /\ Len(fs) = n
      /\ \A j \in 1..n : /\ fs[j].type = "I" /\ fs[j].ns = SeqOf(S + (j-1))
                         /\ fs[j].nr = l.vr /\ fs[j].msg = l.outqueue[j]
  <2>1. \A j \in 1..n : IFrame(Advance(l.vs, j-1), l.vr, l.outqueue[j]) \in Frame
    BY <1>1, <1>4, IFrameType
  <2>2. fs \in Seq(Frame) /\ Len(fs) = n
    BY <1>2, <2>1
  <2>3. QED
    BY <1>4, <2>2 DEF IFrame
<1>6. /\ ms \in Seq(Unacked) /\ Len(ms) = n
      /\ \A j \in 1..n : ms[j].msg = l.outqueue[j]
  <2>1. n <= N
    BY <1>2
  <2>2. QED
    BY <2>1, SentMessages
<1>7. /\ h \in Seq(Msg) /\ Len(h) = n
      /\ \A j \in 1..n : h[j] = l.outqueue[j]
  BY <1>1, <1>2
<1> HIDE DEF fs, ms, h
<1>8. /\ s \in Seq(Msg) /\ Len(s) = S + n
      /\ \A j \in 1..(S + n) : s[j] = IF j <= S THEN l.sent[j] ELSE l.outqueue[j - S]
  <2>1. /\ s \in Seq(Msg) /\ Len(s) = S + n
        /\ \A j \in 1..(S + n) : s[j] = IF j <= S THEN l.sent[j] ELSE h[j - S]
    <3>1. /\ s \in Seq(Msg) /\ Len(s) = Len(l.sent) + Len(h)
          /\ \A j \in 1..(Len(l.sent) + Len(h)) :
                s[j] = IF j <= Len(l.sent) THEN l.sent[j] ELSE h[j - Len(l.sent)]
      BY <1>1, <1>7, JoinedMsgs
    <3>2. QED
      BY <1>7, <3>1
  <2>2. \A j \in 1..(S + n) : ~(j <= S) => j - S \in 1..n
    BY <1>1, <1>2
  <2> HIDE DEF s, S
  <2>3. QED
    BY <1>7, <2>1, <2>2
<1>9. /\ a \in Seq(Unacked) /\ Len(a) = Q + n
      /\ \A j \in 1..(Q + n) : a[j].msg = IF j <= Q THEN l.ackqueue[j].msg ELSE l.outqueue[j - Q]
  <2>1. /\ a \in Seq(Unacked) /\ Len(a) = Q + n
        /\ \A j \in 1..(Q + n) : a[j] = IF j <= Q THEN l.ackqueue[j] ELSE ms[j - Q]
    <3>1. /\ a \in Seq(Unacked) /\ Len(a) = Len(l.ackqueue) + Len(ms)
          /\ \A j \in 1..(Len(l.ackqueue) + Len(ms)) :
                a[j] = IF j <= Len(l.ackqueue) THEN l.ackqueue[j] ELSE ms[j - Len(l.ackqueue)]
      BY <1>1, <1>6, JoinedMsgs
    <3>2. QED
      BY <1>6, <3>1
  <2>2. \A j \in 1..(Q + n) : ~(j <= Q) => j - Q \in 1..n
    BY <1>1, <1>2
  <2> HIDE DEF a, Q
  <2>3. QED
    BY <1>6, <2>1, <2>2
<1>10. x \in Seq(Frame) /\ o \in Seq(Msg) /\ d \in SeqNo
  BY <1>1, <1>2, <1>5, AdvanceCases
<1>11. SendFirst(l, n) = r
  BY DEF SendFirst, fs, ms, h
<1> HIDE DEF x, a, o, s, d
<1>12. /\ r \in LinkType
       /\ r.ackqueue = a /\ r.vs = d /\ r.va = l.va /\ r.tx = x
       /\ r.vr = l.vr /\ r.vapeer = l.vapeer /\ r.conn = l.conn
       /\ r.sent = s /\ r.rcvd = l.rcvd
       /\ r.acked = l.acked /\ r.seen = l.seen /\ r.nberr = l.nberr
  BY <1>1, <1>8, <1>9, <1>10 DEF LinkType
<1> HIDE DEF r
<1>13. Base(r) = Base(l) /\ Told(r) = Told(l)
  <2>1. (S + n) - (Q + n) = S - Q
    BY <1>1, <1>2
  <2>2. QED
    BY <1>8, <1>9, <1>12, <2>1 DEF Base, Told
<1>14. /\ r.rcvd = l.rcvd /\ Len(l.sent) <= Len(r.sent)
       /\ \A j \in 1..Len(l.sent) : r.sent[j] = l.sent[j]
  BY <1>1, <1>2, <1>8, <1>12
<1>15. CountInv(r)
  <2>1. d = SeqOf(S + n)
    BY <1>1, <1>2, <1>3, CountAdvance DEF d
  <2>2. ASSUME NEW j \in 1..Len(a)
        PROVE  a[j].msg = s[Base(l) + j]
    <3>0. /\ S \in Nat /\ Q \in Nat /\ n \in Nat /\ Base(l) \in Nat /\ Base(l) = S - Q
          /\ Len(a) = Q + n /\ j \in 1..(Q + n)
      BY <1>1, <1>2, <1>3, <1>9
    <3> HIDE DEF S, Q
    <3>1. CASE j <= Q
      <4>1. j \in 1..Q /\ Base(l) + j \in 1..(S + n) /\ Base(l) + j <= S
        BY <3>0, <3>1
      <4>2. a[j].msg = l.ackqueue[j].msg /\ s[Base(l) + j] = l.sent[Base(l) + j]
        BY <1>8, <1>9, <3>1, <4>1
      <4>3. QED
        BY <4>1, <4>2 DEF CountInv, Q
    <3>2. CASE j > Q
      <4>1. /\ Base(l) + j \in 1..(S + n) /\ ~(Base(l) + j <= S) /\ (Base(l) + j) - S = j - Q
            /\ ~(j <= Q) /\ j \in 1..(Q + n)
        BY <3>0, <3>2
      <4>2. a[j].msg = l.outqueue[j - Q] /\ s[Base(l) + j] = l.outqueue[(Base(l) + j) - S]
        BY <1>8, <1>9, <4>1
      <4>3. QED
        BY <4>1, <4>2
    <3>3. QED
      BY <3>0, <3>1, <3>2
  <2>3. QED
    BY <1>8, <1>12, <1>13, <2>1, <2>2 DEF CountInv
<1>16. ASSUME NEW T, Readable(l, v, T)
       PROVE  Readable(r, v, T) /\ r.acked \subseteq l.acked \cup T
  BY <1>1, <1>12, <1>13, <1>14, <1>16, ReaderGrows
<1>17. ASSUME NEW b \in LinkType, NEW w \in Seq(Frame), NEW T, r.seen \subseteq T,
              Flow(l, b, w \o l.tx, T), Flow(b, l, v, T)
       PROVE  Flow(r, b, w \o r.tx, T) /\ Flow(b, r, v, T)
  <2>1. Flow(b, r, v, T)
    BY <1>1, <1>12, <1>13, <1>14, <1>17, ReaderGrows
  <2>2. CASE n = 0
    <3>1. fs = <<>> /\ h = <<>>
      BY <1>5, <1>7, <2>2, EmptySeq
    <3>2. x = l.tx /\ s = l.sent
      BY <1>1, <3>1, ConcatEmptySeq DEF x, s
    <3>3. QED
      BY <1>12, <1>13, <1>17, <2>1, <3>2, WriterSame
  <2>3. CASE n # 0
    <3> DEFINE c == [p \in 0..n |-> S + p]
    <3>1. w \o l.tx \in Seq(Frame) /\ fs # <<>>
      BY <1>1, <1>5, <2>3, EmptySeq
    <3>2. /\ Len(l.rcvd) <= Len(b.sent)
          /\ \A j \in 1..Len(l.rcvd) : b.sent[j] \in T
      BY <1>1, <1>12, <1>17, ReceivedWasSent
    <3>3. /\ c \in [0..Len(fs) -> Nat] /\ c[0] = Len(l.sent) /\ c[Len(fs)] = Len(r.sent)
          /\ \A p, q \in 0..Len(fs) : p <= q => c[p] <= c[q]
      BY <1>1, <1>2, <1>5, <1>8, <1>12
    <3>4. ASSUME NEW p \in 1..Len(fs)
          PROVE  /\ fs[p].nr = SeqOf(Len(l.rcvd))
                 /\ \/ fs[p].type = "S" /\ c[p] = c[p-1]
                    \/ fs[p].type = "I" /\ c[p] = c[p-1] + 1
                       /\ fs[p].ns = SeqOf(c[p-1]) /\ fs[p].msg = r.sent[c[p]]
      <4>1. /\ p \in 1..n /\ p \in 0..n /\ p - 1 \in 0..n
            /\ S + p \in 1..(S + n) /\ ~(S + p <= S) /\ (S + p) - S = p /\ S + p = (S + (p-1)) + 1
        BY <1>1, <1>2, <1>5
      <4>2. c[p] = S + p /\ c[p-1] = S + (p-1)
        BY <4>1
      <4>3. s[S + p] = l.outqueue[p]
        BY <1>8, <4>1
      <4> HIDE DEF c, S
      <4>4. QED
        BY <1>3, <1>5, <1>12, <4>1, <4>2, <4>3
    <3> HIDE DEF c
    <3>5. Flow(r, b, (w \o l.tx) \o fs, T)
      BY <1>1, <1>5, <1>12, <1>14, <1>17, <3>1, <3>2, <3>3, <3>4, FlowSI
    <3>6. (w \o l.tx) \o fs = w \o r.tx
      <4>1. (w \o l.tx) \o fs = w \o (l.tx \o fs)
        BY <1>1, <1>5, JoinedFrames
      <4>2. QED
        BY <1>12, <4>1 DEF x
    <3>7. QED
      BY <2>1, <3>5, <3>6
  <2>4. QED
    BY <2>2, <2>3
<1>18. Moves(l, v, r, v)
  BY <1>12, <1>16, <1>17 DEF Moves
<1>19. QED
  BY <1>11, <1>15, <1>18

\* A window that is open leaves vs where it is when the ack queue is empty.
LEMMA EmptyWindow ==
    ASSUME NEW l, LinkInv(l), l.ackqueue = <<>>
    PROVE  l.vs = l.va /\ [l EXCEPT !.vs = l.va] = l
<1>1. l.va \in SeqNo /\ l.vs \in SeqNo /\ Dist(l.va, l.vs) = 0
  BY DEF LinkInv, LinkType, WindowOf
<1>2. Advance(l.va, 0) = l.va
  <2>1. PICK x \in SeqNo : x = l.va
    BY <1>1
  <2>2. Advance(x, 0) = x
    BY <2>1, SeqNoRange, AdvanceCases, NAssumption
  <2>3. QED
    BY <2>1, <2>2
<1>3. l.vs = l.va
  BY <1>1, <1>2, AdvanceOfDist
<1>4. QED
  BY <1>3 DEF LinkInv, LinkType

\* LapRunOutQueue, whichever write fails.
LEMMA RunOutQueueMoves ==
    ASSUME NEW l, LinkInv(l), CountInv(l), l.conn, NEW fail \in Nat, NEW v \in Seq(Frame)
    PROVE  LET r == LapRunOutQueue(l, fail)
           IN  /\ CountInv(r) /\ Moves(l, v, r, v)
               /\ r.fd = l.fd /\ r.conn = l.conn /\ r.tobedisc = l.tobedisc
<1> DEFINE r == IF l.ackqueue = <<>> THEN [l EXCEPT !.vs = l.va] ELSE l
           n == IF fail < SendRoom(r) THEN fail ELSE SendRoom(r)
<1>1. r = l /\ l \in LinkType
  BY EmptyWindow DEF LinkInv
<1>2. n \in 0..Len(l.outqueue) /\ Len(l.ackqueue) + n <= K
  <2>1. SendRoom(l) \in 0..Len(l.outqueue) /\ Len(l.ackqueue) + SendRoom(l) <= K
    BY SendRoomFits
  <2>2. Len(l.outqueue) \in Nat /\ Len(l.ackqueue) \in Nat
    BY DEF LinkInv, LinkType
  <2>3. QED
    BY <1>1, <2>1, <2>2, WindowAssumption, NAssumption
<1>3. CountInv(SendFirst(l, n)) /\ Moves(l, v, SendFirst(l, n), v)
  BY <1>2, SendFirstMoves
<1>4. /\ SendFirst(l, n).fd = l.fd /\ SendFirst(l, n).conn = l.conn
      /\ SendFirst(l, n).tobedisc = l.tobedisc
  BY <1>1 DEF SendFirst, LinkType
<1>5. Moves(l, v, l, v)
  BY <1>1, SameCounts
<1>6. LapRunOutQueue(l, fail) = l \/ LapRunOutQueue(l, fail) = SendFirst(l, n)
  BY <1>1 DEF LapRunOutQueue
<1> DEFINE s == LapRunOutQueue(l, fail)
<1> HIDE DEF n
<1>7. /\ CountInv(s) /\ Moves(l, v, s, v)
      /\ s.fd = l.fd /\ s.conn = l.conn /\ s.tobedisc = l.tobedisc
  BY <1>3, <1>4, <1>5, <1>6
<1>8. QED
  BY <1>7

-----------------------------------------------------------------------------
(* The start/stop procedure is mute *)

LEMMA SendUMute ==
    ASSUME NEW l \in LinkType, NEW t \in UType
    PROVE  Mute(l, LapSendFrameU(l, t))
<1>1. Calm(l, LapSendFrameU(l, t))
  BY SendUCalm
<1>2. UFrame(t) \in Frame /\ UFrame(t).type \in UType
  BY UFrameType DEF UFrame
<1>3. QED
  BY <1>1, <1>2 DEF Mute, LapSendFrameU, Write, LinkType

\* Doing nothing, or only setting the state.
LEMMA SetStateMute ==
    ASSUME NEW l \in LinkType, NEW s \in SSP
    PROVE  Mute(l, l) /\ Mute(l, LapSetState(l, s))
<1>1. Calm(l, l) /\ Calm(l, LapSetState(l, s))
  BY CalmSelf, SetStateCalm
<1>2. QED
  BY <1>1 DEF Mute, LapSetState, LinkType

\* An U frame and a new state.
LEMMA SendUSetStateMute ==
    ASSUME NEW l \in LinkType, NEW t \in UType, NEW s \in SSP
    PROVE  Mute(l, LapSetState(LapSendFrameU(l, t), s))
<1> DEFINE r == LapSendFrameU(l, t)
<1>1. Mute(l, r) /\ r \in LinkType
  BY SendUMute DEF Mute, Calm
<1>2. Calm(l, LapSetState(r, s))
  BY SendUSetStateCalm
<1> HIDE DEF r
<1>3. /\ LapSetState(r, s).acked = r.acked /\ LapSetState(r, s).acklost = r.acklost
      /\ LapSetState(r, s).purged = r.purged /\ LapSetState(r, s).seen = r.seen
      /\ LapSetState(r, s).nberr = r.nberr /\ LapSetState(r, s).tx = r.tx
  BY <1>1 DEF LapSetState, LinkType
<1>4. Mute(l, LapSetState(r, s))
  BY <1>1, <1>2, <1>3 DEF Mute, r
<1>5. QED
  BY <1>4 DEF r

\* Confirming STOPDTact.
LEMMA ConfirmStopMute ==
    ASSUME NEW l \in LinkType
    PROVE  Mute(l, ConfirmStop(l))
BY SendUSetStateMute DEF ConfirmStop, UType, SSP

\* EventMasterSlave on EVT_TCP_CREATED and EVT_TCP_CONNECTED.
LEMMA EventConnectedMute ==
    ASSUME NEW i, NEW l \in LinkType
    PROVE  Mute(l, EventConnected(i, l))
BY SendUSetStateMute, SetStateMute DEF EventConnected, UType, SSP

\* EventMasterSlave on an indication.
LEMMA EventIndicationMute ==
    ASSUME NEW l \in LinkType, NEW evt
    PROVE  Mute(l, EventIndication(l, evt))
<1>1. Mute(l, [l EXCEPT !.tFrmSndAt = FALSE])
  <2>1. Calm(l, [l EXCEPT !.tFrmSndAt = FALSE])
    BY DEF Calm, LinkType
  <2>2. QED
    BY <2>1 DEF Mute, LinkType
<1>2. Mute(l, l)
  BY SetStateMute DEF SSP
<1>3. Mute(l, StopIfAcked(l))
  BY <1>2, ConfirmStopMute DEF StopIfAcked
<1>4. /\ Mute(l, LapSendFrameU(l, "TESTFRcon"))
      /\ Mute(l, LapSendFrameU(l, "STARTDTcon"))
      /\ Mute(l, LapSetState(LapSendFrameU(l, "STARTDTcon"), "STARTED"))
      /\ Mute(l, LapSetState(l, "STARTED"))
      /\ Mute(l, LapSetState(l, "STOPPED"))
      /\ Mute(l, LapSetState(l, "PENDING_UNCONFD"))
  BY SendUMute, SendUSetStateMute, SetStateMute DEF UType, SSP
<1>5. QED
  BY <1>1, <1>2, <1>3, <1>4, ConfirmStopMute DEF EventIndication

\* EventMasterSlave on a request.
LEMMA EventRequestMute ==
    ASSUME NEW l \in LinkType, NEW evt
    PROVE  Mute(l, EventRequest(l, evt))
<1>1. /\ Mute(l, LapSendFrameU(l, "TESTFRact"))
      /\ Mute(l, LapSetState(LapSendFrameU(l, "STARTDTact"), "PENDING_STARTED"))
      /\ Mute(l, LapSetState(LapSendFrameU(l, "STOPDTact"), "PENDING_STOPPED"))
  BY SendUMute, SendUSetStateMute DEF UType, SSP
<1>2. Mute(l, l)
  BY SetStateMute DEF SSP
<1>3. QED
  BY <1>1, <1>2 DEF EventRequest

-----------------------------------------------------------------------------
(* Disconnection and the clock *)

\* A connection starts with the number 0.
LEMMA CountZero == Len(<<>>) = 0 /\ 0 \in SeqNo /\ Dist(0, 0) = 0 /\ SeqOf(0) = 0
<1>1. 0 \in SeqNo
  BY NAssumption DEF SeqNo
<1>2. 0 \in Nat /\ N * 0 + 0 = 0
  BY NAssumption
<1>3. QED
  BY <1>1, <1>2, DistSelf, TurnsVanish

\* A link that was reset knows of no message of its connection, and what it
\* wrote before is still to be sent.
LEMMA DisconnectedWire ==
    ASSUME NEW i, NEW l \in LinkType
    PROVE  LET r == LapDisconnected(i, l)
           IN  /\ CountInv(r) /\ ~r.fd /\ ~r.conn
               /\ r.sent = <<>> /\ r.rcvd = <<>> /\ r.ackqueue = <<>>
               /\ r.tx = l.tx /\ r.acked = l.acked /\ r.seen = l.seen /\ ~r.tobedisc
<1> DEFINE r == LapDisconnected(i, l)
<1>1. /\ ~r.fd /\ ~r.conn /\ ~r.nberr /\ ~r.tobedisc
      /\ r.sent = <<>> /\ r.rcvd = <<>> /\ r.ackqueue = <<>>
      /\ r.va = 0 /\ r.vs = 0 /\ r.vr = 0 /\ r.vapeer = 0
      /\ r.tx = l.tx /\ r.acked = l.acked /\ r.seen = l.seen
  BY DEF LapDisconnected, LapReset, NewLink, LinkType
<1> HIDE DEF r
<1>2. Len(<<>>) = 0 /\ 0 \in SeqNo /\ Dist(0, 0) = 0 /\ SeqOf(0) = 0
  BY CountZero
<1>3. Base(r) = 0 /\ Told(r) = 0
  BY <1>1, <1>2 DEF Base, Told
<1>4. CountInv(r)
  BY <1>1, <1>2, <1>3 DEF CountInv
<1>5. QED
  BY <1>1, <1>4 DEF r

\* r is l after writing frames while its connection goes on, or it is what
\* is left of such a link after a disconnection.
Outcome(l, v, r) ==
    /\ CountInv(r)
    /\ \/ /\ Moves(l, v, r, v)
          /\ r.fd = l.fd /\ r.conn = l.conn /\ r.tobedisc = l.tobedisc
          /\ r.conn \/ r.tx = l.tx
       \/ /\ ~r.fd /\ ~r.conn /\ ~r.tobedisc
          /\ r.sent = <<>> /\ r.rcvd = <<>> /\ r.ackqueue = <<>>
          /\ \E s \in LinkType : /\ Moves(l, v, s, v)
                                 /\ r.tx = s.tx /\ r.acked = s.acked /\ r.seen = s.seen
                                 /\ s.conn \/ s.tx = l.tx

\* A disconnection after writing.
LEMMA DisconnectedOutcome ==
    ASSUME NEW i, NEW l, NEW v, NEW r \in LinkType, Outcome(l, v, r)
    PROVE  Outcome(l, v, LapDisconnected(i, r))
<1> DEFINE d == LapDisconnected(i, r)
<1>1. /\ CountInv(d) /\ ~d.fd /\ ~d.conn /\ ~d.tobedisc
      /\ d.sent = <<>> /\ d.rcvd = <<>> /\ d.ackqueue = <<>>
      /\ d.tx = r.tx /\ d.acked = r.acked /\ d.seen = r.seen
  BY DisconnectedWire
<1> HIDE DEF d
<1>2. \E s \in LinkType : /\ Moves(l, v, s, v)
                          /\ d.tx = s.tx /\ d.acked = s.acked /\ d.seen = s.seen
                          /\ s.conn \/ s.tx = l.tx
  BY <1>1 DEF Outcome
<1>3. Outcome(l, v, d)
  BY <1>1, <1>2 DEF Outcome
<1>4. QED
  BY <1>3 DEF d

\* One more move of a link whose connection goes on.
LEMMA MovesOutcome ==
    ASSUME NEW l, NEW v, NEW r, NEW s, Moves(l, v, r, v), r.fd = l.fd, r.conn = l.conn,
           r.tobedisc = l.tobedisc, r.conn \/ r.tx = l.tx,
           CountInv(s), Moves(r, v, s, v), s.fd = r.fd, s.conn = r.conn,
           s.tobedisc = r.tobedisc, s.conn \/ s.tx = r.tx
    PROVE  Outcome(l, v, s)
<1>1. Moves(l, v, s, v)
  BY MovesTwice
<1>2. QED
  BY <1>1 DEF Outcome

\* A second more on every timer, the ages in the ack queue included.
LEMMA AgedMoves ==
    ASSUME NEW l, LinkInv(l), CountInv(l), NEW v \in Seq(Frame)
    PROVE  Outcome(l, v, Aged(l))
<1> DEFINE p == Older(l.progAt, CnxDelay)
           u == Older(l.uFrmSndAt, T1)
           t == Older(l.iFrmRcvAt, T2)
           x == Older(l.xFrmRcvAt, T3)
           q == [j \in 1..Len(l.ackqueue) |-> OlderMsg(l.ackqueue[j])]
           r == [l EXCEPT !.progAt = p, !.uFrmSndAt = u, !.iFrmRcvAt = t,
                          !.xFrmRcvAt = x, !.ackqueue = q]
<1>1. Aged(l) = r
  BY DEF Aged
<1>2. l \in LinkType /\ r \in LinkType
  BY <1>1, AgedInv DEF LinkInv
<1>3. l.ackqueue \in Seq(Unacked) /\ Len(l.ackqueue) \in Nat
  BY DEF LinkInv, LinkType
<1>4. ASSUME NEW j \in 1..Len(l.ackqueue)
      PROVE  q[j].msg = l.ackqueue[j].msg
  <2>1. l.ackqueue[j] \in Unacked
    BY <1>3
  <2>2. OlderMsg(l.ackqueue[j]).msg = l.ackqueue[j].msg
    BY <2>1 DEF OlderMsg, Unacked
  <2>3. QED
    BY <2>2
<1>5. Len(q) = Len(l.ackqueue) /\ (l.ackqueue = <<>> => q = <<>>)
  <2>1. q \in Seq(Unacked) /\ Len(q) = Len(l.ackqueue)
    <3>1. r.ackqueue = q
      BY <1>2 DEF LinkType
    <3>2. q \in Seq(Unacked)
      BY <1>2, <3>1 DEF LinkType
    <3>3. QED
      BY <1>3, <3>2
  <2>2. QED
    BY <2>1, EmptySeq
<1> HIDE DEF p, u, t, x, q
<1>6. /\ r.va = l.va /\ r.vs = l.vs /\ r.ackqueue = q
      /\ r.vr = l.vr /\ r.vapeer = l.vapeer /\ r.conn = l.conn
      /\ r.sent = l.sent /\ r.rcvd = l.rcvd /\ r.tx = l.tx /\ r.fd = l.fd
      /\ r.acked = l.acked /\ r.seen = l.seen /\ r.nberr = l.nberr /\ r.tobedisc = l.tobedisc
  BY <1>2 DEF LinkType
<1> HIDE DEF r
<1>7. Base(r) = Base(l) /\ Told(r) = Told(l)
  BY <1>5, <1>6 DEF Base, Told
<1>8. CountInv(r)
  BY <1>4, <1>5, <1>6, <1>7 DEF CountInv
<1>9. Moves(l, v, r, v)
  BY <1>2, <1>6, <1>7, SameCounts
<1>10. QED
  BY <1>1, <1>6, <1>8, <1>9 DEF Outcome

\* T1 of U frames, T2 and T3.
LEMMA TimerMoves ==
    ASSUME NEW i, NEW l \in LinkType, NEW v \in Seq(Frame), NEW r, LinkInv(r), Outcome(l, v, r)
    PROVE  Outcome(l, v, LapTimerT1T2T3(i, r))
<1> DEFINE o == [r EXCEPT !.iFrmRcvAt = Off]
<1>1. r \in LinkType
  BY DEF LinkInv
<1>2. CASE ~r.conn
  BY <1>2 DEF LapTimerT1T2T3
<1>3. CASE r.conn
  <2>1. /\ r.fd /\ CountInv(r) /\ Moves(l, v, r, v)
        /\ r.fd = l.fd /\ r.conn = l.conn /\ r.tobedisc = l.tobedisc
    BY <1>3 DEF LinkInv, Outcome
  <2>2. Outcome(l, v, LapDisconnected(i, r))
    BY <1>1, DisconnectedOutcome
  <2>3. Outcome(l, v, LapSendFrameS(o))
    <3>1. Off \in Timer(T2)
      BY TimerAssumption DEF Timer, Off
    <3>2. /\ o \in LinkType
          /\ o.va = r.va /\ o.vs = r.vs /\ o.ackqueue = r.ackqueue
          /\ o.vr = r.vr /\ o.vapeer = r.vapeer /\ o.conn = r.conn
          /\ o.sent = r.sent /\ o.rcvd = r.rcvd /\ o.tx = r.tx /\ o.fd = r.fd
          /\ o.acked = r.acked /\ o.seen = r.seen /\ o.nberr = r.nberr
          /\ o.tobedisc = r.tobedisc
      BY <1>1, <3>1 DEF LinkType
    <3> HIDE DEF o
    <3>3. Base(o) = Base(r) /\ Told(o) = Told(r)
      BY <3>2 DEF Base, Told
    <3>4. CountInv(o)
      BY <2>1, <3>2, <3>3 DEF CountInv
    <3>5. Moves(l, v, o, v)
      BY <1>1, <2>1, <3>2, <3>3, SameCounts, MovesTwice
    <3> DEFINE s == LapSendFrameS(o)
    <3>6. /\ CountInv(s) /\ Moves(o, v, s, v)
          /\ s.conn = o.conn /\ s.fd = o.fd /\ s.tobedisc = o.tobedisc
      BY <1>3, <2>1, <3>2, <3>4, SendSMoves
    <3> HIDE DEF s
    <3>7. QED
      BY <1>3, <2>1, <3>2, <3>5, <3>6, MovesOutcome DEF s
  <2>4. Outcome(l, v, LapSendFrameU(r, "TESTFRact"))
    <3> DEFINE s == LapSendFrameU(r, "TESTFRact")
    <3>1. Mute(r, s)
      BY <1>1, SendUMute DEF UType
    <3>2. CountInv(s) /\ Moves(r, v, s, v)
      BY <1>1, <2>1, <3>1, MuteMoves
    <3>3. s.conn = r.conn /\ s.fd = r.fd /\ s.tobedisc = r.tobedisc
      BY <1>1 DEF LapSendFrameU, Write, LinkType
    <3> HIDE DEF s
    <3>4. Outcome(l, v, s)
      BY <1>3, <2>1, <3>2, <3>3, MovesOutcome
    <3>5. QED
      BY <3>4 DEF s
  <2>5. QED
    BY <1>3, <2>2, <2>3, <2>4 DEF LapTimerT1T2T3
<1>4. QED
  BY <1>2, <1>3, <1>1 DEF LinkType

\* rtl_LapDoClockScPeriod for one link.
LEMMA ClockMoves ==
    ASSUME NEW i, NEW l, LinkInv(l), CountInv(l), NEW re \in BOOLEAN, NEW v \in Seq(Frame)
    PROVE  Outcome(l, v, LapDoClockSc(i, l, re))
<1> DEFINE r == IF re THEN LapReConnect(i, Aged(l)) ELSE Aged(l)
           s == LapTimerT1T2T3(i, r)
<1>1. LinkInv(Aged(l)) /\ Outcome(l, v, Aged(l)) /\ l \in LinkType
  BY AgedInv, AgedMoves DEF LinkInv
<1>2. LinkInv(r) /\ Outcome(l, v, r)
  <2>1. Aged(l) \in LinkType
    BY <1>1 DEF LinkInv
  <2>2. /\ LinkInv(LapDisconnected(i, Aged(l)))
        /\ Outcome(l, v, LapDisconnected(i, Aged(l)))
    BY <1>1, <2>1, DisconnectedKeeps, DisconnectedOutcome
  <2>3. QED
    BY <1>1, <2>2 DEF LapReConnect
<1> HIDE DEF r
<1>3. LinkInv(s) /\ Outcome(l, v, s) /\ s \in LinkType
  BY <1>1, <1>2, TimerT1T2T3Inv, TimerMoves DEF LinkInv
<1> HIDE DEF s
<1>4. Outcome(l, v, LapTimerAckQueue(i, s))
  BY <1>3, DisconnectedOutcome DEF LapTimerAckQueue
<1>5. QED
  BY <1>4 DEF LapDoClockSc, r, s

-----------------------------------------------------------------------------
(* Receiving *)

\* The first frame on the wire acknowledges only what is in flight, and if
\* it carries a message this is the one expected: OKNR and OKNS hold.
LEMMA HeadNumbers ==
    ASSUME NEW l, LinkInv(l), CountInv(l), NEW v \in Seq(Frame), v # <<>>, NEW T,
           NEW cnt, NEW ack, Numbers(v, cnt, ack), ReadBy(l, v, T, cnt, ack)
    PROVE  LET f == Head(v)
           IN  /\ cnt[1] = IF f.type = "I" THEN Len(l.rcvd) + 1 ELSE Len(l.rcvd)
               /\ ack[1] \in Nat /\ Base(l) <= ack[1] /\ ack[1] <= Len(l.sent)
               /\ \A j \in 1..ack[1] : l.sent[j] \in T
               /\ f.type \notin {"S", "I"} => ack[1] = Base(l)
               /\ f.type \in {"S", "I"} =>
                     OKNR(l.va, l.vs, f.nr) /\ Dist(l.va, f.nr) = ack[1] - Base(l)
               /\ f.type = "I" => OKNS(l.vr, f.ns)
<1> DEFINE f == Head(v)
           L == Len(v)
<1>1. L \in Nat \ {0} /\ f = v[1] /\ 0 \in 0..L /\ 1 \in 0..L /\ L \in 0..L /\ 1 \in 1..L
  BY EmptySeq
<1>2. l \in LinkType /\ Len(l.sent) \in Nat /\ Len(l.rcvd) \in Nat /\ Len(l.ackqueue) \in Nat
  BY Lengths DEF LinkInv
<1>3. /\ Base(l) \in Nat /\ Base(l) = Len(l.sent) - Len(l.ackqueue)
      /\ l.va = SeqOf(Base(l)) /\ l.vs = SeqOf(Len(l.sent)) /\ l.vr = SeqOf(Len(l.rcvd))
  BY DEF CountInv, Base
<1>4. Len(l.ackqueue) <= K /\ K < N /\ K \in Nat /\ N \in Nat
  BY WindowAssumption, NAssumption DEF LinkInv, WindowOf
<1>5. /\ cnt[0] = Len(l.rcvd) /\ ack[0] = Base(l) /\ ack[L] <= Len(l.sent)
      /\ \A j \in 1..ack[L] : l.sent[j] \in T
  BY DEF ReadBy
<1>6. /\ ack[1] \in Nat /\ ack[L] \in Nat /\ ack[0] <= ack[1] /\ ack[1] <= ack[L]
      /\ cnt[1] = IF f.type = "I" THEN cnt[0] + 1 ELSE cnt[0]
      /\ f.type = "I" => f.ns = SeqOf(cnt[0])
      /\ f.type \in {"S", "I"} => f.nr = SeqOf(ack[1])
      /\ f.type \notin {"S", "I"} => ack[1] = ack[0]
  <2>1. ack \in [0..L -> Nat] /\ 1 <= L /\ 1 - 1 = 0 /\ 0 <= 1
    BY <1>1 DEF Numbers
  <2>2. \A p, q \in 0..L : p <= q => ack[p] <= ack[q]
    BY DEF Numbers
  <2>3. /\ cnt[1] = IF v[1].type = "I" THEN cnt[1-1] + 1 ELSE cnt[1-1]
        /\ v[1].type = "I" => v[1].ns = SeqOf(cnt[1-1])
        /\ v[1].type \in {"S", "I"} => v[1].nr = SeqOf(ack[1])
        /\ v[1].type \notin {"S", "I"} => ack[1] = ack[1-1]
    BY <1>1 DEF Numbers
  <2> HIDE DEF f, L
  <2>4. QED
    BY <1>1, <2>1, <2>2, <2>3
<1> HIDE DEF f, L
<1>7. Base(l) <= ack[1] /\ ack[1] <= Len(l.sent) /\ \A j \in 1..ack[1] : l.sent[j] \in T
  <2>1. Base(l) <= ack[1] /\ ack[1] <= Len(l.sent)
    <3>1. ack[0] <= ack[1] /\ ack[1] <= ack[L] /\ ack[L] <= Len(l.sent)
      BY <1>5, <1>6
    <3>2. \A m, n, k \in Nat : m <= n /\ n <= k => m <= k
      OBVIOUS
    <3>3. QED
      BY <1>2, <1>5, <1>6, <3>1, <3>2
  <2>2. \A j \in 1..ack[1] : j \in 1..ack[L]
    BY <1>6
  <2>3. QED
    BY <1>5, <2>1, <2>2
<1>8. ASSUME f.type \in {"S", "I"}
      PROVE  OKNR(l.va, l.vs, f.nr) /\ Dist(l.va, f.nr) = ack[1] - Base(l)
  <2>1. /\ ack[1] - Base(l) < N /\ Len(l.sent) - Base(l) < N
        /\ ack[1] - Base(l) <= Len(l.sent) - Base(l) /\ Base(l) <= Len(l.sent)
    <3>1. PICK m, n, a, q \in Nat :
             m = Base(l) /\ n = Len(l.sent) /\ a = ack[1] /\ q = Len(l.ackqueue)
      BY <1>2, <1>3, <1>6
    <3>2. m = n - q /\ q <= K /\ K < N /\ m <= a /\ a <= n
      <4>1. m = n - q
        BY <1>3, <3>1
      <4>2. q <= K /\ K < N
        BY <1>4, <3>1
      <4>3. m <= a /\ a <= n
        BY <1>7, <3>1
      <4>4. QED
        BY <4>1, <4>2, <4>3
    <3>3. a - m < N /\ n - m < N /\ a - m <= n - m /\ m <= n
      <4>1. K \in Nat /\ N \in Nat
        BY <1>4
      <4>2. QED
        BY <3>2, <4>1
    <3>4. QED
      BY <3>1, <3>3
  <2>3. Dist(SeqOf(Base(l)), SeqOf(ack[1])) = ack[1] - Base(l)
    BY <1>3, <1>6, <1>7, <2>1, CountDist
  <2>4. Dist(SeqOf(Base(l)), SeqOf(Len(l.sent))) = Len(l.sent) - Base(l)
    BY <1>2, <1>3, <2>1, CountDist
  <2>5. QED
    BY <1>3, <1>6, <1>8, <2>1, <2>3, <2>4 DEF OKNR
<1>9. QED
  BY <1>3, <1>5, <1>6, <1>7, <1>8 DEF f, OKNS

\* The first n messages that l sent.
Sent(l, n) == {l.sent[j] : j \in 1..n}

\* How many messages frame f acknowledges.
Confirms(l, f) == IF f.type \in {"S", "I"} THEN Dist(l.va, f.nr) ELSE 0

\* A link that took note of the first frame on the wire.
LEMMA HearMoves ==
    ASSUME NEW l, LinkInv(l), CountInv(l), NEW v \in Seq(Frame), v # <<>>,
           NEW r \in LinkType, NEW f \in Frame, f = Head(v),
           r.sent = l.sent, r.tx = l.tx, Told(r) = Told(l), Base(r) = Base(l) + Confirms(l, f),
           r.rcvd = IF f.type = "I" THEN Append(l.rcvd, f.msg) ELSE l.rcvd,
           r.seen = IF f.type = "I" THEN l.seen \cup {f.msg} ELSE l.seen,
           r.acked \subseteq l.acked \cup Sent(l, Base(r))
    PROVE  Moves(l, v, r, Tail(v))
<1> DEFINE t == Tail(v)
           L == Len(v)
<1>1. /\ l \in LinkType /\ Len(l.sent) \in Nat /\ Len(l.rcvd) \in Nat /\ l.rcvd \in Seq(Msg)
      /\ Base(l) \in Nat
  BY Lengths DEF LinkInv, LinkType, CountInv
<1>2. L \in Nat \ {0} /\ t \in Seq(Frame) /\ Len(t) = L - 1 /\ f = v[1]
  BY EmptySeq, HeadTailProperties
<1>3. /\ Len(r.rcvd) = IF f.type = "I" THEN Len(l.rcvd) + 1 ELSE Len(l.rcvd)
      /\ \A j \in 1..Len(l.rcvd) : r.rcvd[j] = l.rcvd[j]
      /\ f.type = "I" => r.rcvd[Len(l.rcvd) + 1] = f.msg
  <2>1. ASSUME f.type = "I"
        PROVE  /\ Len(r.rcvd) = Len(l.rcvd) + 1
               /\ \A j \in 1..Len(l.rcvd) : r.rcvd[j] = l.rcvd[j]
               /\ r.rcvd[Len(l.rcvd) + 1] = f.msg
    <3>1. f.msg \in Msg
      BY <2>1 DEF Frame, UType
    <3>2. r.rcvd = Append(l.rcvd, f.msg)
      BY <2>1
    <3>3. QED
      BY <1>1, <3>1, <3>2
  <2>2. QED
    BY <2>1
<1>4. ASSUME NEW T, NEW cnt, NEW ack, Numbers(v, cnt, ack), ReadBy(l, v, T, cnt, ack)
      PROVE  /\ Numbers(t, Shift(v, cnt), Shift(v, ack))
             /\ ReadBy(r, t, T, Shift(v, cnt), Shift(v, ack))
             /\ r.acked \subseteq l.acked \cup T
  <2>1. /\ cnt[1] = Len(r.rcvd) /\ ack[1] = Base(r)
        /\ \A j \in 1..ack[1] : l.sent[j] \in T
    <3>1. /\ cnt[1] = IF f.type = "I" THEN Len(l.rcvd) + 1 ELSE Len(l.rcvd)
          /\ ack[1] \in Nat
          /\ \A j \in 1..ack[1] : l.sent[j] \in T
          /\ f.type \notin {"S", "I"} => ack[1] = Base(l)
          /\ f.type \in {"S", "I"} => Dist(l.va, f.nr) = ack[1] - Base(l)
      BY <1>4, HeadNumbers
    <3>2. ack[1] = Base(l) + Confirms(l, f)
      BY <1>1, <3>1 DEF Confirms
    <3>3. QED
      BY <1>3, <3>1, <3>2
  <2>2. /\ Numbers(t, Shift(v, cnt), Shift(v, ack))
        /\ Shift(v, cnt)[0] = cnt[1] /\ Shift(v, ack)[0] = ack[1]
        /\ Shift(v, ack)[Len(t)] = ack[L]
    BY <1>4, NumbersTail
  <2>3. ReadBy(r, t, T, Shift(v, cnt), Shift(v, ack))
    BY <1>4, <2>1, <2>2 DEF ReadBy
  <2>4. QED
    BY <2>1, <2>2, <2>3 DEF Sent
<1>5. ASSUME NEW T, Readable(l, v, T)
      PROVE  Readable(r, t, T) /\ r.acked \subseteq l.acked \cup T
  <2>1. PICK cnt, ack : Numbers(v, cnt, ack) /\ ReadBy(l, v, T, cnt, ack)
    BY <1>5 DEF Readable
  <2>2. QED
    BY <1>4, <2>1 DEF Readable
<1>6. ASSUME NEW b \in LinkType, NEW w \in Seq(Frame), NEW T,
             Flow(l, b, w \o l.tx, T), Flow(b, l, v, T)
      PROVE  Flow(r, b, w \o r.tx, T) /\ Flow(b, r, t, T)
  <2>1. Flow(r, b, w \o r.tx, T)
    <3> DEFINE z == w \o l.tx
    <3>1. PICK cnt, ack : Numbers(z, cnt, ack) /\ ReadBy(b, z, T, cnt, ack)
                          /\ WrittenBy(l, b, z, cnt, ack)
      BY <1>6 DEF Flow
    <3>2. z \in Seq(Frame)
      BY <1>1 DEF LinkType
    <3> HIDE DEF z
    <3>3. ack[Len(z)] \in Nat
      BY <3>1, <3>2 DEF Numbers
    <3>4. ack[Len(z)] <= Len(r.rcvd)
      BY <1>1, <1>3, <3>1, <3>3 DEF WrittenBy
    <3>5. WrittenBy(r, b, z, cnt, ack)
      BY <3>1, <3>4 DEF WrittenBy
    <3>6. Flow(r, b, z, T)
      BY <3>1, <3>5 DEF Flow
    <3>7. QED
      BY <3>6 DEF z
  <2>2. Flow(b, r, t, T)
    <3>1. PICK cnt, ack : Numbers(v, cnt, ack) /\ ReadBy(l, v, T, cnt, ack)
                          /\ WrittenBy(b, l, v, cnt, ack)
      BY <1>6 DEF Flow
    <3> DEFINE C == Shift(v, cnt)
               A == Shift(v, ack)
    <3>2. Numbers(t, C, A) /\ ReadBy(r, t, T, C, A)
      BY <1>4, <3>1
    <3>3. /\ C[Len(t)] = cnt[L] /\ A[Len(t)] = ack[L]
          /\ \A p \in 1..Len(t) : t[p] = v[p + 1] /\ C[p] = cnt[p + 1]
      BY <3>1, NumbersTail
    <3>4. cnt[1] = IF f.type = "I" THEN Len(l.rcvd) + 1 ELSE Len(l.rcvd)
      BY <3>1, HeadNumbers
    <3> HIDE DEF C, A
    <3>5. \A p \in 1..Len(t) : t[p].type = "I" => t[p].msg = b.sent[C[p]]
      <4>1. \A p \in 1..Len(t) : p + 1 \in 1..L
        BY <1>2
      <4>2. \A p \in 1..L : v[p].type = "I" => v[p].msg = b.sent[cnt[p]]
        BY <3>1 DEF WrittenBy
      <4>3. QED
        BY <3>3, <4>1, <4>2
    <3>6. \A j \in 1..Len(r.rcvd) : r.rcvd[j] = b.sent[j]
      <4>1. \A j \in 1..Len(l.rcvd) : r.rcvd[j] = b.sent[j]
        BY <1>3, <3>1 DEF WrittenBy
      <4>2. f.type = "I" => r.rcvd[Len(l.rcvd) + 1] = b.sent[Len(l.rcvd) + 1]
        <5>1. 1 \in 1..L
          BY <1>2
        <5>2. f.type = "I" => f.msg = b.sent[cnt[1]]
          BY <1>2, <3>1, <5>1 DEF WrittenBy
        <5>3. QED
          BY <1>3, <3>4, <5>2
      <4>3. \A j \in 1..Len(r.rcvd) : j \in 1..Len(l.rcvd)
                                      \/ (f.type = "I" /\ j = Len(l.rcvd) + 1)
        BY <1>1, <1>3
      <4>4. QED
        BY <4>1, <4>2, <4>3
    <3>7. WrittenBy(b, r, t, C, A)
      BY <3>1, <3>3, <3>5, <3>6 DEF WrittenBy
    <3>8. QED
      BY <3>2, <3>7 DEF Flow
  <2>3. QED
    BY <2>1, <2>2
<1>7. QED
  BY <1>5, <1>6 DEF Moves

\* Link a is l once the messages before number nr are acknowledged.
Settles(l, nr, a) ==
    /\ CountInv(a) /\ Base(a) = Base(l) + Dist(l.va, nr)
    /\ a.vs = l.vs /\ a.vr = l.vr /\ a.vapeer = l.vapeer
    /\ a.sent = l.sent /\ a.rcvd = l.rcvd /\ a.seen = l.seen /\ a.tx = l.tx
    /\ a.fd = l.fd /\ a.conn = l.conn /\ a.tobedisc = l.tobedisc
    /\ a.acked \subseteq l.acked \cup Sent(l, Base(a))

\* Acknowledged messages leave the front of the ack queue: they were sent
\* before those that stay.
LEMMA AcknowledgeCounts ==
    ASSUME NEW l, LinkInv(l), CountInv(l), NEW nr \in SeqNo, OKNR(l.va, l.vs, nr),
           NEW a, a = Acknowledge(l, nr)
    PROVE  Settles(l, nr, a)
<1> DEFINE d == Dist(l.va, nr)
           q == SubSeq(l.ackqueue, d+1, Len(l.ackqueue))
           h == SubSeq(l.ackqueue, 1, d)
           e == [l EXCEPT !.ackqueue = q, !.acked = l.acked \cup AckMsgs(h), !.va = nr]
<1>1. d \in 0..Len(l.ackqueue) /\ a = e
  <2>1. LapRunAckQueue(l, nr) = [l EXCEPT !.ackqueue = q, !.acked = l.acked \cup AckMsgs(h)]
    BY AckQueueCut
  <2>2. QED
    BY <2>1, AckQueueCut DEF Acknowledge
<1>2. /\ l \in LinkType /\ l.va \in SeqNo /\ l.ackqueue \in Seq(Unacked)
      /\ Len(l.ackqueue) \in Nat /\ Len(l.sent) \in Nat
  BY DEF LinkInv, LinkType
<1>3. /\ d \in Nat /\ d \in 0..N /\ nr = Advance(l.va, d)
  BY <1>2, DistCases, SeqNoRange, AdvanceOfDist
<1>4. /\ Len(q) = Len(l.ackqueue) - d /\ Len(h) = d
      /\ \A j \in 1..Len(q) : q[j] = l.ackqueue[d + j]
      /\ \A j \in 1..d : h[j] = l.ackqueue[j]
  <2> HIDE DEF d
  <2>1. PICK b \in Seq(Unacked) : b = l.ackqueue
    BY <1>2
  <2>2. PICK k \in Nat : k = Len(b) /\ d \in 0..k
    BY <1>1, <1>2, <2>1
  <2>3. /\ Len(SubSeq(b, d+1, k)) = k - d
        /\ \A j \in 1..(k - d) : SubSeq(b, d+1, k)[j] = b[d + j]
    BY <2>2, SuffixOf
  <2>4. Len(SubSeq(b, 1, d)) = d /\ \A j \in 1..d : SubSeq(b, 1, d)[j] = b[j]
    BY <2>2
  <2>5. QED
    BY <2>1, <2>2, <2>3, <2>4
<1> HIDE DEF d, q, h
<1>5. /\ a.ackqueue = q /\ a.acked = l.acked \cup AckMsgs(h) /\ a.va = nr
      /\ a.vs = l.vs /\ a.vr = l.vr /\ a.vapeer = l.vapeer /\ a.nberr = l.nberr
      /\ a.sent = l.sent /\ a.rcvd = l.rcvd /\ a.seen = l.seen /\ a.tx = l.tx
      /\ a.fd = l.fd /\ a.conn = l.conn /\ a.tobedisc = l.tobedisc
  BY <1>1, <1>2 DEF LinkType
<1> HIDE DEF e
<1>6. /\ Base(l) \in Nat /\ l.va = SeqOf(Base(l)) /\ Base(l) = Len(l.sent) - Len(l.ackqueue)
      /\ \A j \in 1..Len(l.ackqueue) : l.ackqueue[j].msg = l.sent[Base(l) + j]
  BY DEF CountInv, Base
<1>7. /\ Base(a) = Base(l) + d /\ Base(a) \in Nat
      /\ \A j \in 1..Len(q) : d + j \in 1..Len(l.ackqueue) /\ Base(l) + (d + j) = Base(a) + j
      /\ \A j \in 1..d : j \in 1..Len(l.ackqueue) /\ Base(l) + j \in 1..Base(a)
  <2>1. PICK B, S, Q \in Nat : B = Base(l) /\ S = Len(l.sent) /\ Q = Len(l.ackqueue)
    BY <1>2, <1>6
  <2>2. B = S - Q /\ d \in 0..Q /\ d \in Nat
    <3>1. B = S - Q
      BY <1>6, <2>1
    <3>2. QED
      BY <1>1, <1>3, <2>1, <3>1
  <2>3. Base(a) = S - (Q - d)
    BY <1>4, <1>5, <2>1 DEF Base
  <2>4. S - (Q - d) = B + d /\ B + d \in Nat
    BY <2>2
  <2>5. Len(q) = Q - d
    BY <1>4, <2>1
  <2>6. \A j \in 1..(Q - d) : d + j \in 1..Q /\ B + (d + j) = (B + d) + j
    BY <2>2
  <2>7. \A j \in 1..d : j \in 1..Q /\ B + j \in 1..(B + d)
    BY <2>2
  <2>8. QED
    BY <2>1, <2>3, <2>4, <2>5, <2>6, <2>7
<1>8. CountInv(a)
  <2>1. nr = SeqOf(Base(a))
    BY <1>3, <1>6, <1>7, CountAdvance
  <2>2. \A j \in 1..Len(q) : q[j].msg = a.sent[Base(a) + j]
    BY <1>4, <1>5, <1>6, <1>7
  <2>3. Told(a) = Told(l)
    BY <1>5 DEF Told
  <2>4. l.conn \/ (l.ackqueue = <<>> /\ q = <<>>)
    <3>1. ASSUME ~l.conn
          PROVE  l.ackqueue = <<>> /\ q = <<>>
      <4>1. l.ackqueue = <<>>
        BY <3>1 DEF CountInv
      <4>2. Len(q) = 0 /\ q \in Seq(Unacked)
        <5>1. Len(l.ackqueue) = 0
          BY <4>1
        <5>2. q \in Seq(Unacked)
          BY <1>1, <1>2, SuffixOf DEF q
        <5>3. d = 0
          BY <1>1, <1>3, <5>1
        <5>4. QED
          BY <1>4, <5>1, <5>2, <5>3
      <4>3. QED
        BY <4>1, <4>2, EmptySeq
    <3>2. QED
      BY <3>1
  <2>5. QED
    BY <1>5, <1>7, <2>1, <2>2, <2>3, <2>4 DEF CountInv
<1>9. a.acked \subseteq l.acked \cup Sent(l, Base(a))
  <2>1. ASSUME NEW m \in AckMsgs(h)
        PROVE  m \in Sent(l, Base(a))
    <3>1. PICK j \in 1..d : m = h[j].msg
      BY <1>4 DEF AckMsgs
    <3>2. m = l.sent[Base(l) + j] /\ Base(l) + j \in 1..Base(a)
      BY <1>4, <1>6, <1>7, <3>1
    <3>3. QED
      BY <3>2 DEF Sent
  <2>2. QED
    BY <1>5, <2>1
<1>10. QED
  BY <1>1, <1>5, <1>7, <1>8, <1>9 DEF d, Settles

\* The start/stop procedure does not mark links.
LEMMA EventFlags ==
    ASSUME NEW i, NEW l \in LinkType, NEW evt
    PROVE  /\ EventIndication(l, evt).tobedisc = l.tobedisc
           /\ EventRequest(l, evt).tobedisc = l.tobedisc
           /\ EventConnected(i, l).tobedisc = l.tobedisc
<1>1. /\ \A t : LapSendFrameU(l, t).tobedisc = l.tobedisc
      /\ \A t, x : LapSetState(LapSendFrameU(l, t), x).tobedisc = l.tobedisc
      /\ \A x : LapSetState(l, x).tobedisc = l.tobedisc
  BY DEF LapSendFrameU, LapSetState, Write, LinkType
<1>2. ConfirmStop(l).tobedisc = l.tobedisc /\ StopIfAcked(l).tobedisc = l.tobedisc
  BY <1>1 DEF ConfirmStop, StopIfAcked
<1>3. EventIndication(l, evt).tobedisc = l.tobedisc
  <2>1. [l EXCEPT !.tFrmSndAt = FALSE].tobedisc = l.tobedisc
    BY DEF LinkType
  <2>2. QED
    BY <1>1, <1>2, <2>1 DEF EventIndication
<1>4. EventRequest(l, evt).tobedisc = l.tobedisc
  BY <1>1 DEF EventRequest
<1>5. EventConnected(i, l).tobedisc = l.tobedisc
  BY <1>1 DEF EventConnected
<1>6. QED
  BY <1>3, <1>4, <1>5

\* Unless a whole turn is through, the next number is one further away.
LEMMA DistNext ==
    ASSUME NEW x \in SeqNo, NEW y \in SeqNo, Dist(x, y) < N - 1
    PROVE  Dist(x, NextNo(y)) = Dist(x, y) + 1
<1>1. NextNo(y) \in SeqNo /\ NextNo(y) = IF y + 1 < N THEN y + 1 ELSE y + 1 - N
  BY NextNoCases
<1>2. /\ Dist(x, NextNo(y)) = IF x <= NextNo(y) THEN NextNo(y) - x ELSE NextNo(y) - x + N
      /\ Dist(x, y) = IF x <= y THEN y - x ELSE y - x + N
  BY <1>1, DistCases
<1>3. PICK z \in SeqNo : z = NextNo(y)
  BY <1>1
<1>4. QED
  BY <1>1, <1>2, <1>3, NAssumption DEF SeqNo

\* An I frame is counted, given to the user and acknowledged when it is the
\* W-th one.
LEMMA AcceptMoves ==
    ASSUME NEW l, LinkInv(l), l.conn, NEW v \in Seq(Frame), v # <<>>,
           NEW f \in Frame, f = Head(v), f.type = "I",
           NEW T, Readable(l, v, T), CountInv(l)
    PROVE  LET r == AcceptFrameI(Acknowledge(l, f.nr), f)
           IN  /\ CountInv(r) /\ Moves(l, v, r, Tail(v))
               /\ r.fd = l.fd /\ r.conn = l.conn /\ r.tobedisc = l.tobedisc
<1> DEFINE a == Acknowledge(l, f.nr)
           t == IF a.iFrmRcvAt = Off THEN 0 ELSE a.iFrmRcvAt
           r == [a EXCEPT !.vr = NextNo(a.vr), !.iFrmRcvAt = t,
                          !.rcvd = Append(a.rcvd, f.msg), !.seen = a.seen \cup {f.msg}]
           s == IF AckDue(r) THEN LapSendFrameS(r) ELSE r
           e == EventIndication(s, "FRAMEI")
<1>1. OKNR(l.va, l.vs, f.nr) /\ f.nr \in SeqNo /\ f.msg \in Msg
  <2>1. PICK cnt, ack : Numbers(v, cnt, ack) /\ ReadBy(l, v, T, cnt, ack)
    BY DEF Readable
  <2>2. f.nr \in SeqNo /\ f.msg \in Msg
    BY DEF Frame, UType
  <2>3. QED
    BY <2>1, <2>2, HeadNumbers
<1>2. /\ CountInv(a) /\ LinkInv(a) /\ Base(a) = Base(l) + Dist(l.va, f.nr)
      /\ a.vs = l.vs /\ a.vr = l.vr /\ a.vapeer = l.vapeer
      /\ a.sent = l.sent /\ a.rcvd = l.rcvd /\ a.seen = l.seen /\ a.tx = l.tx
      /\ a.fd = l.fd /\ a.conn = l.conn /\ a.tobedisc = l.tobedisc
      /\ a.acked \subseteq l.acked \cup Sent(l, Base(a))
  <2>1. PICK nr \in SeqNo : nr = f.nr
    BY <1>1
  <2>2. LinkInv(a) /\ a = Acknowledge(l, nr)
    BY <1>1, <2>1, AcknowledgeInv
  <2> HIDE DEF a
  <2>3. OKNR(l.va, l.vs, nr)
    BY <1>1, <2>1
  <2>4. Settles(l, nr, a)
    BY <2>2, <2>3, AcknowledgeCounts
  <2>5. QED
    BY <2>1, <2>2, <2>4 DEF Settles
<1>3. AcceptFrameI(a, f) = e
  BY DEF AcceptFrameI
<1> HIDE DEF a
<1>4. /\ a \in LinkType /\ a.vr \in SeqNo /\ a.vapeer \in SeqNo /\ a.iFrmRcvAt \in Timer(T2)
      /\ a.rcvd \in Seq(Msg) /\ Len(a.rcvd) \in Nat /\ a.seen \in SUBSET Msg /\ a.fd
  BY <1>2 DEF LinkInv, LinkType
<1>5. NextNo(a.vr) \in SeqNo /\ t \in Timer(T2)
  BY <1>4, NextNoCases, TimerAssumption DEF Timer, Off
<1> HIDE DEF t
<1>6. /\ r \in LinkType
      /\ r.vr = NextNo(a.vr) /\ r.rcvd = Append(a.rcvd, f.msg) /\ r.seen = a.seen \cup {f.msg}
      /\ r.va = a.va /\ r.vs = a.vs /\ r.vapeer = a.vapeer /\ r.ackqueue = a.ackqueue
      /\ r.sent = a.sent /\ r.tx = a.tx /\ r.acked = a.acked /\ r.nberr = a.nberr
      /\ r.fd = a.fd /\ r.conn = a.conn /\ r.tobedisc = a.tobedisc
  <2>1. Append(a.rcvd, f.msg) \in Seq(Msg) /\ a.seen \cup {f.msg} \in SUBSET Msg
    BY <1>1, <1>4
  <2>2. QED
    BY <1>4, <1>5, <2>1 DEF LinkType
<1> HIDE DEF r
<1>7. Base(r) = Base(a)
  BY <1>6 DEF Base
<1>8. Len(r.rcvd) = Len(a.rcvd) + 1
  BY <1>1, <1>4, <1>6
<1>9. Told(r) = Told(a)
  <2>1. PICK x, y \in SeqNo : x = a.vapeer /\ y = a.vr
    BY <1>4
  <2>2. Dist(x, y) < N - 1
    <3>1. Dist(x, y) < W /\ Dist(x, y) \in Nat
      BY <1>2, <2>1, DistCases, SeqNoRange DEF LinkInv, AckDebtOf
    <3>2. QED
      BY <3>1, WindowAssumption, NAssumption
  <2>3. Dist(x, NextNo(y)) = Dist(x, y) + 1
    BY <2>2, DistNext
  <2>4. PICK d, m \in Nat : d = Dist(x, y) /\ m = Len(a.rcvd)
    BY <1>4, DistCases, SeqNoRange
  <2>5. (m + 1) - (d + 1) = m - d
    OBVIOUS
  <2>6. QED
    BY <1>6, <1>8, <2>1, <2>3, <2>4, <2>5 DEF Told
<1>10. CountInv(r)
  <2>1. r.vr = SeqOf(Len(r.rcvd))
    BY <1>2, <1>4, <1>6, <1>8, CountNext DEF CountInv
  <2>2. \A j \in 1..Len(r.rcvd) : r.rcvd[j] \in r.seen
    <3>1. \A j \in 1..Len(r.rcvd) : j \in 1..Len(a.rcvd) \/ j = Len(a.rcvd) + 1
      BY <1>4, <1>8
    <3>2. /\ \A j \in 1..Len(a.rcvd) : r.rcvd[j] = a.rcvd[j]
          /\ r.rcvd[Len(a.rcvd) + 1] = f.msg
      BY <1>1, <1>4, <1>6
    <3>3. QED
      BY <1>2, <1>6, <3>1, <3>2 DEF CountInv
  <2>3. QED
    BY <1>2, <1>6, <1>7, <1>9, <2>1, <2>2 DEF CountInv
<1>11. Moves(l, v, r, Tail(v))
  <2>1. Confirms(l, f) = Dist(l.va, f.nr)
    BY DEF Confirms
  <2>2. Told(r) = Told(l)
    BY <1>2, <1>9 DEF Told
  <2>3. QED
    BY <1>2, <1>6, <1>7, <2>1, <2>2, HearMoves
<1>12. Tail(v) \in Seq(Frame)
  OBVIOUS
<1>13. /\ s \in LinkType /\ CountInv(s) /\ Moves(r, Tail(v), s, Tail(v))
       /\ s.fd = r.fd /\ s.conn = r.conn /\ s.tobedisc = r.tobedisc
  <2>1. CASE AckDue(r)
    <3> DEFINE x == LapSendFrameS(r)
    <3>1. /\ x \in LinkType /\ CountInv(x) /\ Moves(r, Tail(v), x, Tail(v))
          /\ x.fd = r.fd /\ x.conn = r.conn /\ x.tobedisc = r.tobedisc
      BY <1>2, <1>4, <1>6, <1>10, <1>12, SendSMoves
    <3>2. s = x
      BY <2>1
    <3> HIDE DEF s, x
    <3>3. QED
      BY <3>1, <3>2
  <2>2. CASE ~AckDue(r)
    BY <1>6, <1>10, <1>12, <2>2, SameCounts
  <2>3. QED
    BY <2>1, <2>2
<1> HIDE DEF s
<1>14. /\ CountInv(e) /\ Moves(s, Tail(v), e, Tail(v)) /\ e.fd = s.fd /\ e.conn = s.conn
  BY <1>12, <1>13, EventIndicationMute, MuteMoves DEF Mute, Calm
<1>15. e.tobedisc = s.tobedisc
  BY <1>13, EventFlags
<1> HIDE DEF e
<1>16. Moves(l, v, e, Tail(v))
  BY <1>11, <1>13, <1>14, MovesTwice
<1>17. QED
  BY <1>2, <1>3, <1>6, <1>13, <1>14, <1>15, <1>16 DEF a

\* Link r is l after the first of the frames v was read.
Heard(l, v, r) ==
    /\ CountInv(r) /\ Moves(l, v, r, Tail(v))
    /\ r.fd = l.fd /\ r.conn = l.conn /\ r.tobedisc = l.tobedisc

\* What the start/stop procedure makes of the frame.
LEMMA IndicationHeard ==
    ASSUME NEW l, NEW v \in Seq(Frame), v # <<>>, NEW r \in LinkType, Heard(l, v, r), NEW evt
    PROVE  Heard(l, v, EventIndication(r, evt))
<1> DEFINE s == EventIndication(r, evt)
<1>1. Mute(r, s) /\ s.tobedisc = r.tobedisc
  BY EventIndicationMute, EventFlags
<1> HIDE DEF s
<1>2. s.fd = r.fd /\ s.conn = r.conn /\ CountInv(r)
  BY <1>1 DEF Mute, Calm, Heard
<1>3. Tail(v) \in Seq(Frame)
  OBVIOUS
<1>4. CountInv(s) /\ Moves(r, Tail(v), s, Tail(v))
  BY <1>1, <1>2, <1>3, MuteMoves
<1>5. Heard(l, v, s)
  BY <1>1, <1>2, <1>4, MovesTwice DEF Heard
<1>6. QED
  BY <1>5 DEF s

\* The start of IncomingFrame: T3 starts anew.
LEMMA HeardFrom ==
    ASSUME NEW l, NEW v, NEW r, NEW s, Moves(l, v, r, v), r.fd = l.fd, r.conn = l.conn,
           r.tobedisc = l.tobedisc, Heard(r, v, s)
    PROVE  Heard(l, v, s)
BY MovesTwice DEF Heard

\* IncomingFrame, whatever the frame is.
LEMMA IncomingFrameMoves ==
    ASSUME NEW l0, LinkInv(l0), CountInv(l0), l0.conn, NEW v \in Seq(Frame), v # <<>>,
           NEW f \in Frame, f = Head(v), NEW T, Readable(l0, v, T)
    PROVE  Heard(l0, v, IncomingFrame(l0, f))
<1> DEFINE l == [l0 EXCEPT !.xFrmRcvAt = 0]
           u == [l EXCEPT !.uFrmSndAt = Off]
<1>1. l \in LinkType /\ u \in LinkType /\ l0 \in LinkType
  <2>1. 0 \in Timer(T3) /\ Off \in Timer(T1) /\ l0 \in LinkType
    BY TimerAssumption DEF Timer, Off, LinkInv
  <2>2. QED
    BY <2>1 DEF LinkType
<1>2. Calm(l0, l) /\ Calm(l, u)
  BY <1>1 DEF Calm, LinkType
<1>3. /\ l.tobedisc = l0.tobedisc /\ u.tobedisc = l0.tobedisc
      /\ l.tx = l0.tx /\ u.tx = l0.tx /\ l.seen = l0.seen /\ u.seen = l0.seen
      /\ l.acked = l0.acked /\ u.acked = l0.acked /\ l.nberr = l0.nberr /\ u.nberr = l0.nberr
  BY <1>1 DEF LinkType
<1>4. /\ LinkInv(l) /\ LinkInv(u) /\ l.conn
      /\ CountInv(l) /\ CountInv(u) /\ Moves(l0, v, l, v) /\ Readable(l, v, T)
  <2>1. LinkInv(l)
    BY <1>2, CalmKeepsInv
  <2>2. LinkInv(u)
    BY <1>2, <2>1, CalmKeepsInv
  <2>3. /\ l.sent = l0.sent /\ l.rcvd = l0.rcvd /\ l.conn = l0.conn
        /\ Base(l) = Base(l0) /\ Told(l) = Told(l0)
        /\ u.sent = l0.sent /\ u.rcvd = l0.rcvd /\ u.conn = l0.conn
        /\ Base(u) = Base(l0) /\ Told(u) = Told(l0)
    BY <1>2 DEF Calm, Base, Told
  <2>4. CountInv(l) /\ CountInv(u)
    <3>1. /\ l.vs = l0.vs /\ l.vr = l0.vr /\ l.va = l0.va /\ l.vapeer = l0.vapeer
          /\ u.vs = l0.vs /\ u.vr = l0.vr /\ u.va = l0.va /\ u.vapeer = l0.vapeer
          /\ l.ackqueue = l0.ackqueue /\ u.ackqueue = l0.ackqueue
      BY <1>2 DEF Calm
    <3>2. QED
      BY <1>3, <2>3, <3>1 DEF CountInv
  <2>5. Moves(l0, v, l, v)
    BY <1>1, <1>3, <2>3, SameCounts
  <2>6. Readable(l, v, T)
    BY <2>3 DEF Readable, ReadBy
  <2>7. QED
    BY <2>1, <2>2, <2>3, <2>4, <2>5, <2>6
<1>5. f.nr \in SeqNo /\ f.type \in UType \cup {"S", "I"}
  BY DEF Frame
<1>6. IncomingFrame(l0, f) =
        CASE f.type \in {"TESTFRcon", "STOPDTcon", "STARTDTcon"} ->
                EventIndication(u, f.type)
          [] f.type \in {"TESTFRact", "STOPDTact", "STARTDTact"} ->
                EventIndication(l, f.type)
          [] f.type = "S" ->
                IF OKNR(l.va, l.vs, f.nr)
                THEN EventIndication(Acknowledge(l, f.nr), "FRAMES")
                ELSE SeqError(l)
          [] f.type = "I" ->
                IF ~OKNR(l.va, l.vs, f.nr) THEN SeqError(l)
                ELSE IF ~OKNS(l.vr, f.ns) THEN SeqError(Acknowledge(l, f.nr))
                ELSE AcceptFrameI(Acknowledge(l, f.nr), f)
  BY DEF IncomingFrame
<1>7. f.type \in UType => Heard(l, v, u) /\ Heard(l, v, l)
  <2>1. ASSUME f.type \in UType
        PROVE  Heard(l, v, u) /\ Heard(l, v, l)
    <3>1. Confirms(l, f) = 0 /\ f.type # "I"
      BY <2>1 DEF Confirms, UType
    <3>2. /\ u.sent = l.sent /\ u.rcvd = l.rcvd /\ u.fd = l.fd /\ u.conn = l.conn
          /\ Base(u) = Base(l) /\ Told(u) = Told(l) /\ Base(l) = Base(l) + 0
      BY <1>2, <1>4 DEF Calm, Base, Told, CountInv
    <3> HIDE DEF l, u
    <3>3. Moves(l, v, l, Tail(v))
      BY <1>1, <1>4, <3>1, <3>2, HearMoves
    <3>4. Moves(l, v, u, Tail(v))
      BY <1>1, <1>3, <1>4, <3>1, <3>2, HearMoves
    <3>5. QED
      BY <1>3, <1>4, <3>2, <3>3, <3>4 DEF Heard
  <2>2. QED
    BY <2>1
<1> HIDE DEF l, u
<1>8. /\ f.type \in {"S", "I"} => OKNR(l.va, l.vs, f.nr)
      /\ f.type = "I" => OKNS(l.vr, f.ns)
  <2>1. PICK cnt, ack : Numbers(v, cnt, ack) /\ ReadBy(l, v, T, cnt, ack)
    BY <1>4 DEF Readable
  <2>2. QED
    BY <1>4, <2>1, HeadNumbers
<1>9. ASSUME f.type = "S"
      PROVE  Heard(l, v, EventIndication(Acknowledge(l, f.nr), "FRAMES"))
  <2>1. PICK nr \in SeqNo : nr = f.nr
    BY <1>5
  <2>2. PICK a : a = Acknowledge(l, nr)
    OBVIOUS
  <2>3. OKNR(l.va, l.vs, nr)
    BY <1>8, <1>9, <2>1
  <2>4. LinkInv(a) /\ a \in LinkType
    BY <1>4, <2>2, <2>3, AcknowledgeInv DEF LinkInv
  <2>5. Settles(l, nr, a)
    BY <1>4, <2>2, <2>3, AcknowledgeCounts
  <2>6. Confirms(l, f) = Dist(l.va, nr)
    BY <1>9, <2>1 DEF Confirms
  <2>7. Told(a) = Told(l)
    BY <2>5 DEF Told, Settles
  <2>8. Moves(l, v, a, Tail(v))
    BY <1>4, <1>9, <2>4, <2>5, <2>6, <2>7, HearMoves DEF Settles
  <2>9. Heard(l, v, a)
    BY <2>5, <2>8 DEF Heard, Settles
  <2>10. Heard(l, v, EventIndication(a, "FRAMES"))
    BY <2>4, <2>9, IndicationHeard
  <2>11. QED
    BY <2>1, <2>2, <2>10
<1>10. ASSUME f.type = "I"
       PROVE  Heard(l, v, AcceptFrameI(Acknowledge(l, f.nr), f))
  BY <1>4, <1>10, AcceptMoves DEF Heard
<1>11. Heard(l, v, IncomingFrame(l0, f))
  <2>1. f.type \in UType => IncomingFrame(l0, f) \in {EventIndication(u, f.type), EventIndication(l, f.type)}
    BY <1>6 DEF UType
  <2>2. f.type \in UType => Heard(l, v, IncomingFrame(l0, f))
    BY <1>1, <1>7, <2>1, IndicationHeard
  <2>3. f.type = "S" => Heard(l, v, IncomingFrame(l0, f))
    BY <1>6, <1>8, <1>9
  <2>4. f.type = "I" => Heard(l, v, IncomingFrame(l0, f))
    BY <1>6, <1>8, <1>10
  <2>5. QED
    BY <1>5, <2>2, <2>3, <2>4
<1>12. l.fd = l0.fd /\ l.conn = l0.conn
  BY <1>2 DEF Calm
<1>13. QED
  BY <1>3, <1>4, <1>11, <1>12, HeardFrom

-----------------------------------------------------------------------------
(* The invariant of the whole system *)

\* The links of connection c are the ends of one wire that carries data.
Together(c) == cur = c /\ up[c] /\ tcp[c] \in {"backlog", "open"}

\* The links and the kernels agree about the connections.
ConnInv ==
    /\ lk[Cli].fd <=> cur # NoConn
    /\ lk[Cli].conn => tcp[cur] # "syn"
    /\ (cur = NoConn \/ tcp[cur] = "syn") => net[Cli] = <<>>
    /\ \A c \in Conn :
         /\ lk[c].fd <=> tcp[c] = "open"
         /\ lk[c].fd => lk[c].conn
         /\ lk[c].tobedisc => lk[c].fd
         /\ tcp[c] \in {"syn", "shut"} => cur = c
         /\ cur = c => tcp[c] # "free"
         /\ tcp[c] \in {"free", "syn", "shut"} => net[c] = <<>>

\* What is true of link j and the frames before it, whatever became of the
\* other end.
WireOf(j) ==
    /\ CountInv(lk[j])
    /\ Readable(lk[j], net[j], Seen)
    /\ lk[j].acked \subseteq Seen

FlowsOf(c) ==
    Together(c) => /\ Flow(lk[Cli], lk[c], net[c], Seen)
                   /\ Flow(lk[c], lk[Cli], net[Cli], Seen)

\* A message that was acknowledged was seen, and every frame on a wire is
\* one that the link before it can read; while both ends have the
\* connection, the frames are what the one sent and the other did not read.
WireInv ==
    /\ ConnInv
    /\ \A j \in Link : WireOf(j)
    /\ \A c \in Conn : FlowsOf(c)

\* l and r do not differ in what the counts speak of.
Alike(l, r) ==
    /\ r.va = l.va /\ r.vs = l.vs /\ r.vr = l.vr /\ r.vapeer = l.vapeer
    /\ r.sent = l.sent /\ r.rcvd = l.rcvd /\ r.ackqueue = l.ackqueue
    /\ r.conn = l.conn /\ r.nberr = l.nberr
    /\ r.acked = l.acked /\ r.seen = l.seen

LEMMA AlikeWire ==
    ASSUME NEW l, NEW r, Alike(l, r)
    PROVE  /\ CountInv(l) => CountInv(r)
           /\ \A w, S : Readable(l, w, S) => Readable(r, w, S)
           /\ \A b, w, S : Flow(l, b, w, S) => Flow(r, b, w, S)
           /\ \A b, w, S : Flow(b, l, w, S) => Flow(b, r, w, S)
<1>1. Base(r) = Base(l) /\ Told(r) = Told(l) /\ r.sent = l.sent /\ r.rcvd = l.rcvd
  BY DEF Alike, Base, Told
<1>2. CountInv(l) => CountInv(r)
  BY <1>1 DEF CountInv, Alike
<1>3. \A w, S : Readable(l, w, S) => Readable(r, w, S)
  BY <1>1 DEF Readable, ReadBy
<1>4. \A b, w, S : Flow(l, b, w, S) => Flow(r, b, w, S)
  BY <1>1 DEF Flow, WrittenBy
<1>5. \A b, w, S : Flow(b, l, w, S) => Flow(b, r, w, S)
  BY <1>1 DEF Flow, ReadBy, WrittenBy
<1>6. QED
  BY <1>2, <1>3, <1>4, <1>5

\* The output of a link is on the wire: the link itself forgets it.
LEMMA WithoutTx ==
    ASSUME NEW l \in LinkType
    PROVE  /\ Alike(l, [l EXCEPT !.tx = <<>>])
           /\ [l EXCEPT !.tx = <<>>] \in LinkType
           /\ [l EXCEPT !.tx = <<>>].fd = l.fd
           /\ [l EXCEPT !.tx = <<>>].tobedisc = l.tobedisc
<1>1. <<>> \in Seq(Frame)
  OBVIOUS
<1>2. QED
  BY <1>1 DEF Alike, LinkType

LEMMA AlikeSelf == \A l : Alike(l, l)
BY DEF Alike

\* What can be read may also be lost.
LEMMA ReadNothing ==
    ASSUME NEW b, NEW w \in Seq(Frame), NEW S, Readable(b, w, S), CountInv(b), b \in LinkType
    PROVE  Readable(b, <<>>, S)
<1> DEFINE L == Len(w)
           c == [p \in 0..0 |-> Len(b.rcvd)]
           k == [p \in 0..0 |-> Base(b)]
<1>1. PICK cnt, ack : Numbers(w, cnt, ack) /\ ReadBy(b, w, S, cnt, ack)
  BY DEF Readable
<1>2. L \in Nat /\ Len(b.rcvd) \in Nat /\ Base(b) \in Nat /\ Len(<<>>) = 0 /\ Len(b.sent) \in Nat
  BY Lengths DEF CountInv
<1>3. ack[0] <= ack[L] /\ ack[L] \in Nat /\ ack[0] \in Nat
  BY <1>1, <1>2 DEF Numbers
<1>4. Base(b) <= Len(b.sent) /\ \A j \in 1..Base(b) : b.sent[j] \in S
  <2>1. ack[0] = Base(b) /\ ack[L] <= Len(b.sent) /\ \A j \in 1..ack[L] : b.sent[j] \in S
    BY <1>1 DEF ReadBy
  <2>2. PICK m, n, z \in Nat : m = ack[0] /\ n = ack[L] /\ z = Len(b.sent)
    BY <1>2, <1>3
  <2>3. m <= n /\ n <= z
    BY <1>3, <2>1, <2>2
  <2>4. m <= z /\ \A j \in 1..m : j \in 1..n
    BY <2>3
  <2>5. QED
    BY <2>1, <2>2, <2>4
<1>5. c[0] = Len(b.rcvd) /\ k[0] = Base(b) /\ c \in [0..0 -> Nat] /\ k \in [0..0 -> Nat]
  BY <1>2
<1> HIDE DEF c, k
<1>6. Numbers(<<>>, c, k)
  <2>1. \A p \in 0..0 : p = 0
    OBVIOUS
  <2>2. \A p, q \in 0..0 : p <= q => c[p] <= c[q] /\ k[p] <= k[q]
    BY <1>2, <1>5, <2>1
  <2>3. \A p \in 1..0 : FALSE
    OBVIOUS
  <2>4. QED
    BY <1>2, <1>5, <2>2, <2>3 DEF Numbers
<1>7. ReadBy(b, <<>>, S, c, k)
  BY <1>2, <1>4, <1>5 DEF ReadBy
<1>8. QED
  BY <1>6, <1>7 DEF Readable

\* A link that knows of no message, and an empty wire between two of them.
LEMMA BlankWire ==
    ASSUME NEW a, NEW b, CountInv(a), CountInv(b), a \in LinkType, b \in LinkType,
           a.sent = <<>>, a.rcvd = <<>>, a.ackqueue = <<>>,
           b.sent = <<>>, b.rcvd = <<>>, b.ackqueue = <<>>,
           NEW S
    PROVE  Flow(a, b, <<>>, S)
<1> DEFINE c == [p \in 0..0 |-> 0]
<1>1. Len(<<>>) = 0 /\ Base(b) = 0 /\ Told(a) = 0
  <2>1. Len(<<>>) = 0
    OBVIOUS
  <2>2. Told(a) \in Nat /\ Told(a) <= Len(a.rcvd)
    BY Lengths DEF CountInv
  <2>3. Told(a) = 0
    BY <2>1, <2>2
  <2>4. QED
    BY <2>1, <2>3 DEF Base
<1>2. c[0] = 0 /\ c \in [0..0 -> Nat]
  OBVIOUS
<1> HIDE DEF c
<1>3. (\A p \in 0..0 : p = 0) /\ (\A p \in 1..0 : FALSE)
  OBVIOUS
<1>4. Numbers(<<>>, c, c)
  <2>1. \A p, q \in 0..0 : p <= q => c[p] <= c[q]
    BY <1>2, <1>3
  <2>2. QED
    BY <1>1, <1>2, <1>3, <2>1 DEF Numbers
<1>5. ReadBy(b, <<>>, S, c, c)
  BY <1>1, <1>2, <1>3 DEF ReadBy
<1>6. WrittenBy(a, b, <<>>, c, c)
  BY <1>1, <1>2, <1>3 DEF WrittenBy
<1>7. QED
  BY <1>4, <1>5, <1>6 DEF Flow

\* A user is never un-given a message.
LEMMA SeenGrows ==
    ASSUME \A j \in Link : lk[j].seen \subseteq lk'[j].seen
    PROVE  Seen \subseteq Seen' /\ \A j \in Link : lk'[j].seen \subseteq Seen'
BY DEF Seen

LEMMA MoreSeen ==
    ASSUME NEW b \in LinkType, NEW w \in Seq(Frame), NEW S, NEW T, S \subseteq T
    PROVE  /\ Readable(b, w, S) => Readable(b, w, T)
           /\ \A a : Flow(a, b, w, S) => Flow(a, b, w, T)
<1>1. Len(b.sent) <= Len(b.sent)
  BY Lengths
<1>2. QED
  BY <1>1, ReaderGrows

\* A link and its wire that a step does not touch.
LEMMA StillWire ==
    ASSUME LinksInv, NEW j \in Link, Alike(lk[j], lk'[j]), lk'[j] \in LinkType,
           net'[j] = net[j] \/ net'[j] = <<>>, Seen \subseteq Seen', WireOf(j)
    PROVE  WireOf(j)'
<1>1. lk[j] \in LinkType /\ net[j] \in Seq(Frame)
  BY DEF LinksInv, TypeOK
<1>2. Readable(lk[j], net[j], Seen')
  BY <1>1, MoreSeen DEF WireOf
<1>3. CountInv(lk'[j]) /\ Readable(lk'[j], net[j], Seen')
  BY <1>2, AlikeWire DEF WireOf
<1>4. Readable(lk'[j], net'[j], Seen')
  BY <1>1, <1>3, ReadNothing
<1>5. lk'[j].acked \subseteq Seen'
  BY DEF WireOf, Alike
<1>6. QED
  BY <1>3, <1>4, <1>5 DEF WireOf

LEMMA StillFlows ==
    ASSUME LinksInv, NEW c \in Conn, Alike(lk[c], lk'[c]), Alike(lk[Cli], lk'[Cli]),
           Together(c)' => Together(c) /\ net'[c] = net[c] /\ net'[Cli] = net[Cli],
           Seen \subseteq Seen', FlowsOf(c)
    PROVE  FlowsOf(c)'
<1>1. c \in Link /\ Cli \in Link
  BY DEF Link
<1>2. /\ lk[c] \in LinkType /\ lk[Cli] \in LinkType
      /\ net[c] \in Seq(Frame) /\ net[Cli] \in Seq(Frame)
  BY <1>1 DEF LinksInv, TypeOK
<1>3. ASSUME Together(c)'
      PROVE  /\ Flow(lk'[Cli], lk'[c], net'[c], Seen')
             /\ Flow(lk'[c], lk'[Cli], net'[Cli], Seen')
  <2>1. Flow(lk[Cli], lk[c], net[c], Seen) /\ Flow(lk[c], lk[Cli], net[Cli], Seen)
    BY <1>3 DEF FlowsOf
  <2>2. Flow(lk[Cli], lk[c], net[c], Seen')
    BY <1>2, <2>1, MoreSeen
  <2>3. Flow(lk[c], lk[Cli], net[Cli], Seen')
    BY <1>2, <2>1, MoreSeen
  <2>4. Flow(lk'[Cli], lk'[c], net[c], Seen')
    BY <2>2, AlikeWire
  <2>5. Flow(lk'[c], lk'[Cli], net[Cli], Seen')
    BY <2>3, AlikeWire
  <2>6. QED
    BY <1>3, <2>4, <2>5
<1>4. QED
  BY <1>3 DEF FlowsOf

-----------------------------------------------------------------------------
(* One link takes a step *)

\* The frames that link i writes reach the other end, which is a link.
\* (PeerThere is about the kernels, Together about the links too.)
LEMMA Sends ==
    ASSUME LinksInv, ConnInv, NEW i \in Link, lk[i].fd
    PROVE  /\ ConnOf(i) \in Conn /\ Peer(i) \in Link /\ Peer(i) # i
           /\ PeerThere(i) /\ up[ConnOf(i)] <=> Together(ConnOf(i))
<1>1. CASE i = Cli
  <2>1. cur \in Conn
    BY <1>1 DEF ConnInv, LinksInv, TypeOK
  <2>2. QED
    BY <1>1, <2>1, ConnAssumption DEF ConnOf, Peer, PeerThere, Together, Link
<1>2. CASE i # Cli
  <2>1. i \in Conn /\ tcp[i] = "open"
    BY <1>2 DEF Link, ConnInv
  <2>2. QED
    BY <1>2, <2>1, ConnAssumption DEF ConnOf, Peer, PeerThere, Together, Link
<1>3. QED
  BY <1>1, <1>2

\* The ends of the wire of link i.
LEMMA OwnFlow ==
    ASSUME WireInv, NEW i \in Link, ConnOf(i) \in Conn, Together(ConnOf(i))
    PROVE  /\ Flow(lk[i], lk[Peer(i)], net[Peer(i)], Seen)
           /\ Flow(lk[Peer(i)], lk[i], net[i], Seen)
BY DEF WireInv, FlowsOf, ConnOf, Peer, Link, Together

\* Link i reads the first frames of net[i], v being left, and writes l.tx;
\* the connections stay.
LEMMA LinkMoves ==
    ASSUME LinksInv, WireInv, NEW i \in Link, ConnOf(i) \in Conn, Peer(i) \in Link,
           NEW l \in LinkType, CountInv(l), NEW v \in Seq(Frame), Moves(lk[i], net[i], l, v),
           lk' = [lk EXCEPT ![i] = [l EXCEPT !.tx = <<>>]], lk' \in [Link -> LinkType],
           net' = [j \in Link |->
                     IF j = i THEN v
                     ELSE IF Together(ConnOf(i)) /\ j = Peer(i) THEN net[j] \o l.tx
                     ELSE net[j]],
           \A c \in Conn : Together(c)' => Together(c)
    PROVE  (\A j \in Link : WireOf(j)') /\ (\A c \in Conn : FlowsOf(c)')
<1> DEFINE r == [l EXCEPT !.tx = <<>>]
           b == lk[Peer(i)]
           w == net[Peer(i)]
<1>1. lk \in [Link -> LinkType] /\ net \in [Link -> Seq(Frame)] /\ lk[i].tx = <<>>
  BY DEF LinksInv, TypeOK
<1>2. Alike(l, r) /\ r \in LinkType
  BY WithoutTx
<1> HIDE DEF r
<1>3. lk'[i] = r /\ \A j \in Link : j # i => lk'[j] = lk[j]
  BY <1>1 DEF r
<1>4. /\ net'[i] = v
      /\ \A j \in Link : j # i /\ (j # Peer(i) \/ ~Together(ConnOf(i))) => net'[j] = net[j]
      /\ Peer(i) # i /\ Together(ConnOf(i)) => net'[Peer(i)] = w \o l.tx
  OBVIOUS
<1>5. Seen \subseteq Seen' /\ l.seen \subseteq Seen'
  <2>1. lk[i].seen \subseteq l.seen /\ r.seen = l.seen
    BY <1>2 DEF Moves, Alike
  <2>2. \A j \in Link : lk[j].seen \subseteq lk'[j].seen
    BY <1>3, <2>1
  <2>3. QED
    BY <1>3, <2>1, <2>2, SeenGrows
<1>6. WireOf(i)'
  <2>1. Readable(lk[i], net[i], Seen')
    <3>1. lk[i] \in LinkType /\ net[i] \in Seq(Frame) /\ Readable(lk[i], net[i], Seen)
      BY <1>1 DEF WireInv, WireOf
    <3>2. QED
      BY <1>5, <3>1, MoreSeen
  <2>2. Readable(l, v, Seen') /\ l.acked \subseteq lk[i].acked \cup Seen'
    BY <1>5, <2>1 DEF Moves
  <2>3. CountInv(r) /\ Readable(r, v, Seen')
    BY <1>2, <2>2, AlikeWire
  <2>4. r.acked \subseteq Seen'
    BY <1>2, <1>5, <2>2 DEF Alike, WireInv, WireOf
  <2>5. QED
    BY <1>3, <1>4, <2>3, <2>4 DEF WireOf
<1>7. ASSUME Together(ConnOf(i))
      PROVE  /\ Peer(i) # i
             /\ Flow(lk'[i], lk'[Peer(i)], net'[Peer(i)], Seen')
             /\ Flow(lk'[Peer(i)], lk'[i], net'[i], Seen')
  <2>1. Peer(i) # i
    BY ConnAssumption DEF Peer, ConnOf, Link
  <2>2. b \in LinkType /\ w \in Seq(Frame) /\ lk'[Peer(i)] = b /\ lk[i] \in LinkType
        /\ net[i] \in Seq(Frame)
    BY <1>1, <1>3, <2>1
  <2>3. Flow(lk[i], b, w, Seen') /\ Flow(b, lk[i], net[i], Seen')
    <3>1. Flow(lk[i], b, w, Seen) /\ Flow(b, lk[i], net[i], Seen)
      BY <1>7, OwnFlow
    <3> HIDE DEF b, w
    <3>2. Flow(lk[i], b, w, Seen')
      BY <1>5, <2>2, <3>1, MoreSeen
    <3>3. Flow(b, lk[i], net[i], Seen')
      BY <1>5, <2>2, <3>1, MoreSeen
    <3>4. QED
      BY <3>2, <3>3
  <2> HIDE DEF b, w
  <2>4. w \o lk[i].tx = w
    BY <1>1, <2>2
  <2>5. Flow(l, b, w \o l.tx, Seen') /\ Flow(b, l, v, Seen')
    <3>1. PICK T : T = Seen'
      OBVIOUS
    <3>2. Flow(lk[i], b, w \o lk[i].tx, T) /\ Flow(b, lk[i], net[i], T) /\ l.seen \subseteq T
      BY <1>5, <2>3, <2>4, <3>1
    <3>3. Flow(l, b, w \o l.tx, T) /\ Flow(b, l, v, T)
      BY <2>2, <3>2 DEF Moves
    <3>4. QED
      BY <3>1, <3>3
  <2>6. Flow(r, b, w \o l.tx, Seen') /\ Flow(b, r, v, Seen')
    BY <1>2, <2>5, AlikeWire
  <2>7. QED
    BY <1>3, <1>4, <1>7, <2>1, <2>2, <2>6
<1>8. ASSUME NEW j \in Link, j # i
      PROVE  WireOf(j)'
  <2>1. CASE j = Peer(i) /\ Together(ConnOf(i))
    <3>1. Readable(lk'[j], net'[j], Seen')
      BY <1>7, <2>1, FlowReadable
    <3>2. lk'[j] = lk[j]
      BY <1>3, <1>8
    <3>3. QED
      BY <1>5, <3>1, <3>2 DEF WireInv, WireOf
  <2>2. CASE j # Peer(i) \/ ~Together(ConnOf(i))
    <3>1. lk'[j] = lk[j] /\ net'[j] = net[j] /\ lk[j] \in LinkType /\ Alike(lk[j], lk[j])
      BY <1>1, <1>3, <1>4, <1>8, <2>2, AlikeSelf
    <3>2. WireOf(j)
      BY DEF WireInv
    <3>3. QED
      BY <1>5, <3>1, <3>2, StillWire
  <2>3. QED
    BY <2>1, <2>2
<1>9. ASSUME NEW c \in Conn
      PROVE  FlowsOf(c)'
  <2>1. CASE Together(c) /\ c = ConnOf(i)
    <3>1. (i = Cli /\ Peer(i) = c) \/ (i = c /\ Peer(i) = Cli)
      BY <2>1 DEF Together, ConnOf, Peer
    <3>2. QED
      BY <1>7, <2>1, <3>1 DEF FlowsOf
  <2>2. CASE Together(c) /\ c # ConnOf(i)
    <3>1. i # Cli /\ i # c /\ ~Together(ConnOf(i)) /\ c \in Link /\ Cli \in Link
      BY <2>2 DEF Together, ConnOf, Link
    <3>2. lk'[c] = lk[c] /\ lk'[Cli] = lk[Cli] /\ net'[c] = net[c] /\ net'[Cli] = net[Cli]
      BY <1>3, <1>4, <3>1
    <3>3. Alike(lk[c], lk'[c]) /\ Alike(lk[Cli], lk'[Cli]) /\ FlowsOf(c)
      BY <3>2, AlikeSelf DEF WireInv
    <3>4. QED
      BY <1>5, <2>2, <3>2, <3>3, StillFlows
  <2>3. CASE ~Together(c)
    BY <2>3 DEF FlowsOf
  <2>4. QED
    BY <2>1, <2>2, <2>3
<1>10. QED
  BY <1>6, <1>8, <1>9

\* Link i closes its socket after writing: it is what r is, and before that
\* it was s.
LEMMA LinkCloses ==
    ASSUME LinksInv, WireInv, NEW i \in Link, ConnOf(i) \in Conn, Peer(i) \in Link,
           NEW r \in LinkType, CountInv(r),
           r.sent = <<>>, r.rcvd = <<>>, r.ackqueue = <<>>,
           NEW s \in LinkType, Moves(lk[i], net[i], s, net[i]),
           r.tx = s.tx, r.acked = s.acked, r.seen = s.seen,
           lk' = [lk EXCEPT ![i] = [r EXCEPT !.tx = <<>>]], lk' \in [Link -> LinkType],
           net' = [j \in Link |->
                     IF j = i THEN <<>>
                     ELSE IF Together(ConnOf(i)) /\ j = Peer(i) THEN net[j] \o r.tx
                     ELSE net[j]],
           \A c \in Conn : Together(c)' => Together(c) /\ c # ConnOf(i)
    PROVE  (\A j \in Link : WireOf(j)') /\ (\A c \in Conn : FlowsOf(c)')
<1> DEFINE q == [r EXCEPT !.tx = <<>>]
           b == lk[Peer(i)]
           w == net[Peer(i)]
<1>1. lk \in [Link -> LinkType] /\ net \in [Link -> Seq(Frame)] /\ lk[i].tx = <<>>
  BY DEF LinksInv, TypeOK
<1>2. Alike(r, q) /\ q \in LinkType
  BY WithoutTx
<1> HIDE DEF q
<1>3. lk'[i] = q /\ \A j \in Link : j # i => lk'[j] = lk[j]
  BY <1>1 DEF q
<1>4. /\ net'[i] = <<>>
      /\ \A j \in Link : j # i /\ (j # Peer(i) \/ ~Together(ConnOf(i))) => net'[j] = net[j]
      /\ Peer(i) # i /\ Together(ConnOf(i)) => net'[Peer(i)] = w \o r.tx
  OBVIOUS
<1>5. Seen \subseteq Seen' /\ s.seen \subseteq Seen'
  <2>1. lk[i].seen \subseteq s.seen /\ q.seen = s.seen
    BY <1>2 DEF Moves, Alike
  <2>2. \A j \in Link : lk[j].seen \subseteq lk'[j].seen
    BY <1>3, <2>1
  <2>3. QED
    BY <1>3, <2>1, <2>2, SeenGrows
<1>6. PICK T : T = Seen'
  OBVIOUS
<1>7. WireOf(i)'
  <2>1. Readable(lk[i], net[i], T)
    <3>1. lk[i] \in LinkType /\ net[i] \in Seq(Frame) /\ Readable(lk[i], net[i], Seen)
      BY <1>1 DEF WireInv, WireOf
    <3>2. QED
      BY <1>5, <1>6, <3>1, MoreSeen
  <2>2. s.acked \subseteq lk[i].acked \cup T
    BY <1>5, <1>6, <2>1 DEF Moves
  <2>3. Readable(r, <<>>, T)
    BY BlankWire, FlowReadable
  <2>4. CountInv(q) /\ Readable(q, <<>>, T)
    BY <1>2, <2>3, AlikeWire
  <2>5. q.acked \subseteq T
    BY <1>2, <1>5, <1>6, <2>2 DEF Alike, WireInv, WireOf
  <2>6. QED
    BY <1>3, <1>4, <1>6, <2>4, <2>5 DEF WireOf
<1>8. ASSUME Together(ConnOf(i)), Peer(i) # i
      PROVE  Readable(lk'[Peer(i)], net'[Peer(i)], T)
  <2>1. /\ b \in LinkType /\ w \in Seq(Frame) /\ lk'[Peer(i)] = b /\ lk[i] \in LinkType
        /\ net[i] \in Seq(Frame)
    BY <1>1, <1>3, <1>8
  <2>2. Flow(lk[i], b, w, T) /\ Flow(b, lk[i], net[i], T)
    <3>1. Flow(lk[i], b, w, Seen) /\ Flow(b, lk[i], net[i], Seen)
      BY <1>8, OwnFlow
    <3> HIDE DEF b, w
    <3>2. Flow(lk[i], b, w, T)
      BY <1>5, <1>6, <2>1, <3>1, MoreSeen
    <3>3. Flow(b, lk[i], net[i], T)
      BY <1>5, <1>6, <2>1, <3>1, MoreSeen
    <3>4. QED
      BY <3>2, <3>3
  <2> HIDE DEF b, w
  <2>3. w \o lk[i].tx = w
    BY <1>1, <2>1
  <2>4. Flow(lk[i], b, w \o lk[i].tx, T) /\ s.seen \subseteq T
    BY <1>5, <1>6, <2>2, <2>3
  <2>5. Flow(s, b, w \o s.tx, T)
    BY <2>1, <2>2, <2>4 DEF Moves
  <2>6. Readable(b, w \o s.tx, T)
    BY <2>5, FlowReadable
  <2>7. QED
    BY <1>4, <1>8, <2>1, <2>6
<1>9. ASSUME NEW j \in Link, j # i
      PROVE  WireOf(j)'
  <2>1. CASE j = Peer(i) /\ Together(ConnOf(i))
    <3>1. Readable(lk'[j], net'[j], Seen')
      BY <1>6, <1>8, <1>9, <2>1
    <3>2. lk'[j] = lk[j]
      BY <1>3, <1>9
    <3>3. QED
      BY <1>5, <3>1, <3>2 DEF WireInv, WireOf
  <2>2. CASE j # Peer(i) \/ ~Together(ConnOf(i))
    <3>1. lk'[j] = lk[j] /\ net'[j] = net[j] /\ lk[j] \in LinkType /\ Alike(lk[j], lk[j])
      BY <1>1, <1>3, <1>4, <1>9, <2>2, AlikeSelf
    <3>2. WireOf(j)
      BY DEF WireInv
    <3>3. QED
      BY <1>5, <3>1, <3>2, StillWire
  <2>3. QED
    BY <2>1, <2>2
<1>10. ASSUME NEW c \in Conn
       PROVE  FlowsOf(c)'
  <2>1. CASE Together(c) /\ c # ConnOf(i)
    <3>1. i # Cli /\ i # c /\ ~Together(ConnOf(i)) /\ c \in Link /\ Cli \in Link
      BY <2>1 DEF Together, ConnOf, Link
    <3>2. lk'[c] = lk[c] /\ lk'[Cli] = lk[Cli] /\ net'[c] = net[c] /\ net'[Cli] = net[Cli]
      BY <1>3, <1>4, <3>1
    <3>3. Alike(lk[c], lk'[c]) /\ Alike(lk[Cli], lk'[Cli]) /\ FlowsOf(c)
      BY <3>2, AlikeSelf DEF WireInv
    <3>4. QED
      BY <1>5, <2>1, <3>2, <3>3, StillFlows
  <2>2. CASE ~(Together(c) /\ c # ConnOf(i))
    BY <2>2 DEF FlowsOf
  <2>3. QED
    BY <2>1, <2>2
<1>11. QED
  BY <1>7, <1>9, <1>10

\* What one link commits, whether its connection goes on or not.
LEMMA CommitWire ==
    ASSUME LinksInv, WireInv, NEW i \in Link, lk[i].fd, NEW l \in LinkType,
           Outcome(lk[i], net[i], l), Commit(i, l), up' = up, lk' \in [Link -> LinkType]
    PROVE  (\A j \in Link : WireOf(j)') /\ (\A c \in Conn : FlowsOf(c)')
<1>1. /\ ConnOf(i) \in Conn /\ Peer(i) \in Link /\ Peer(i) # i
      /\ PeerThere(i) /\ up[ConnOf(i)] <=> Together(ConnOf(i))
  BY Sends DEF WireInv
<1>2. /\ lk' = [lk EXCEPT ![i] = [l EXCEPT !.tx = <<>>]]
      /\ net' = [j \in Link |->
                   IF j = i /\ ~l.fd THEN <<>>
                   ELSE IF Together(ConnOf(i)) /\ j = Peer(i) THEN net[j] \o l.tx
                   ELSE net[j]]
      /\ cur' = IF ~l.fd /\ i = Cli THEN NoConn ELSE cur
      /\ tcp' = IF l.fd THEN tcp
                ELSE IF i = Cli
                     THEN [tcp EXCEPT ![ConnOf(i)] = IF @ \in {"syn", "shut"} THEN "free" ELSE @]
                     ELSE [tcp EXCEPT ![ConnOf(i)] = IF cur = ConnOf(i) THEN "shut" ELSE "free"]
  BY <1>1 DEF Commit
<1>3. net[i] \in Seq(Frame) /\ tcp \in [Conn -> {"free", "syn", "backlog", "open", "shut"}]
  BY DEF LinksInv, TypeOK
<1>4. CountInv(l)
  BY DEF Outcome
<1>5. CASE l.fd
  <2>1. Moves(lk[i], net[i], l, net[i])
    BY <1>5 DEF Outcome
  <2>2. net' = [j \in Link |->
                  IF j = i THEN net[i]
                  ELSE IF Together(ConnOf(i)) /\ j = Peer(i) THEN net[j] \o l.tx
                  ELSE net[j]]
    BY <1>1, <1>2, <1>5
  <2>3. \A c \in Conn : Together(c)' => Together(c)
    BY <1>2, <1>5 DEF Together
  <2>4. QED
    BY <1>1, <1>2, <1>3, <1>4, <2>1, <2>2, <2>3, LinkMoves
<1>6. CASE ~l.fd
  <2>1. PICK s \in LinkType : /\ Moves(lk[i], net[i], s, net[i])
                              /\ l.tx = s.tx /\ l.acked = s.acked /\ l.seen = s.seen
    BY <1>6 DEF Outcome
  <2>2. l.sent = <<>> /\ l.rcvd = <<>> /\ l.ackqueue = <<>>
    BY <1>6 DEF Outcome
  <2>3. net' = [j \in Link |->
                  IF j = i THEN <<>>
                  ELSE IF Together(ConnOf(i)) /\ j = Peer(i) THEN net[j] \o l.tx
                  ELSE net[j]]
    BY <1>2, <1>6
  <2>4. \A c \in Conn : Together(c)' => Together(c) /\ c # ConnOf(i)
    <3>1. CASE i = Cli
      BY <1>2, <1>6, <3>1, ConnAssumption DEF Together
    <3>2. CASE i # Cli
      <4>1. ConnOf(i) = i /\ cur' = cur
        BY <1>2, <3>2 DEF ConnOf
      <4>2. /\ tcp'[i] \in {"shut", "free"}
            /\ \A c \in Conn : c # i => tcp'[c] = tcp[c]
        BY <1>1, <1>2, <1>3, <1>6, <3>2, <4>1
      <4>3. QED
        BY <4>1, <4>2 DEF Together
    <3>3. QED
      BY <3>1, <3>2
  <2>5. QED
    BY <1>1, <1>2, <1>4, <2>1, <2>2, <2>3, <2>4, LinkCloses
<1>7. QED
  BY <1>5, <1>6, <1>4 DEF LinkType

\* A link that commits while its connection goes on, or that closes it.
LEMMA CommitConn ==
    ASSUME LinksInv, ConnInv, NEW i \in Link, lk[i].fd, NEW l \in LinkType, Commit(i, l),
           \/ /\ l.fd /\ l.tobedisc = lk[i].tobedisc
              /\ l.conn = lk[i].conn \/ (i = Cli /\ tcp[cur] # "syn")
           \/ ~l.fd /\ ~l.conn /\ ~l.tobedisc
    PROVE  ConnInv'
<1> DEFINE r == [l EXCEPT !.tx = <<>>]
           d == ConnOf(i)
<1>1. /\ d \in Conn /\ Peer(i) \in Link /\ Peer(i) # i
      /\ PeerThere(i) /\ up[d] <=> Together(d)
  BY Sends
<1>2. /\ lk \in [Link -> LinkType] /\ net \in [Link -> Seq(Frame)]
      /\ tcp \in [Conn -> {"free", "syn", "backlog", "open", "shut"}]
      /\ cur \in Conn \cup {NoConn}
  BY DEF LinksInv, TypeOK
<1>3. r.fd = l.fd /\ r.conn = l.conn /\ r.tobedisc = l.tobedisc
  BY WithoutTx DEF Alike
<1> HIDE DEF r
<1>4. /\ lk'[i] = r /\ \A j \in Link : j # i => lk'[j] = lk[j]
      /\ ~l.fd => net'[i] = <<>>
      /\ l.fd => net'[i] = net[i]
      /\ \A j \in Link : j # i /\ (j # Peer(i) \/ ~Together(d)) => net'[j] = net[j]
      /\ cur' = IF ~l.fd /\ i = Cli THEN NoConn ELSE cur
      /\ l.fd => tcp' = tcp
      /\ ~l.fd => tcp' = IF i = Cli
                         THEN [tcp EXCEPT ![d] = IF @ \in {"syn", "shut"} THEN "free" ELSE @]
                         ELSE [tcp EXCEPT ![d] = IF cur = d THEN "shut" ELSE "free"]
  BY <1>1, <1>2 DEF Commit, r
<1> HIDE DEF d
<1>5. Cli \in Link /\ Conn \subseteq Link /\ Cli \notin Conn /\ NoConn \notin Conn
  BY ConnAssumption DEF Link
<1>6. CASE i = Cli
  <2>1. d = cur /\ Peer(i) = cur /\ cur \in Conn
    BY <1>1, <1>6 DEF ConnOf, d, Peer
  <2>2. \A c \in Conn : lk'[c] = lk[c]
    BY <1>4, <1>5, <1>6
  <2>3. CASE l.fd
    <3>1. \A c \in Conn : tcp[c] \in {"free", "syn", "shut"} => net'[c] = net[c]
      BY <1>4, <1>5, <1>6, <2>1 DEF Together
    <3>2. lk'[Cli].fd /\ (lk'[Cli].conn => tcp[cur] # "syn") /\ net'[Cli] = net[Cli]
      BY <1>3, <1>4, <1>6, <2>3 DEF ConnInv
    <3>3. cur' = cur /\ tcp' = tcp
      BY <1>4, <2>3
    <3>4. QED
      BY <1>6, <2>2, <3>1, <3>2, <3>3 DEF ConnInv
  <2>4. CASE ~l.fd
    <3>1. /\ ~lk'[Cli].fd /\ ~lk'[Cli].conn /\ net'[Cli] = <<>> /\ cur' = NoConn
      BY <1>3, <1>4, <1>6, <2>4
    <3>2. /\ tcp'[cur] = IF tcp[cur] \in {"syn", "shut"} THEN "free" ELSE tcp[cur]
          /\ \A c \in Conn : c # cur => tcp'[c] = tcp[c]
      BY <1>2, <1>4, <1>6, <2>1, <2>4
    <3>3. \A c \in Conn : tcp[c] \in {"free", "syn", "shut"} => net'[c] = net[c]
      BY <1>4, <1>5, <1>6, <2>1 DEF Together
    <3>4. ASSUME NEW c \in Conn
          PROVE  /\ lk'[c].fd <=> tcp'[c] = "open"
                 /\ lk'[c].fd => lk'[c].conn
                 /\ lk'[c].tobedisc => lk'[c].fd
                 /\ tcp'[c] \notin {"syn", "shut"}
                 /\ cur' # c
                 /\ tcp'[c] \in {"free", "syn", "shut"} => net'[c] = <<>>
      <4>1. CASE c = cur
        BY <1>5, <2>2, <3>1, <3>2, <3>3, <4>1 DEF ConnInv
      <4>2. CASE c # cur
        BY <1>5, <2>2, <3>1, <3>2, <3>3, <4>2 DEF ConnInv
      <4>3. QED
        BY <4>1, <4>2
    <3>5. QED
      BY <3>1, <3>4 DEF ConnInv
  <2>5. QED
    BY <2>3, <2>4 DEF LinkType
<1>7. CASE i # Cli
  <2>1. d = i /\ Peer(i) = Cli /\ i \in Conn /\ tcp[i] = "open" /\ lk[i].conn
    BY <1>5, <1>7 DEF ConnOf, d, Peer, Link, ConnInv
  <2>2. lk'[Cli] = lk[Cli] /\ cur' = cur /\ \A c \in Conn : c # i => net'[c] = net[c] /\ lk'[c] = lk[c]
    BY <1>4, <1>5, <1>7, <2>1
  <2>3. (cur = NoConn \/ tcp[cur] = "syn") => net'[Cli] = <<>>
    <3>1. (cur = NoConn \/ tcp[cur] = "syn") => net[Cli] = <<>> /\ ~Together(d)
      BY <1>5, <2>1 DEF ConnInv, Together
    <3>2. QED
      BY <1>4, <1>5, <1>7, <3>1
  <2>4. CASE l.fd
    <3>1. lk'[i].fd /\ lk'[i].conn /\ tcp' = tcp /\ net'[i] = net[i]
      BY <1>3, <1>4, <1>7, <2>1, <2>4
    <3>2. \A c \in Conn :
             /\ lk'[c].fd <=> tcp'[c] = "open"
             /\ lk'[c].fd => lk'[c].conn
             /\ lk'[c].tobedisc => lk'[c].fd
             /\ net'[c] = net[c]
      BY <2>1, <2>2, <3>1 DEF ConnInv
    <3>3. QED
      BY <2>2, <2>3, <3>1, <3>2 DEF ConnInv
  <2>5. CASE ~l.fd
    <3>1. ~lk'[i].fd /\ ~lk'[i].tobedisc /\ net'[i] = <<>>
      BY <1>3, <1>4, <2>5
    <3>2. /\ tcp'[i] = IF cur = i THEN "shut" ELSE "free"
          /\ \A c \in Conn : c # i => tcp'[c] = tcp[c]
      BY <1>2, <1>4, <1>7, <2>1, <2>5
    <3>3. \A c \in Conn :
             /\ lk'[c].fd <=> tcp'[c] = "open"
             /\ lk'[c].fd => lk'[c].conn
             /\ lk'[c].tobedisc => lk'[c].fd
             /\ tcp'[c] \in {"syn", "shut"} => cur = c
             /\ cur = c => tcp'[c] # "free"
             /\ tcp'[c] \in {"free", "syn", "shut"} => net'[c] = <<>>
      BY <2>2, <3>1, <3>2 DEF ConnInv
    <3>4. /\ lk'[Cli].fd <=> cur # NoConn
          /\ lk'[Cli].conn => tcp'[cur] # "syn"
          /\ (cur = NoConn \/ tcp'[cur] = "syn") => net'[Cli] = <<>>
      <4>1. lk[Cli].conn => cur \in Conn
        BY <1>2, <1>5 DEF ConnInv, LinksInv, LinkInv
      <4>2. cur \in Conn => (tcp'[cur] = "syn" => tcp[cur] = "syn")
        BY <3>2
      <4>3. QED
        BY <1>2, <2>2, <2>3, <4>1, <4>2 DEF ConnInv
    <3>5. QED
      BY <2>2, <3>3, <3>4 DEF ConnInv
  <2>6. QED
    BY <2>4, <2>5 DEF LinkType
<1>8. QED
  BY <1>6, <1>7

\* A link reads a frame.
LEMMA RecvConn ==
    ASSUME LinksInv, ConnInv, NEW i \in Link, lk[i].fd, net[i] # <<>>,
           NEW l \in LinkType, l.fd = lk[i].fd, l.conn = lk[i].conn, l.tobedisc = lk[i].tobedisc,
           lk' = [lk EXCEPT ![i] = [l EXCEPT !.tx = <<>>]], tcp' = tcp, cur' = cur,
           \A j \in Link : j # i /\ (j # Peer(i) \/ ~Together(ConnOf(i))) => net'[j] = net[j]
    PROVE  ConnInv'
<1> DEFINE r == [l EXCEPT !.tx = <<>>]
<1>1. Cli \in Link /\ Conn \subseteq Link /\ Cli \notin Conn /\ NoConn \notin Conn
  BY ConnAssumption DEF Link
<1>2. r.fd = lk[i].fd /\ r.conn = lk[i].conn /\ r.tobedisc = lk[i].tobedisc
  BY WithoutTx DEF Alike
<1> HIDE DEF r
<1>3. \A j \in Link : /\ lk'[j].fd = lk[j].fd /\ lk'[j].conn = lk[j].conn
                      /\ lk'[j].tobedisc = lk[j].tobedisc
  BY <1>2 DEF LinksInv, TypeOK, r
<1>4. ASSUME NEW j \in Link, net[j] = <<>>, ~(j = Peer(i) /\ Together(ConnOf(i)))
      PROVE  net'[j] = <<>>
  BY <1>4
<1>5. \A c \in Conn : tcp[c] \in {"free", "syn", "shut"} => net'[c] = <<>>
  <2>1. \A c \in Conn : tcp[c] \in {"free", "syn", "shut"} =>
            net[c] = <<>> /\ ~(c = Peer(i) /\ Together(ConnOf(i)))
    BY <1>1 DEF ConnInv, Peer, Together, ConnOf
  <2>2. QED
    BY <1>1, <1>4, <2>1
<1>6. (cur = NoConn \/ tcp[cur] = "syn") => net'[Cli] = <<>>
  <2>1. (cur = NoConn \/ tcp[cur] = "syn") => net[Cli] = <<>> /\ ~(Cli = Peer(i) /\ Together(ConnOf(i)))
    <3>1. (cur = NoConn \/ tcp[cur] = "syn") => ~Together(ConnOf(i))
      BY Sends, <1>1 DEF Together
    <3>2. QED
      BY <3>1 DEF ConnInv
  <2>2. QED
    BY <1>1, <1>4, <2>1
<1>7. QED
  BY <1>1, <1>3, <1>5, <1>6 DEF ConnInv

\* A link commits: both parts of the invariant.
LEMMA CommitKeeps ==
    ASSUME LinksInv, LinksInv', WireInv, NEW i \in Link, lk[i].fd, NEW l \in LinkType,
           Outcome(lk[i], net[i], l), Commit(i, l), up' = up
    PROVE  WireInv'
<1>1. ConnInv /\ lk' \in [Link -> LinkType]
  BY DEF WireInv, LinksInv, TypeOK
<1>2. ConnInv'
  <2>1. \/ l.fd /\ l.tobedisc = lk[i].tobedisc /\ l.conn = lk[i].conn
        \/ ~l.fd /\ ~l.conn /\ ~l.tobedisc
    BY DEF Outcome
  <2>2. QED
    BY <1>1, <2>1, CommitConn
<1>3. (\A j \in Link : WireOf(j)') /\ (\A c \in Conn : FlowsOf(c)')
  BY <1>1, CommitWire
<1>4. QED
  BY <1>2, <1>3 DEF WireInv

\* A disconnection is the outcome of closing a link.
LEMMA ClosedOutcome ==
    ASSUME NEW i, NEW l \in LinkType, CountInv(l), NEW v \in Seq(Frame)
    PROVE  Outcome(l, v, LapDisconnected(i, l))
<1>1. Moves(l, v, l, v)
  BY SameCounts
<1>2. Outcome(l, v, l)
  BY <1>1 DEF Outcome
<1>3. QED
  BY <1>2, DisconnectedOutcome

LEMMA ClosingKeeps ==
    ASSUME LinksInv, LinksInv', WireInv, NEW i \in Link, lk[i].fd,
           Commit(i, LapDisconnected(i, lk[i])), up' = up
    PROVE  WireInv'
<1>1. lk[i] \in LinkType /\ net[i] \in Seq(Frame) /\ CountInv(lk[i])
  BY DEF LinksInv, TypeOK, WireInv, WireOf
<1>2. Outcome(lk[i], net[i], LapDisconnected(i, lk[i]))
  BY <1>1, ClosedOutcome
<1>3. LapDisconnected(i, lk[i]) \in LinkType
  BY <1>1, DisconnectedInv DEF LinkInv
<1>4. QED
  BY <1>2, <1>3, CommitKeeps

\* Steps that leave alone what the counts speak of, and the connections.
LEMMA AlikeKeeps ==
    ASSUME LinksInv, LinksInv', WireInv,
           \A j \in Link : Alike(lk[j], lk'[j]),
           \A j \in Link : net'[j] = net[j] \/ net'[j] = <<>>,
           \A c \in Conn : Together(c)' => /\ Together(c)
                                           /\ net'[c] = net[c] /\ net'[Cli] = net[Cli],
           ConnInv'
    PROVE  WireInv'
<1>1. Seen \subseteq Seen'
  <2>1. \A j \in Link : lk[j].seen \subseteq lk'[j].seen
    BY DEF Alike
  <2>2. QED
    BY <2>1, SeenGrows
<1>2. ASSUME NEW j \in Link
      PROVE  WireOf(j)'
  <2>1. lk'[j] \in LinkType /\ WireOf(j)
    BY DEF LinksInv, TypeOK, WireInv
  <2>2. QED
    BY <1>1, <2>1, StillWire
<1>3. ASSUME NEW c \in Conn
      PROVE  FlowsOf(c)'
  <2>1. c \in Link /\ Cli \in Link /\ FlowsOf(c)
    BY DEF Link, WireInv
  <2>2. QED
    BY <1>1, <2>1, StillFlows
<1>4. QED
  BY <1>2, <1>3 DEF WireInv

\* Every step of a link preserves the invariant, one step per action.
LEMMA LinkStepWire ==
    ASSUME LinksInv, LinksInv', WireInv, NEW i \in Link, LinkStep(i)
    PROVE  WireInv'
<1>1. /\ LinkInv(lk[i]) /\ lk[i] \in LinkType /\ net[i] \in Seq(Frame)
      /\ CountInv(lk[i]) /\ Readable(lk[i], net[i], Seen) /\ ConnInv
      /\ lk[i].conn => lk[i].fd
      /\ lk \in [Link -> LinkType] /\ lk' \in [Link -> LinkType]
  BY DEF LinksInv, LinkInv, TypeOK, WireInv, WireOf
<1>2. CASE Recv(i)
  <2> DEFINE f == Head(net[i])
             l == IncomingFrame(lk[i], f)
  <2>1. lk[i].conn /\ net[i] # <<>> /\ f \in Frame /\ lk[i].fd /\ Tail(net[i]) \in Seq(Frame)
    BY <1>1, <1>2 DEF Recv
  <2>2. Heard(lk[i], net[i], l)
    BY <1>1, <2>1, IncomingFrameMoves
  <2>3. l \in LinkType
    BY <1>1, <2>1, IncomingFrameInv DEF LinkInv
  <2>4. /\ ConnOf(i) \in Conn /\ Peer(i) \in Link /\ Peer(i) # i
        /\ PeerThere(i) /\ up[ConnOf(i)] <=> Together(ConnOf(i))
    BY <1>1, <2>1, Sends
  <2>5. /\ lk' = [lk EXCEPT ![i] = [l EXCEPT !.tx = <<>>]]
        /\ net' = [j \in Link |->
                     IF j = i THEN Tail(net[i])
                     ELSE IF Together(ConnOf(i)) /\ j = Peer(i) THEN net[j] \o l.tx
                     ELSE net[j]]
        /\ tcp' = tcp /\ cur' = cur /\ up' = up
    BY <1>2, <2>4 DEF Recv
  <2> HIDE DEF l
  <2>6. \A c \in Conn : Together(c)' => Together(c)
    BY <2>5 DEF Together
  <2>7. (\A j \in Link : WireOf(j)') /\ (\A c \in Conn : FlowsOf(c)')
    BY <1>1, <2>1, <2>2, <2>3, <2>4, <2>5, <2>6, LinkMoves DEF Heard
  <2>8. ConnInv'
    <3>1. \A j \in Link : j # i /\ (j # Peer(i) \/ ~Together(ConnOf(i))) => net'[j] = net[j]
      BY <2>5
    <3>2. QED
      BY <1>1, <2>1, <2>2, <2>3, <2>5, <3>1, RecvConn DEF Heard
  <2>9. QED
    BY <2>7, <2>8 DEF WireInv
<1>3. CASE Send(i)
  <2>1. PICK fail \in Nat : Commit(i, LapRunOutQueue(lk[i], fail))
    BY <1>3, WindowAssumption, NAssumption DEF Send
  <2> DEFINE l == LapRunOutQueue(lk[i], fail)
  <2>2. lk[i].conn /\ up' = up
    BY <1>3 DEF Send
  <2>3. l \in LinkType
    BY <1>1, RunOutQueueInv DEF LinkInv
  <2>4. /\ CountInv(l) /\ Moves(lk[i], net[i], l, net[i])
        /\ l.fd = lk[i].fd /\ l.conn = lk[i].conn /\ l.tobedisc = lk[i].tobedisc
    BY <1>1, <2>2, RunOutQueueMoves
  <2> HIDE DEF l
  <2>5. Outcome(lk[i], net[i], l)
    BY <2>2, <2>4 DEF Outcome
  <2>6. Commit(i, l)
    BY <2>1 DEF l
  <2>7. QED
    BY <1>1, <2>2, <2>3, <2>5, <2>6, CommitKeeps
<1>4. CASE ReadEof(i) \/ ReadError(i) \/ Disc(i)
  <2>1. lk[i].fd /\ up' = up /\ Commit(i, LapDisconnected(i, lk[i]))
    BY <1>1, <1>4 DEF ReadEof, ReadError, Disc, AtEof
  <2>2. QED
    BY <2>1, ClosingKeeps
<1>5. CASE \E re \in BOOLEAN : ClockSc(i, re)
  <2>1. PICK re \in BOOLEAN : ClockSc(i, re)
    BY <1>5
  <2>2. LapDoClockSc(i, lk[i], re) \in LinkType
    BY <1>1, ClockInv DEF LinkInv
  <2>3. Outcome(lk[i], net[i], LapDoClockSc(i, lk[i], re))
    BY <1>1, ClockMoves
  <2>4. QED
    BY <2>1, <2>2, <2>3, CommitKeeps DEF ClockSc
<1>6. CASE PutOutQueue(i)
  <2> DEFINE o == Append(lk[i].outqueue, used["put"] + 1)
             l == [lk[i] EXCEPT !.outqueue = o]
  <2>1. Alike(lk[i], l) /\ l.fd = lk[i].fd /\ l.conn = lk[i].conn /\ l.tobedisc = lk[i].tobedisc
    BY <1>1 DEF Alike, LinkType
  <2> HIDE DEF o
  <2>2. lk' = [lk EXCEPT ![i] = l] /\ net' = net /\ tcp' = tcp /\ cur' = cur /\ up' = up
    BY <1>6 DEF PutOutQueue, o
  <2> HIDE DEF l
  <2>3. \A j \in Link : /\ Alike(lk[j], lk'[j])
                        /\ lk'[j].fd = lk[j].fd /\ lk'[j].conn = lk[j].conn
                        /\ lk'[j].tobedisc = lk[j].tobedisc
    BY <1>1, <2>1, <2>2, AlikeSelf
  <2>4. ConnInv'
    BY <1>1, <2>2, <2>3 DEF ConnInv, Link
  <2>5. \A c \in Conn : Together(c)' => Together(c)
    BY <2>2 DEF Together
  <2>6. QED
    BY <2>2, <2>3, <2>4, <2>5, AlikeKeeps
<1>7. CASE \E evt \in {"STARTDTact", "STOPDTact", "TESTFRact"} : Request(i, evt)
  <2>1. PICK evt : Request(i, evt)
    BY <1>7
  <2> DEFINE l == EventRequest(lk[i], evt)
  <2>2. lk[i].conn /\ up' = up /\ Commit(i, l)
    BY <2>1 DEF Request
  <2>3. Mute(lk[i], l) /\ l.tobedisc = lk[i].tobedisc
    BY <1>1, EventRequestMute, EventFlags
  <2> HIDE DEF l
  <2>4. CountInv(l) /\ Moves(lk[i], net[i], l, net[i])
    BY <1>1, <2>3, MuteMoves
  <2>5. l \in LinkType /\ l.fd = lk[i].fd /\ l.conn = lk[i].conn
    BY <2>3 DEF Mute, Calm
  <2>6. Outcome(lk[i], net[i], l)
    BY <2>2, <2>3, <2>4, <2>5 DEF Outcome
  <2>7. QED
    BY <1>1, <2>2, <2>5, <2>6, CommitKeeps
<1>8. QED
  BY <1>2, <1>3, <1>4, <1>5, <1>6, <1>7 DEF LinkStep

\* A freshly accepted link: nothing of an earlier connection is left in it.
LEMMA AcceptedLink ==
    ASSUME NEW c, NEW l \in LinkType, CountInv(l), ~l.conn, NEW v \in Seq(Frame),
           NEW r, r = EventConnected(c, [LapReset(l, TRUE) EXCEPT !.fd = TRUE, !.conn = TRUE])
    PROVE  /\ r \in LinkType /\ CountInv(r) /\ Moves(l, v, r, v)
           /\ r.fd /\ r.conn /\ ~r.tobedisc
<1> DEFINE k == LapReset(l, TRUE)
           q == [k EXCEPT !.fd = TRUE, !.conn = TRUE]
<1>1. /\ k \in LinkType
      /\ ~k.nberr /\ ~k.tobedisc
      /\ k.sent = <<>> /\ k.rcvd = <<>> /\ k.ackqueue = <<>>
      /\ k.va = 0 /\ k.vs = 0 /\ k.vr = 0 /\ k.vapeer = 0
      /\ k.tx = l.tx /\ k.acked = l.acked /\ k.seen = l.seen
  <2>1. k \in LinkType
    BY ResetInv DEF LinkInv
  <2>2. QED
    BY <2>1 DEF LapReset, NewLink
<1> HIDE DEF k
<1>2. /\ q \in LinkType /\ q.fd /\ q.conn
      /\ ~q.nberr /\ ~q.tobedisc
      /\ q.sent = <<>> /\ q.rcvd = <<>> /\ q.ackqueue = <<>>
      /\ q.va = 0 /\ q.vs = 0 /\ q.vr = 0 /\ q.vapeer = 0
      /\ q.tx = l.tx /\ q.acked = l.acked /\ q.seen = l.seen
  BY <1>1 DEF LinkType
<1> HIDE DEF q
<1>3. Len(<<>>) = 0 /\ 0 \in SeqNo /\ Dist(0, 0) = 0 /\ SeqOf(0) = 0
  BY CountZero
<1>4. Base(q) = 0 /\ Told(q) = 0
  BY <1>2, <1>3 DEF Base, Told
<1>5. Base(l) = 0 /\ Told(l) = 0 /\ l.sent = <<>> /\ l.rcvd = <<>>
  <2>1. l.sent = <<>> /\ l.rcvd = <<>> /\ l.ackqueue = <<>>
    BY DEF CountInv
  <2>2. Told(l) \in Nat /\ Told(l) <= Len(l.rcvd)
    BY Lengths DEF CountInv
  <2>3. Told(l) = 0
    BY <1>3, <2>1, <2>2
  <2>4. QED
    BY <1>3, <2>1, <2>3 DEF Base
<1>6. CountInv(q)
  <2>1. \A j : j \notin 1..0
    OBVIOUS
  <2>2. QED
    BY <1>2, <1>3, <1>4, <2>1 DEF CountInv
<1>7. Moves(l, v, q, v)
  BY <1>2, <1>4, <1>5, SameCounts
<1>8. Mute(q, r) /\ r.tobedisc = q.tobedisc
  <2>1. r = EventConnected(c, q)
    BY DEF q, k
  <2>2. QED
    BY <1>2, <2>1, EventConnectedMute, EventFlags
<1>9. CountInv(r) /\ Moves(q, v, r, v)
  BY <1>2, <1>6, <1>8, MuteMoves
<1>10. Moves(l, v, r, v)
  BY <1>7, <1>9, MovesTwice
<1>11. QED
  BY <1>2, <1>8, <1>9, <1>10 DEF Mute, Calm

\* Every step of a connection preserves the invariant, one step per action.
LEMMA ConnStepWire ==
    ASSUME LinksInv, LinksInv', WireInv, NEW c \in Conn, ConnStep(c)
    PROVE  WireInv'
<1>1. /\ Cli \in Link /\ c \in Link /\ Conn \subseteq Link /\ c # Cli
      /\ Cli \notin Conn /\ NoConn \notin Conn
      /\ lk \in [Link -> LinkType] /\ lk' \in [Link -> LinkType]
      /\ net \in [Link -> Seq(Frame)]
      /\ tcp \in [Conn -> {"free", "syn", "backlog", "open", "shut"}]
      /\ cur \in Conn \cup {NoConn} /\ up \in [Conn -> BOOLEAN]
      /\ ConnInv
      /\ \A j \in Link : LinkInv(lk[j])
  BY ConnAssumption DEF LinksInv, TypeOK, WireInv, Link
<1>2. CASE Dial(c)
  <2> DEFINE l == [lk[Cli] EXCEPT !.fd = TRUE, !.progAt = 0]
  <2>1. ~lk[Cli].fd /\ tcp[c] = "free" /\ cur = NoConn /\ ~lk[Cli].conn
    BY <1>1, <1>2 DEF Dial, ConnInv, LinkInv
  <2>2. /\ lk' = [lk EXCEPT ![Cli] = l] /\ net' = net /\ cur' = c
        /\ tcp' = [tcp EXCEPT ![c] = "syn"]
    BY <1>1, <1>2 DEF Dial
  <2>3. Alike(lk[Cli], l) /\ l.fd /\ ~l.conn
    BY <1>1, <2>1 DEF Alike, LinkType
  <2> HIDE DEF l
  <2>4. lk'[Cli] = l /\ (\A j \in Conn : lk'[j] = lk[j]) /\ \A j \in Link : Alike(lk[j], lk'[j])
    BY <1>1, <2>2, <2>3, AlikeSelf
  <2>5. tcp'[c] = "syn" /\ \A d \in Conn : d # c => tcp'[d] = tcp[d]
    BY <1>1, <2>2
  <2>6. ConnInv'
    BY <1>1, <2>1, <2>2, <2>3, <2>4, <2>5 DEF ConnInv
  <2>7. \A d \in Conn : ~Together(d)'
    BY <2>2, <2>5 DEF Together
  <2>8. QED
    BY <2>2, <2>4, <2>6, <2>7, AlikeKeeps
<1>3. CASE Handshake(c)
  <2>1. /\ tcp[c] = "syn" /\ lk' = lk /\ net' = net /\ cur' = cur /\ up' = up
        /\ tcp' = [tcp EXCEPT ![c] = "backlog"]
    BY <1>3 DEF Handshake
  <2>2. tcp'[c] = "backlog" /\ \A d \in Conn : d # c => tcp'[d] = tcp[d]
    BY <1>1, <2>1
  <2>3. cur = c /\ ~lk[Cli].conn /\ ~lk[c].fd /\ ~lk[c].conn /\ net[c] = <<>> /\ net[Cli] = <<>>
    BY <1>1, <2>1 DEF ConnInv, LinkInv
  <2>4. ConnInv'
    BY <1>1, <2>1, <2>2, <2>3 DEF ConnInv
  <2>5. Seen' = Seen
    BY <2>1 DEF Seen
  <2>6. \A j \in Link : WireOf(j)'
    BY <2>1, <2>5 DEF WireOf, WireInv
  <2>7. ASSUME NEW d \in Conn
        PROVE  FlowsOf(d)'
    <3>1. CASE d = c
      <4>1. /\ CountInv(lk[c]) /\ CountInv(lk[Cli])
            /\ lk[c] \in LinkType /\ lk[Cli] \in LinkType
        BY <1>1 DEF WireInv, WireOf
      <4>2. /\ Flow(lk[Cli], lk[c], <<>>, Seen') /\ Flow(lk[c], lk[Cli], <<>>, Seen')
        BY <2>3, <4>1, BlankWire DEF CountInv
      <4>3. QED
        BY <2>1, <2>3, <3>1, <4>2 DEF FlowsOf
    <3>2. CASE d # c
      BY <2>1, <2>3, <3>2 DEF FlowsOf, Together
    <3>3. QED
      BY <3>1, <3>2
  <2>8. QED
    BY <2>4, <2>6, <2>7 DEF WireInv
<1>4. CASE Accept(c)
  <2>1. PICK l : l = EventConnected(c, [LapReset(lk[c], TRUE) EXCEPT !.fd = TRUE, !.conn = TRUE])
    OBVIOUS
  <2>2. /\ tcp[c] = "backlog"
        /\ lk' = [lk EXCEPT ![c] = [l EXCEPT !.tx = <<>>]]
        /\ net' = IF cur = c /\ up[c] THEN [net EXCEPT ![Cli] = @ \o l.tx] ELSE net
        /\ tcp' = [tcp EXCEPT ![c] = "open"]
        /\ cur' = cur /\ up' = up
    BY <1>4, <2>1 DEF Accept
  <2>3. ~lk[c].fd /\ ~lk[c].conn
    BY <1>1, <2>2 DEF ConnInv, LinkInv
  <2>4. /\ l \in LinkType /\ CountInv(l) /\ Moves(lk[c], net[c], l, net[c])
        /\ l.fd /\ l.conn /\ ~l.tobedisc
    BY <1>1, <2>1, <2>3, AcceptedLink DEF WireInv, WireOf
  <2>5. tcp'[c] = "open" /\ \A d \in Conn : d # c => tcp'[d] = tcp[d]
    BY <1>1, <2>2
  <2>6. ConnOf(c) = c /\ Peer(c) = Cli /\ (Together(c) <=> cur = c /\ up[c])
    BY <1>1, <2>2 DEF ConnOf, Peer, Together
  <2>7. \A d \in Conn : Together(d)' => Together(d)
    BY <2>2, <2>5 DEF Together
  <2>8. net' = [j \in Link |->
                  IF j = c THEN net[c]
                  ELSE IF Together(ConnOf(c)) /\ j = Peer(c) THEN net[j] \o l.tx
                  ELSE net[j]]
    BY <1>1, <2>2, <2>6
  <2>9. (\A j \in Link : WireOf(j)') /\ (\A d \in Conn : FlowsOf(d)')
    <3>1. PICK v \in Seq(Frame) : v = net[c]
      BY <1>1
    <3>2. c \in Link /\ ConnOf(c) \in Conn /\ Peer(c) \in Link
      BY <1>1, <2>6
    <3>3. lk' \in [Link -> LinkType]
      BY <1>1
    <3>4. net' = [j \in Link |->
                    IF j = c THEN v
                    ELSE IF Together(ConnOf(c)) /\ j = Peer(c) THEN net[j] \o l.tx
                    ELSE net[j]]
      BY <2>8, <3>1
    <3>5. Moves(lk[c], net[c], l, v) /\ l \in LinkType /\ CountInv(l)
      BY <2>4, <3>1
    <3>6. LinksInv /\ WireInv
      BY <1>1
    <3>7. QED
      BY <2>2, <2>7, <3>2, <3>3, <3>4, <3>5, <3>6, LinkMoves
  <2>10. ConnInv'
    <3> DEFINE r == [l EXCEPT !.tx = <<>>]
    <3>1. r.fd /\ r.conn /\ ~r.tobedisc
      BY <2>4, WithoutTx DEF Alike
    <3> HIDE DEF r
    <3>2. lk'[c] = r /\ \A j \in Link : j # c => lk'[j] = lk[j]
      BY <1>1, <2>2 DEF r
    <3>3. \A d \in Conn : net'[d] = net[d]
      BY <1>1, <2>2
    <3>4. (cur = NoConn \/ tcp'[cur] = "syn") => net'[Cli] = <<>>
      BY <1>1, <2>2, <2>5 DEF ConnInv
    <3>5. ASSUME NEW d \in Conn
          PROVE  /\ lk'[d].fd <=> tcp'[d] = "open"
                 /\ lk'[d].fd => lk'[d].conn
                 /\ lk'[d].tobedisc => lk'[d].fd
                 /\ tcp'[d] \in {"syn", "shut"} => cur' = d
                 /\ cur' = d => tcp'[d] # "free"
                 /\ tcp'[d] \in {"free", "syn", "shut"} => net'[d] = <<>>
      <4>1. CASE d = c
        BY <2>5, <3>1, <3>2, <4>1
      <4>2. CASE d # c
        <5>1. lk'[d] = lk[d] /\ tcp'[d] = tcp[d] /\ net'[d] = net[d] /\ cur' = cur
          BY <1>1, <2>2, <2>5, <3>2, <3>3, <4>2
        <5>2. QED
          BY <1>1, <5>1 DEF ConnInv
      <4>3. QED
        BY <4>1, <4>2
    <3>6. /\ lk'[Cli].fd <=> cur' # NoConn
          /\ lk'[Cli].conn => tcp'[cur'] # "syn"
          /\ (cur' = NoConn \/ tcp'[cur'] = "syn") => net'[Cli] = <<>>
      <4>1. lk'[Cli] = lk[Cli] /\ cur' = cur
        BY <1>1, <2>2, <3>2
      <4>2. lk[Cli].conn => cur \in Conn
        BY <1>1 DEF ConnInv, LinkInv
      <4>3. cur \in Conn => (tcp'[cur] = "syn" => tcp[cur] = "syn")
        BY <2>5
      <4>4. QED
        BY <1>1, <3>4, <4>1, <4>2, <4>3 DEF ConnInv
    <3>7. QED
      BY <3>5, <3>6 DEF ConnInv
  <2>11. QED
    BY <2>9, <2>10 DEF WireInv
<1>5. CASE AcceptRefused(c)
  <2>1. /\ tcp[c] = "backlog" /\ lk' = lk /\ cur' = cur /\ up' = up
        /\ tcp' = [tcp EXCEPT ![c] = IF cur = c THEN "shut" ELSE "free"]
        /\ net' = [net EXCEPT ![c] = <<>>]
    BY <1>5 DEF AcceptRefused
  <2>2. /\ tcp'[c] = IF cur = c THEN "shut" ELSE "free"
        /\ \A d \in Conn : d # c => tcp'[d] = tcp[d]
        /\ net'[c] = <<>> /\ \A j \in Link : j # c => net'[j] = net[j]
    BY <1>1, <2>1
  <2>3. ConnInv'
    BY <1>1, <2>1, <2>2 DEF ConnInv
  <2>4. \A d \in Conn : Together(d)' => Together(d) /\ net'[d] = net[d] /\ net'[Cli] = net[Cli]
    BY <1>1, <2>1, <2>2 DEF Together
  <2>5. \A j \in Link : Alike(lk[j], lk'[j])
    BY <2>1, AlikeSelf
  <2>6. QED
    BY <2>2, <2>3, <2>4, <2>5, AlikeKeeps
<1>6. CASE PollMarked(c)
  <2>1. lk[c].fd /\ up' = up /\ Commit(c, LapDisconnected(c, lk[c]))
    BY <1>1, <1>6 DEF PollMarked, ConnInv
  <2>2. QED
    BY <1>1, <2>1, ClosingKeeps
<1>7. CASE Cut(c)
  <2>1. /\ tcp[c] # "free" /\ lk' = lk /\ tcp' = tcp /\ cur' = cur
        /\ up' = [up EXCEPT ![c] = FALSE]
        /\ net' = [j \in Link |-> IF j = c \/ (j = Cli /\ cur = c) THEN <<>> ELSE net[j]]
    BY <1>7 DEF Cut
  <2>2. ~up'[c] /\ \A d \in Conn : d # c => up'[d] = up[d]
    BY <1>1, <2>1
  <2>3. \A j \in Link : net'[j] = net[j] \/ net'[j] = <<>>
    BY <2>1
  <2>4. ConnInv'
    BY <1>1, <2>1, <2>3 DEF ConnInv
  <2>5. \A d \in Conn : Together(d)' => Together(d) /\ net'[d] = net[d] /\ net'[Cli] = net[Cli]
    BY <1>1, <2>1, <2>2 DEF Together
  <2>6. \A j \in Link : Alike(lk[j], lk'[j])
    BY <2>1, AlikeSelf
  <2>7. QED
    BY <2>3, <2>4, <2>5, <2>6, AlikeKeeps
<1>8. QED
  BY <1>2, <1>3, <1>4, <1>5, <1>6, <1>7 DEF ConnStep

\* ConnectDone, ConnectRejected and rtl_LapCloseBind.
LEMMA ConnectDoneWire ==
    ASSUME LinksInv, LinksInv', WireInv, ConnectDone
    PROVE  WireInv'
<1> DEFINE q == [lk[Cli] EXCEPT !.conn = TRUE, !.progAt = Off]
           l == EventConnected(Cli, q)
<1>1. /\ Cli \in Link /\ lk[Cli] \in LinkType /\ CountInv(lk[Cli]) /\ ConnInv
      /\ net[Cli] \in Seq(Frame) /\ lk' \in [Link -> LinkType]
  BY DEF LinksInv, TypeOK, WireInv, WireOf, Link
<1>2. /\ lk[Cli].fd /\ ~lk[Cli].conn /\ tcp[cur] # "syn" /\ up' = up
      /\ Commit(Cli, l)
  BY DEF ConnectDone
<1>3. /\ q \in LinkType /\ q.fd /\ q.conn /\ q.tobedisc = lk[Cli].tobedisc
      /\ q.va = lk[Cli].va /\ q.vs = lk[Cli].vs /\ q.vr = lk[Cli].vr
      /\ q.vapeer = lk[Cli].vapeer /\ q.ackqueue = lk[Cli].ackqueue
      /\ q.sent = lk[Cli].sent /\ q.rcvd = lk[Cli].rcvd /\ q.tx = lk[Cli].tx
      /\ q.seen = lk[Cli].seen /\ q.acked = lk[Cli].acked /\ q.nberr = lk[Cli].nberr
  <2>1. Off \in Timer(CnxDelay)
    BY DEF Timer, CnxDelay, Off
  <2>2. QED
    BY <1>1, <1>2, <2>1 DEF LinkType
<1> HIDE DEF q
<1>4. Base(q) = Base(lk[Cli]) /\ Told(q) = Told(lk[Cli])
  BY <1>3 DEF Base, Told
<1>5. CountInv(q) /\ Moves(lk[Cli], net[Cli], q, net[Cli])
  <2>1. CountInv(q)
    BY <1>1, <1>3, <1>4 DEF CountInv
  <2>2. QED
    BY <1>1, <1>3, <1>4, <2>1, SameCounts
<1>6. Mute(q, l) /\ l.tobedisc = q.tobedisc
  BY <1>3, EventConnectedMute, EventFlags
<1> HIDE DEF l
<1>7. l \in LinkType /\ l.fd /\ l.conn /\ l.tobedisc = lk[Cli].tobedisc
  BY <1>3, <1>6 DEF Mute, Calm
<1>8. CountInv(l) /\ Moves(lk[Cli], net[Cli], l, net[Cli])
  <2>1. CountInv(l) /\ Moves(q, net[Cli], l, net[Cli])
    BY <1>1, <1>3, <1>5, <1>6, MuteMoves
  <2>2. QED
    BY <1>5, <2>1, MovesTwice
<1>9. /\ ConnOf(Cli) \in Conn /\ Peer(Cli) \in Link /\ Peer(Cli) # Cli
      /\ PeerThere(Cli) /\ up[ConnOf(Cli)] <=> Together(ConnOf(Cli))
  BY <1>1, <1>2, Sends
<1>10. ConnInv'
  BY <1>1, <1>2, <1>7, CommitConn
<1>11. /\ lk' = [lk EXCEPT ![Cli] = [l EXCEPT !.tx = <<>>]]
       /\ net' = [j \in Link |->
                    IF j = Cli THEN net[Cli]
                    ELSE IF Together(ConnOf(Cli)) /\ j = Peer(Cli) THEN net[j] \o l.tx
                    ELSE net[j]]
       /\ cur' = cur /\ tcp' = tcp
  BY <1>2, <1>7, <1>9 DEF Commit
<1>12. \A c \in Conn : Together(c)' => Together(c)
  BY <1>2, <1>11 DEF Together
<1>13. (\A j \in Link : WireOf(j)') /\ (\A c \in Conn : FlowsOf(c)')
  BY <1>1, <1>7, <1>8, <1>9, <1>11, <1>12, LinkMoves
<1>14. QED
  BY <1>10, <1>13 DEF WireInv

LEMMA CloseBindWire ==
    ASSUME LinksInv, LinksInv', WireInv, NEW nice \in BOOLEAN, CloseBind(nice)
    PROVE  WireInv'
<1>1. /\ Cli \in Link /\ Conn \subseteq Link /\ Cli \notin Conn /\ NoConn \notin Conn
      /\ lk \in [Link -> LinkType]
      /\ tcp \in [Conn -> {"free", "syn", "backlog", "open", "shut"}]
      /\ cur \in Conn \cup {NoConn}
      /\ ConnInv /\ \A j \in Link : LinkInv(lk[j])
  BY ConnAssumption DEF LinksInv, TypeOK, WireInv, Link
<1>2. /\ cur' = cur /\ up' = up
      /\ \A c \in Conn : tcp'[c] = DropBacklog(c)
      /\ \A i \in Link : net'[i] = IF i \in Conn /\ tcp[i] = "backlog" THEN <<>> ELSE net[i]
      /\ \A i \in Link : lk'[i] = IF nice /\ i # Cli /\ lk[i].fd
                                  THEN [lk[i] EXCEPT !.tobedisc = TRUE] ELSE lk[i]
  BY DEF CloseBind
<1>3. ASSUME NEW j \in Link
      PROVE  /\ Alike(lk[j], lk'[j]) /\ lk'[j].fd = lk[j].fd /\ lk'[j].conn = lk[j].conn
             /\ lk'[j].tobedisc => lk[j].tobedisc \/ lk[j].fd
  BY <1>1, <1>2 DEF Alike, LinkType
<1>4. lk'[Cli] = lk[Cli] /\ net'[Cli] = net[Cli]
  BY <1>1, <1>2
<1>5. ConnInv'
  <2>1. ASSUME NEW c \in Conn
        PROVE  /\ lk'[c].fd <=> tcp'[c] = "open"
               /\ lk'[c].fd => lk'[c].conn
               /\ lk'[c].tobedisc => lk'[c].fd
               /\ tcp'[c] \in {"syn", "shut"} => cur = c
               /\ cur = c => tcp'[c] # "free"
               /\ tcp'[c] \in {"free", "syn", "shut"} => net'[c] = <<>>
    BY <1>1, <1>2, <1>3 DEF ConnInv, DropBacklog
  <2>2. lk[Cli].conn => cur \in Conn
    BY <1>1 DEF ConnInv, LinkInv
  <2>3. cur \in Conn => (tcp'[cur] = "syn" => tcp[cur] = "syn")
    BY <1>2 DEF DropBacklog
  <2>4. /\ lk[Cli].fd <=> cur # NoConn
        /\ lk[Cli].conn => tcp'[cur] # "syn"
        /\ (cur = NoConn \/ tcp'[cur] = "syn") => net[Cli] = <<>>
    BY <1>1, <2>2, <2>3 DEF ConnInv
  <2>5. QED
    BY <1>2, <1>4, <2>1, <2>4 DEF ConnInv
<1>6. \A c \in Conn : Together(c)' => Together(c) /\ net'[c] = net[c] /\ net'[Cli] = net[Cli]
  BY <1>1, <1>2, <1>4 DEF Together, DropBacklog
<1>7. QED
  BY <1>2, <1>3, <1>5, <1>6, AlikeKeeps

LEMMA CloseBindNowWire ==
    ASSUME LinksInv, LinksInv', WireInv, CloseBindNow
    PROVE  WireInv'
<1>1. /\ Cli \in Link /\ Conn \subseteq Link /\ Cli \notin Conn /\ NoConn \notin Conn
      /\ lk \in [Link -> LinkType] /\ lk' \in [Link -> LinkType] /\ net \in [Link -> Seq(Frame)]
      /\ tcp \in [Conn -> {"free", "syn", "backlog", "open", "shut"}]
      /\ cur \in Conn \cup {NoConn}
      /\ ConnInv /\ \A j \in Link : LinkInv(lk[j])
  BY ConnAssumption DEF LinksInv, TypeOK, WireInv, Link
<1>2. /\ cur' = cur /\ up' = up
      /\ \A c \in Conn : tcp'[c] = IF tcp[c] = "open" THEN (IF cur = c THEN "shut" ELSE "free")
                                   ELSE DropBacklog(c)
      /\ \A i \in Link : net'[i] = IF i \in Conn THEN <<>> ELSE net[i]
      /\ \A i \in Link : lk'[i] = IF i # Cli /\ lk[i].fd THEN LapDisconnected(i, lk[i]) ELSE lk[i]
  BY DEF CloseBindNow
<1>3. lk'[Cli] = lk[Cli] /\ net'[Cli] = net[Cli] /\ \A c \in Conn : net'[c] = <<>>
  BY <1>1, <1>2
<1>4. ASSUME NEW c \in Conn
      PROVE  /\ ~lk'[c].fd /\ ~lk'[c].tobedisc /\ CountInv(lk'[c])
             /\ lk'[c].sent = <<>> /\ lk'[c].rcvd = <<>> /\ lk'[c].ackqueue = <<>>
             /\ lk'[c].acked = lk[c].acked /\ lk'[c].seen = lk[c].seen
  <2>1. /\ lk'[c] = IF lk[c].fd THEN LapDisconnected(c, lk[c]) ELSE lk[c]
        /\ lk[c] \in LinkType /\ CountInv(lk[c]) /\ LinkInv(lk[c])
    BY <1>1, <1>2 DEF WireInv, WireOf
  <2>2. CASE lk[c].fd
    BY <2>1, <2>2, DisconnectedWire
  <2>3. CASE ~lk[c].fd
    BY <1>1, <2>1, <2>3 DEF ConnInv, LinkInv, CountInv
  <2>4. QED
    BY <2>2, <2>3
<1>5. ConnInv'
  <2>1. ASSUME NEW c \in Conn
        PROVE  /\ tcp'[c] # "open"
               /\ tcp'[c] \in {"syn", "shut"} => cur = c
               /\ cur = c => tcp'[c] # "free"
               /\ tcp'[c] = "syn" => tcp[c] = "syn"
    BY <1>1, <1>2 DEF ConnInv, DropBacklog
  <2>2. lk[Cli].conn => cur \in Conn
    BY <1>1 DEF ConnInv, LinkInv
  <2>3. /\ lk[Cli].fd <=> cur # NoConn
        /\ lk[Cli].conn => tcp'[cur] # "syn"
        /\ (cur = NoConn \/ tcp'[cur] = "syn") => net[Cli] = <<>>
    BY <1>1, <2>1, <2>2 DEF ConnInv
  <2>4. QED
    BY <1>2, <1>3, <1>4, <2>1, <2>3 DEF ConnInv
<1>6. Seen \subseteq Seen'
  <2>1. \A j \in Link : lk[j].seen \subseteq lk'[j].seen
    BY <1>3, <1>4 DEF Link
  <2>2. QED
    BY <2>1, SeenGrows
<1>7. WireOf(Cli)'
  BY <1>1, <1>3, <1>6, AlikeSelf, StillWire DEF WireInv
<1>8. ASSUME NEW c \in Conn
      PROVE  WireOf(c)'
  <2>1. lk'[c] \in LinkType /\ CountInv(lk'[c]) /\ net'[c] = <<>>
    BY <1>1, <1>3, <1>4
  <2>2. Readable(lk'[c], <<>>, Seen')
    BY <1>4, <2>1, BlankWire, FlowReadable
  <2>3. lk'[c].acked \subseteq Seen'
    BY <1>1, <1>4, <1>6 DEF WireInv, WireOf
  <2>4. QED
    BY <2>1, <2>2, <2>3 DEF WireOf
<1>9. \A c \in Conn : FlowsOf(c)'
  BY <1>1, <1>2 DEF FlowsOf, Together, DropBacklog
<1>10. QED
  BY <1>5, <1>7, <1>8, <1>9 DEF WireInv, Link

\* Every step preserves the invariant.
LEMMA NextWire ==
    ASSUME LinksInv, WireInv, [Next]_vars
    PROVE  WireInv'
<1>1. LinksInv' /\ Cli \in Link
  BY NextInv DEF Link
<1>2. CASE ConnectRejected
  <2>1. lk[Cli].fd /\ up' = up /\ Commit(Cli, LapDisconnected(Cli, lk[Cli]))
    BY <1>2 DEF ConnectRejected
  <2>2. QED
    BY <1>1, <2>1, ClosingKeeps
<1>3. CASE OpenBind \/ UNCHANGED vars
  <2>1. lk' = lk /\ net' = net /\ tcp' = tcp /\ cur' = cur /\ up' = up
    BY <1>3 DEF OpenBind, vars
  <2>2. ConnInv'
    BY <2>1 DEF WireInv, ConnInv
  <2>3. \A c \in Conn : Together(c)' => Together(c)
    BY <2>1 DEF Together
  <2>4. \A j \in Link : Alike(lk[j], lk'[j])
    BY <2>1, AlikeSelf
  <2>5. QED
    BY <1>1, <2>1, <2>2, <2>3, <2>4, AlikeKeeps
<1>4. QED
  BY <1>1, <1>2, <1>3, ConnectDoneWire, CloseBindWire, CloseBindNowWire,
     ConnStepWire, LinkStepWire DEF Next

LEMMA InitWire ==
    ASSUME Init
    PROVE  WireInv
<1>1. NewLink \in LinkType /\ Cli \in Link
  BY NewLinkInv DEF LinkInv, Link
<1>2. /\ \A j \in Link : lk[j] = NewLink /\ net[j] = <<>>
      /\ cur = NoConn /\ \A c \in Conn : tcp[c] = "free"
  BY DEF Init
<1>3. CountInv(NewLink)
  <2>1. /\ NewLink.sent = <<>> /\ NewLink.rcvd = <<>> /\ NewLink.ackqueue = <<>>
        /\ NewLink.va = 0 /\ NewLink.vs = 0 /\ NewLink.vr = 0 /\ NewLink.vapeer = 0
        /\ ~NewLink.nberr
    BY DEF NewLink
  <2>2. Base(NewLink) = 0 /\ Told(NewLink) = 0
    BY <2>1, CountZero DEF Base, Told
  <2>3. \A j : j \notin 1..0
    OBVIOUS
  <2>4. QED
    BY <2>1, <2>2, <2>3, CountZero DEF CountInv
<1>4. Readable(NewLink, <<>>, Seen)
  <2>1. NewLink.sent = <<>> /\ NewLink.rcvd = <<>> /\ NewLink.ackqueue = <<>>
    BY DEF NewLink
  <2>2. QED
    BY <1>1, <1>3, <2>1, BlankWire, FlowReadable
<1>5. NewLink.acked = {} /\ ~NewLink.fd /\ ~NewLink.conn /\ ~NewLink.tobedisc
  BY DEF NewLink
<1>6. ConnInv
  BY <1>1, <1>2, <1>5, ConnAssumption DEF ConnInv, Link
<1>7. \A j \in Link : WireOf(j)
  BY <1>2, <1>3, <1>4, <1>5 DEF WireOf
<1>8. \A c \in Conn : FlowsOf(c)
  BY <1>2 DEF FlowsOf, Together
<1>9. QED
  BY <1>6, <1>7, <1>8 DEF WireInv

-----------------------------------------------------------------------------
(* What the invariant says of the runs' properties *)

THEOREM WireInvariance == Spec => [](LinksInv /\ WireInv)
<1>1. Init => LinksInv /\ WireInv
  BY InitInv, InitWire
<1>2. LinksInv /\ WireInv /\ [Next]_vars => (LinksInv /\ WireInv)'
  BY NextInv, NextWire
<1>3. QED
  BY <1>1, <1>2, PTL DEF Spec

\* Between two xlap ends neither OKNR nor OKNS refuses a frame, however
\* large N is and whatever the network loses.
THEOREM NumbersAgree == Spec => []NoSeqError
<1>1. WireInv => NoSeqError
  BY DEF WireInv, WireOf, CountInv, NoSeqError
<1>2. QED
  BY <1>1, WireInvariance, PTL

\* EVT_FRAME_ACKED comes only after EVT_FRAMEI at the other end.
THEOREM AckedCorrect == Spec => []AckedWasSeen
<1>1. WireInv => AckedWasSeen
  BY DEF WireInv, WireOf, AckedWasSeen
<1>2. QED
  BY <1>1, WireInvariance, PTL

-----------------------------------------------------------------------------
(* The listener's count of its links *)

Served == {c \in Conn : lk[c].fd}

\* Steps that open and close no server link.
LEMMA SameServed ==
    ASSUME CnxCount, cnxcount' = cnxcount, \A c \in Conn : lk'[c].fd <=> lk[c].fd
    PROVE  CnxCount'
<1>1. {c \in Conn : lk'[c].fd} = {c \in Conn : lk[c].fd}
  OBVIOUS
<1>2. QED
  BY <1>1 DEF CnxCount

\* A link that commits: if it was a server link and closed, it is not
\* counted any more.
LEMMA CommitCount ==
    ASSUME LinksInv, CnxCount, NEW i \in Link, lk[i].fd, NEW l \in LinkType, Commit(i, l)
    PROVE  CnxCount'
<1> DEFINE r == [l EXCEPT !.tx = <<>>]
<1>1. r.fd = l.fd
  BY WithoutTx
<1> HIDE DEF r
<1>2. /\ lk'[i] = r /\ \A j \in Link : j # i => lk'[j] = lk[j]
      /\ cnxcount' = IF ~l.fd /\ i # Cli THEN cnxcount - 1 ELSE cnxcount
      /\ Conn \subseteq Link /\ Cli \notin Conn
  BY ConnAssumption DEF Commit, r, LinksInv, TypeOK, Link
<1>3. CASE l.fd \/ i = Cli
  <2>1. \A c \in Conn : lk'[c].fd <=> lk[c].fd
    BY <1>1, <1>2, <1>3
  <2>2. QED
    BY <1>2, <1>3, <2>1, SameServed
<1>4. CASE ~l.fd /\ i # Cli
  <2>1. i \in Conn /\ {c \in Conn : lk'[c].fd} = Served \ {i} /\ i \in Served
    BY <1>1, <1>2, <1>4 DEF Served, Link
  <2>2. IsFiniteSet(Served) /\ Cardinality(Served) \in Nat
    BY ConnAssumption, FS_Subset, FS_CardinalityType DEF Served
  <2>3. Cardinality(Served \ {i}) = Cardinality(Served) - 1
    BY <2>1, <2>2, FS_RemoveElement
  <2>4. cnxcount' = cnxcount - 1 /\ cnxcount = Cardinality(Served)
    BY <1>2, <1>4 DEF CnxCount, Served
  <2>5. maxConn # 0 => cnxcount - 1 <= maxConn
    BY <2>2, <2>4, FlagAssumption DEF CnxCount
  <2>6. QED
    BY <2>1, <2>3, <2>4, <2>5 DEF CnxCount
<1>5. QED
  BY <1>3, <1>4

\* Every step of a link or a connection keeps the count.
LEMMA StepCount ==
    ASSUME LinksInv, LinksInv', WireInv, CnxCount, Next
    PROVE  CnxCount'
<1>1. /\ Cli \in Link /\ Conn \subseteq Link /\ Cli \notin Conn
      /\ lk \in [Link -> LinkType] /\ lk' \in [Link -> LinkType] /\ ConnInv
      /\ net \in [Link -> Seq(Frame)]
      /\ \A j \in Link : LinkInv(lk[j]) /\ CountInv(lk[j]) /\ Readable(lk[j], net[j], Seen)
                         /\ lk[j].tx = <<>>
  BY ConnAssumption DEF LinksInv, TypeOK, WireInv, WireOf, Link
<1>2. IsFiniteSet(Served) /\ Cardinality(Served) \in Nat /\ cnxcount = Cardinality(Served)
  BY ConnAssumption, FS_Subset, FS_CardinalityType DEF Served, CnxCount
<1>3. ASSUME NEW i \in Link, lk[i].fd, Commit(i, LapDisconnected(i, lk[i]))
      PROVE  CnxCount'
  BY <1>1, <1>3, CommitCount, DisconnectedInv DEF LinkInv
<1>4. CASE ConnectDone
  <2> DEFINE q == [lk[Cli] EXCEPT !.conn = TRUE, !.progAt = Off]
  <2>1. Off \in Timer(CnxDelay)
    BY DEF Timer, CnxDelay, Off
  <2>2. q \in LinkType
    <3>1. lk[Cli] \in LinkType
      BY <1>1
    <3>2. QED
      BY <2>1, <3>1 DEF LinkType
  <2>3. EventConnected(Cli, q) \in LinkType
    BY <2>2, EventConnectedMute DEF Mute, Calm
  <2>4. QED
    BY <1>1, <1>4, <2>3, CommitCount DEF ConnectDone
<1>5. CASE ConnectRejected
  BY <1>1, <1>3, <1>5 DEF ConnectRejected
<1>6. CASE \E nice \in BOOLEAN : CloseBind(nice)
  <2>1. PICK nice \in BOOLEAN : CloseBind(nice)
    BY <1>6
  <2>2. \A c \in Conn : lk'[c].fd <=> lk[c].fd
    BY <1>1, <2>1 DEF CloseBind, LinkType
  <2>3. QED
    BY <2>1, <2>2, SameServed DEF CloseBind
<1>7. CASE CloseBindNow
  <2>1. \A c \in Conn : ~lk'[c].fd
    <3>1. \A c \in Conn : lk'[c] = IF lk[c].fd THEN LapDisconnected(c, lk[c]) ELSE lk[c]
      BY <1>1, <1>7 DEF CloseBindNow
    <3>2. QED
      BY <1>1, <3>1, DisconnectedWire
  <2>2. {c \in Conn : lk'[c].fd} = {} /\ Cardinality({}) = 0
    BY <2>1, FS_EmptySet
  <2>3. cnxcount' = cnxcount - Cardinality(Served)
    BY <1>7 DEF CloseBindNow, Served
  <2>4. cnxcount' = 0
    BY <1>2, <2>3
  <2>5. QED
    BY <2>2, <2>4, FlagAssumption DEF CnxCount
<1>8. CASE OpenBind
  BY <1>8, SameServed DEF OpenBind
<1>9. ASSUME NEW c \in Conn, ConnStep(c)
      PROVE  CnxCount'
  <2>1. CASE Dial(c)
    <3>1. \A d \in Conn : lk'[d] = lk[d]
      BY <1>1, <2>1 DEF Dial
    <3>2. QED
      BY <2>1, <3>1, SameServed DEF Dial
  <2>2. CASE Handshake(c) \/ AcceptRefused(c) \/ Cut(c)
    BY <2>2, SameServed DEF Handshake, AcceptRefused, Cut
  <2>3. CASE Accept(c)
    <3>1. PICK l : l = EventConnected(c, [LapReset(lk[c], TRUE) EXCEPT !.fd = TRUE, !.conn = TRUE])
      OBVIOUS
    <3>2. /\ tcp[c] = "backlog" /\ BelowLimit /\ cnxcount' = cnxcount + 1
          /\ lk' = [lk EXCEPT ![c] = [l EXCEPT !.tx = <<>>]]
      BY <2>3, <3>1 DEF Accept
    <3>3. ~lk[c].fd /\ ~lk[c].conn
      BY <1>1, <3>2 DEF ConnInv, LinkInv
    <3>4. l \in LinkType /\ l.fd
      BY <1>1, <3>1, <3>3, AcceptedLink
    <3> DEFINE r == [l EXCEPT !.tx = <<>>]
    <3>5. r.fd
      BY <3>4, WithoutTx
    <3> HIDE DEF r
    <3>6. lk'[c] = r /\ \A d \in Conn : d # c => lk'[d] = lk[d]
      BY <1>1, <3>2 DEF r
    <3>7. {d \in Conn : lk'[d].fd} = Served \cup {c} /\ c \notin Served
      BY <3>3, <3>5, <3>6 DEF Served
    <3>8. Cardinality(Served \cup {c}) = Cardinality(Served) + 1
      BY <1>2, <3>7, FS_AddElement
    <3>9. maxConn # 0 => cnxcount + 1 <= maxConn
      BY <1>2, <3>2, FlagAssumption DEF BelowLimit, CnxCount
    <3>10. QED
      BY <1>2, <3>2, <3>7, <3>8, <3>9 DEF CnxCount
  <2>4. CASE PollMarked(c)
    <3>1. lk[c].fd /\ Commit(c, LapDisconnected(c, lk[c]))
      BY <1>1, <2>4 DEF PollMarked, ConnInv
    <3>2. QED
      BY <1>1, <1>3, <3>1
  <2>5. QED
    BY <1>9, <2>1, <2>2, <2>3, <2>4 DEF ConnStep
<1>10. ASSUME NEW i \in Link, LinkStep(i)
       PROVE  CnxCount'
  <2>1. CASE Recv(i)
    <3>1. PICK l : l = IncomingFrame(lk[i], Head(net[i]))
      OBVIOUS
    <3>2. /\ lk[i].conn /\ net[i] # <<>> /\ cnxcount' = cnxcount
          /\ lk' = [lk EXCEPT ![i] = [l EXCEPT !.tx = <<>>]]
      BY <2>1, <3>1 DEF Recv
    <3>3. Head(net[i]) \in Frame
      BY <1>1, <3>2
    <3>4. l.fd = lk[i].fd /\ l \in LinkType
      <4>1. Heard(lk[i], net[i], l)
        BY <1>1, <3>1, <3>2, <3>3, IncomingFrameMoves
      <4>2. l \in LinkType
        BY <1>1, <3>1, <3>2, <3>3, IncomingFrameInv DEF LinkInv
      <4>3. QED
        BY <4>1, <4>2 DEF Heard
    <3> DEFINE r == [l EXCEPT !.tx = <<>>]
    <3>5. r.fd = lk[i].fd
      BY <3>4, WithoutTx
    <3> HIDE DEF r
    <3>6. \A c \in Conn : lk'[c].fd <=> lk[c].fd
      BY <1>1, <3>2, <3>5 DEF r
    <3>7. QED
      BY <3>2, <3>6, SameServed
  <2>2. CASE Send(i)
    <3>1. PICK fail \in Nat : Commit(i, LapRunOutQueue(lk[i], fail))
      BY <2>2, WindowAssumption, NAssumption DEF Send
    <3>2. LapRunOutQueue(lk[i], fail) \in LinkType /\ lk[i].fd
      BY <1>1, <2>2, RunOutQueueInv DEF LinkInv, Send
    <3>3. QED
      BY <3>1, <3>2, CommitCount
  <2>3. CASE ReadEof(i) \/ ReadError(i) \/ Disc(i)
    <3>1. lk[i].fd /\ Commit(i, LapDisconnected(i, lk[i]))
      BY <1>1, <2>3 DEF ReadEof, ReadError, Disc, AtEof, LinkInv
    <3>2. QED
      BY <1>3, <3>1
  <2>4. CASE \E re \in BOOLEAN : ClockSc(i, re)
    <3>1. PICK re \in BOOLEAN : ClockSc(i, re)
      BY <2>4
    <3>2. LapDoClockSc(i, lk[i], re) \in LinkType
      BY <1>1, ClockInv DEF LinkInv
    <3>3. QED
      BY <3>1, <3>2, CommitCount DEF ClockSc
  <2>5. CASE PutOutQueue(i)
    <3>1. \A c \in Conn : lk'[c].fd <=> lk[c].fd
      BY <1>1, <2>5 DEF PutOutQueue, LinkType
    <3>2. QED
      BY <2>5, <3>1, SameServed DEF PutOutQueue
  <2>6. CASE \E evt \in {"STARTDTact", "STOPDTact", "TESTFRact"} : Request(i, evt)
    <3>1. PICK evt : Request(i, evt)
      BY <2>6
    <3>2. EventRequest(lk[i], evt) \in LinkType /\ lk[i].fd
      BY <1>1, <3>1, EventRequestMute DEF Mute, Calm, LinkInv, Request
    <3>3. QED
      BY <3>1, <3>2, CommitCount DEF Request
  <2>7. QED
    BY <1>10, <2>1, <2>2, <2>3, <2>4, <2>5, <2>6 DEF LinkStep
<1>11. QED
  BY <1>4, <1>5, <1>6, <1>7, <1>8, <1>9, <1>10 DEF Next

LEMMA InitCount ==
    ASSUME Init
    PROVE  CnxCount
<1>1. \A c \in Conn : ~lk[c].fd
  BY DEF Init, NewLink, Link
<1>2. {c \in Conn : lk[c].fd} = {} /\ Cardinality({}) = 0
  BY <1>1, FS_EmptySet
<1>3. cnxcount = 0 /\ maxConn \in Nat
  BY FlagAssumption DEF Init
<1>4. Cardinality({c \in Conn : lk[c].fd}) = 0
  BY <1>2
<1>5. maxConn # 0 => 0 <= maxConn
  BY <1>3
<1>6. QED
  BY <1>3, <1>4, <1>5 DEF CnxCount

\* The listener counts its server links and stays within its limit.
THEOREM CountCorrect == Spec => []CnxCount
<1>1. Init => CnxCount
  BY InitCount
<1>2. LinksInv /\ WireInv /\ CnxCount /\ LinksInv' /\ [Next]_vars => CnxCount'
  <2>1. CASE Next
    BY <2>1, StepCount
  <2>2. CASE UNCHANGED vars
    BY <2>2 DEF vars, CnxCount
  <2>3. QED
    BY <2>1, <2>2
<1>3. QED
  BY <1>1, <1>2, WireInvariance, PTL DEF Spec

-----------------------------------------------------------------------------
(* Messages in order *)

\* A set of numbers that is not empty has a least one.  A claim about every
\* n is proved from it: the least counterexample is neither 0 nor n + 1.
LEMMA LeastOf ==
    ASSUME NEW S \in SUBSET Nat, S # {}
    PROVE  \E i \in S : \A j \in S : i <= j
<1>1. PICK i \in S : \A j \in S : ~(<<j, i>> \in OpToRel(<, Nat))
  BY NatLessThanWellFounded, WFMin
<1>2. \A j \in S : ~(j < i)
  BY <1>1 DEF OpToRel
<1> QED
  BY <1>2

\* The messages of the first 0, 1, .. Len(s) frames of s, as Payload takes them.
Upto(s) ==
    LET upto[n \in 0..Len(s)] ==
            IF n = 0 THEN <<>>
            ELSE IF s[n].type = "I" THEN Append(upto[n-1], s[n].msg)
            ELSE upto[n-1]
    IN  upto

\* The recursive function of Payload exists, so its equation may be used.
LEMMA UptoIs ==
    ASSUME NEW s, Len(s) \in Nat
    PROVE  /\ Upto(s)[0] = <<>>
           /\ \A n \in 1..Len(s) :
                 Upto(s)[n] = IF s[n].type = "I" THEN Append(Upto(s)[n-1], s[n].msg)
                              ELSE Upto(s)[n-1]
<1> DEFINE Def(f, k) == f = [n \in 0..k |->
                              IF n = 0 THEN <<>>
                              ELSE IF s[n].type = "I" THEN Append(f[n-1], s[n].msg)
                              ELSE f[n-1]]
           Bad       == {k \in Nat : ~ \E f : Def(f, k)}
<1>1. Bad = {}
  <2> SUFFICES ASSUME Bad # {} PROVE FALSE
    OBVIOUS
  <2>1. PICK k \in Bad : \A j \in Bad : k <= j
    BY LeastOf
  <2>2. CASE k = 0
    <3>1. Def([n \in 0..0 |-> <<>>], 0)
      OBVIOUS
    <3> QED
      BY <3>1, <2>2
  <2>3. CASE k # 0
    <3>1. PICK f : Def(f, k-1)
      <4>1. k \in Nat
        BY <2>1
      <4>2. k - 1 \in Nat /\ ~(k <= k - 1)
        BY <4>1, <2>3
      <4> HIDE DEF Def
      <4> QED
        BY <4>2, <2>1
    <3> DEFINE g == [n \in 0..k |-> IF n < k THEN f[n]
                                    ELSE IF s[k].type = "I" THEN Append(f[k-1], s[k].msg)
                                    ELSE f[k-1]]
    <3>2. Def(g, k)
      <4>1. k \in Nat /\ k - 1 \in 0..(k-1)
        BY <2>1, <2>3
      <4>2. \A n \in 0..(k-1) : f[n] = IF n = 0 THEN <<>>
                                      ELSE IF s[n].type = "I" THEN Append(f[n-1], s[n].msg)
                                      ELSE f[n-1]
        BY <3>1, <4>1
      <4>3. /\ \A n \in 0..(k-1) : g[n] = f[n]
            /\ g[k] = IF s[k].type = "I" THEN Append(f[k-1], s[k].msg) ELSE f[k-1]
        BY <4>1
      <4>4. ASSUME NEW n \in 0..k
            PROVE  g[n] = IF n = 0 THEN <<>>
                          ELSE IF s[n].type = "I" THEN Append(g[n-1], s[n].msg)
                          ELSE g[n-1]
        <5>1. CASE n = 0
          BY <5>1, <4>1, <4>2, <4>3
        <5>2. CASE n # 0 /\ n # k
          <6>1. n \in 0..(k-1) /\ n - 1 \in 0..(k-1)
            BY <5>2, <4>1
          <6> HIDE DEF g
          <6> QED
            BY <6>1, <5>2, <4>2, <4>3
        <5>3. CASE n = k
          <6> HIDE DEF g
          <6> QED
            BY <5>3, <2>3, <4>1, <4>3
        <5> QED
          BY <5>1, <5>2, <5>3
      <4> QED
        BY <4>4
    <3> QED
      BY <3>2
  <2> QED
    BY <2>2, <2>3
<1>2. PICK f : Def(f, Len(s))
  BY <1>1
<1>3. Upto(s) = CHOOSE g : Def(g, Len(s))
  BY DEF Upto
<1>4. Def(Upto(s), Len(s))
  BY <1>2, <1>3
<1>5. 0 \in 0..Len(s) /\ \A n \in 1..Len(s) : n \in 0..Len(s) /\ n # 0
  OBVIOUS
<1>6. \A n \in 0..Len(s) :
         Upto(s)[n] = IF n = 0 THEN <<>>
                      ELSE IF s[n].type = "I" THEN Append(Upto(s)[n-1], s[n].msg)
                      ELSE Upto(s)[n-1]
  BY <1>4
<1> QED
  BY <1>5, <1>6

\* Sequences of messages are equal if they have the same messages.
LEMMA SameMsgs ==
    ASSUME NEW q \in Seq(Msg), NEW t \in Seq(Msg), Len(q) = Len(t),
           \A j \in 1..Len(q) : q[j] = t[j]
    PROVE  q = t
BY SeqEqual

\* Between two ends, what one read and what is on the way is what the other sent.
LEMMA PayloadSent ==
    ASSUME NEW a \in LinkType, NEW b \in LinkType, NEW w \in Seq(Frame), NEW S,
           Flow(a, b, w, S)
    PROVE  a.sent = b.rcvd \o Payload(w)
<1>1. PICK cnt, ack : Numbers(w, cnt, ack) /\ ReadBy(b, w, S, cnt, ack)
                      /\ WrittenBy(a, b, w, cnt, ack)
  BY DEF Flow
<1>2. Len(w) \in Nat /\ \A p \in 1..Len(w) : w[p] \in Frame
  BY LenProperties, ElementOfSeq
<1>3. PICK n \in Nat : n = Len(w)
  BY <1>2
<1>4. a.sent \in Seq(Msg) /\ b.rcvd \in Seq(Msg)
  BY DEF LinkType
<1>5. PICK r \in Nat : r = Len(b.rcvd)
  BY <1>4, LenProperties
<1>6. PICK z \in Nat : z = Len(a.sent)
  BY <1>4, LenProperties
<1>7. /\ cnt[0] = r /\ cnt[n] = z
      /\ \A p \in 0..n : cnt[p] \in Nat
      /\ \A p \in 1..n : cnt[p] = IF w[p].type = "I" THEN cnt[p-1] + 1 ELSE cnt[p-1]
      /\ \A p, q \in 0..n : p <= q => cnt[p] <= cnt[q]
  BY <1>1, <1>3, <1>5, <1>6 DEF Numbers, ReadBy, WrittenBy
<1>8. \A p \in 1..n : w[p].type = "I" => w[p].msg = a.sent[cnt[p]]
  BY <1>1, <1>3 DEF WrittenBy
<1>9. \A j \in 1..r : b.rcvd[j] = a.sent[j]
  BY <1>1, <1>5 DEF WrittenBy
<1>10. \A p \in 1..n : w[p].type = "I" => w[p].msg \in Msg
  BY <1>2, <1>3 DEF Frame, UType
<1>11. /\ Upto(w)[0] = <<>>
       /\ \A p \in 1..n : Upto(w)[p] = IF w[p].type = "I" THEN Append(Upto(w)[p-1], w[p].msg)
                                       ELSE Upto(w)[p-1]
  BY <1>2, <1>3, UptoIs
<1> DEFINE Good(p) == /\ Upto(w)[p] \in Seq(Msg)
                      /\ Len(Upto(w)[p]) + r = cnt[p]
                      /\ \A j \in 1..(cnt[p] - r) : Upto(w)[p][j] = a.sent[r + j]
           Bad     == {p \in 0..n : ~Good(p)}
<1>12. Good(0)
  <2>1. <<>> \in Seq(Msg) /\ Len(<<>>) = 0
    BY EmptySeq
  <2> QED
    BY <2>1, <1>7, <1>11
<1>13. ASSUME NEW p \in 1..n, Good(p-1)
       PROVE  Good(p)
  <2>1. p - 1 \in 0..n /\ p \in 0..n
    OBVIOUS
  <2>2. PICK u \in Seq(Msg) : u = Upto(w)[p-1]
    BY <1>13
  <2>3. PICK x \in Nat : x = cnt[p-1]
    BY <1>7, <2>1
  <2>4. Len(u) \in Nat /\ Len(u) + r = x /\ \A j \in 1..(x - r) : u[j] = a.sent[r + j]
    BY <1>13, <2>2, <2>3, LenProperties
  <2>5. CASE w[p].type = "I"
    <3>1. PICK m \in Msg : m = w[p].msg
      BY <1>10, <2>5
    <3>2. cnt[p] = x + 1
      BY <1>7, <2>3, <2>5
    <3>3. m = a.sent[x + 1]
      BY <1>8, <2>5, <3>1, <3>2
    <3>4. Upto(w)[p] = Append(u, m)
      BY <1>11, <2>2, <2>5, <3>1
    <3>5. /\ Append(u, m) \in Seq(Msg)
          /\ Len(Append(u, m)) = Len(u) + 1
          /\ \A j \in 1..Len(u) : Append(u, m)[j] = u[j]
          /\ Append(u, m)[Len(u) + 1] = m
      BY AppendProperties
    <3>6. ASSUME NEW j \in 1..(x + 1 - r)
          PROVE  Append(u, m)[j] = a.sent[r + j]
      <4>1. CASE j \in 1..Len(u)
        BY <4>1, <2>4, <3>5
      <4>2. CASE j = Len(u) + 1
        <5>1. r + j = x + 1
          BY <4>2, <2>4
        <5> QED
          BY <4>2, <5>1, <3>3, <3>5
      <4> QED
        BY <4>1, <4>2, <2>4
    <3> QED
      BY <3>2, <3>4, <3>5, <3>6, <2>4
  <2>6. CASE w[p].type # "I"
    <3>1. cnt[p] = x /\ Upto(w)[p] = u
      BY <1>7, <1>11, <2>2, <2>3, <2>6
    <3> QED
      BY <3>1, <2>4
  <2> QED
    BY <2>5, <2>6
<1>14. Good(n)
  <2> SUFFICES ASSUME ~Good(n) PROVE FALSE
    OBVIOUS
  <2>1. n \in Bad /\ Bad \in SUBSET Nat
    OBVIOUS
  <2>2. PICK p \in Bad : \A q \in Bad : p <= q
    <3> HIDE DEF Bad
    <3> QED
      BY <2>1, LeastOf
  <2>3. p # 0
    BY <1>12, <2>2
  <2>4. p \in 1..n /\ p - 1 \in 0..n /\ p - 1 \notin Bad
    <3>1. p \in 0..n
      BY <2>2
    <3> HIDE DEF Good
    <3> QED
      BY <2>2, <2>3, <3>1
  <2> QED
    <3> HIDE DEF Good
    <3> QED
      BY <2>2, <2>4, <1>13
<1>15. PICK u \in Seq(Msg) : u = Payload(w)
  BY <1>3, <1>14 DEF Payload, Upto
<1>16. Len(u) + r = z /\ \A j \in 1..(z - r) : u[j] = a.sent[r + j]
  BY <1>3, <1>7, <1>14, <1>15 DEF Payload, Upto
<1>17. PICK y \in Nat : y = Len(u)
  BY <1>15, LenProperties
<1>18. /\ b.rcvd \o u \in Seq(Msg)
       /\ Len(b.rcvd \o u) = r + y
       /\ \A j \in 1..(r + y) : (b.rcvd \o u)[j] = IF j <= r THEN b.rcvd[j] ELSE u[j - r]
  BY <1>4, <1>5, <1>15, <1>17, JoinedMsgs
<1>19. ASSUME NEW j \in 1..z
       PROVE  a.sent[j] = (b.rcvd \o u)[j]
  <2>1. j \in 1..(r + y)
    BY <1>16, <1>17
  <2>2. CASE j <= r
    BY <2>1, <2>2, <1>9, <1>18
  <2>3. CASE ~(j <= r)
    <3>1. j - r \in 1..(z - r) /\ r + (j - r) = j
      BY <2>3
    <3> QED
      BY <2>1, <2>3, <3>1, <1>16, <1>18
  <2> QED
    BY <2>2, <2>3
<1> QED
  <2>1. Len(a.sent) = Len(b.rcvd \o u)
    BY <1>6, <1>16, <1>17, <1>18
  <2> QED
    BY <2>1, <1>4, <1>6, <1>15, <1>18, <1>19, SameMsgs

\* While both ends have the connection, PayloadSent holds both ways.
LEMMA WireOrder ==
    ASSUME LinksInv, WireInv
    PROVE  InOrderDelivery
<1> SUFFICES ASSUME NEW c \in Conn, Joined(c)
             PROVE  /\ lk[c].sent = lk[Cli].rcvd \o Payload(net[Cli])
                    /\ lk[Cli].sent = lk[c].rcvd \o Payload(net[c])
  BY DEF InOrderDelivery
<1>1. Cli \in Link /\ c \in Link
  BY DEF Link
<1>2. /\ lk[Cli] \in LinkType /\ lk[c] \in LinkType
      /\ net[Cli] \in Seq(Frame) /\ net[c] \in Seq(Frame)
  BY <1>1 DEF LinksInv, TypeOK
<1>3. Together(c)
  BY DEF Joined, Together
<1>4. /\ Flow(lk[Cli], lk[c], net[c], Seen)
      /\ Flow(lk[c], lk[Cli], net[Cli], Seen)
  BY <1>3 DEF WireInv, FlowsOf
<1> QED
  BY <1>2, <1>4, PayloadSent

\* Both ends of a connection that carries data: what was sent is what was
\* received followed by what is on the way.
THEOREM OrderCorrect == Spec => []InOrderDelivery
<1>1. LinksInv /\ WireInv => InOrderDelivery
  BY WireOrder
<1>2. QED
  BY <1>1, WireInvariance, PTL

-----------------------------------------------------------------------------
(* Acknowledgements on the way *)

\* Link x waits for an acknowledgement and none of its messages is before
\* link y, which does not run T2: a frame before x acknowledges everything.
LEMMA AckOnTheWay ==
    ASSUME NEW x \in LinkType, NEW y \in LinkType,
           NEW w \in Seq(Frame), NEW v \in Seq(Frame), NEW S,
           Flow(x, y, w, S), Flow(y, x, v, S), CountInv(x), AckDebtOf(y),
           x.ackqueue # <<>>, y.iFrmRcvAt = Off,
           \A j \in 1..Len(w) : w[j].type # "I"
    PROVE  \E j \in 1..Len(v) : v[j].type \in {"S", "I"} /\ v[j].nr = x.vs
<1>1. PICK z \in Nat : z = Len(x.sent)
  BY LenProperties DEF LinkType
<1>2. PICK r \in Nat : r = Len(y.rcvd)
  BY LenProperties DEF LinkType
<1>3. PICK n \in Nat : n = Len(w)
  BY LenProperties
<1>4. PICK m \in Nat : m = Len(v)
  BY LenProperties
<1>5. r = z
  <2>1. PICK cnt, ack : Numbers(w, cnt, ack) /\ ReadBy(y, w, S, cnt, ack)
                        /\ WrittenBy(x, y, w, cnt, ack)
    BY DEF Flow
  <2>2. /\ cnt[0] = r /\ cnt[n] = z
        /\ \A p \in 1..n : cnt[p] = cnt[p-1]
    BY <2>1, <1>1, <1>2, <1>3 DEF Numbers, ReadBy, WrittenBy
  <2> DEFINE Bad == {p \in 0..n : cnt[p] # r}
  <2> SUFFICES ASSUME r # z PROVE FALSE
    OBVIOUS
  <2>3. n \in Bad /\ Bad \in SUBSET Nat
    BY <2>2
  <2>4. PICK p \in Bad : \A q \in Bad : p <= q
    <3> HIDE DEF Bad
    <3> QED
      BY <2>3, LeastOf
  <2>5. p \in 0..n /\ p # 0
    BY <2>2, <2>4
  <2>6. p - 1 \in 0..n /\ ~(p <= p - 1) /\ p \in 1..n
    BY <2>5
  <2>7. cnt[p-1] = r
    BY <2>4, <2>6
  <2> QED
    BY <2>2, <2>4, <2>6, <2>7
<1>6. Told(y) = r
  <2>1. y.vapeer = y.vr /\ y.vr \in SeqNo
    BY DEF AckDebtOf, LinkType
  <2>2. Dist(y.vapeer, y.vr) = 0
    BY <2>1, NAssumption DEF Dist, SeqNo
  <2> QED
    BY <2>2, <1>2 DEF Told
<1>7. PICK b \in Nat : b = Base(x)
  BY DEF CountInv
<1>8. b < z
  <2>1. PICK k \in Nat : k = Len(x.ackqueue)
    BY LenProperties DEF LinkType
  <2>2. k # 0
    <3>1. x.ackqueue \in Seq(Unacked)
      BY DEF LinkType
    <3> QED
      BY <2>1, <3>1, EmptySeq
  <2>3. b = z - k
    BY <2>1, <1>1, <1>7 DEF Base
  <2>4. z \in Nat /\ k \in Nat
    BY <2>1, <1>1
  <2> QED
    BY <2>2, <2>3, <2>4
<1>9. PICK cnt, ack : Numbers(v, cnt, ack) /\ ReadBy(x, v, S, cnt, ack)
                      /\ WrittenBy(y, x, v, cnt, ack)
  BY DEF Flow
<1>10. /\ ack[0] = b /\ r <= ack[m] /\ ack[m] <= z
       /\ \A p \in 0..m : ack[p] \in Nat
       /\ \A p \in 1..m : v[p].type \in {"S", "I"} => v[p].nr = SeqOf(ack[p])
       /\ \A p \in 1..m : v[p].type \notin {"S", "I"} => ack[p] = ack[p-1]
  BY <1>9, <1>1, <1>4, <1>6, <1>7 DEF Numbers, ReadBy, WrittenBy
<1>11. m \in 0..m /\ ack[m] = z
  BY <1>5, <1>10
<1> DEFINE All == {p \in 0..m : ack[p] = z}
<1>12. m \in All /\ All \in SUBSET Nat
  BY <1>11
<1>13. PICK p \in All : \A q \in All : p <= q
  <2> HIDE DEF All
  <2> QED
    BY <1>12, LeastOf
<1>14. p \in 0..m /\ ack[p] = z
  BY <1>13
<1>15. p # 0
  BY <1>8, <1>10, <1>14
<1>16. p \in 1..m /\ p - 1 \in 0..m /\ ~(p <= p - 1)
  BY <1>14, <1>15
<1>17. ack[p-1] # z
  BY <1>13, <1>16
<1>18. v[p].type \in {"S", "I"} /\ v[p].nr = SeqOf(z)
  BY <1>10, <1>14, <1>16, <1>17
<1>19. x.vs = SeqOf(z)
  BY <1>1 DEF CountInv
<1> QED
  BY <1>4, <1>16, <1>18, <1>19

\* AckOnTheWay, for either end.
LEMMA WireAcks ==
    ASSUME LinksInv, WireInv
    PROVE  AckComing
<1> SUFFICES ASSUME NEW c \in Conn, Joined(c), NEW i \in {c, Cli},
                    lk[i].ackqueue # <<>>,
                    lk[Peer(i)].iFrmRcvAt = Off,
                    ~ \E j \in 1..Len(net[Peer(i)]) : net[Peer(i)][j].type = "I"
             PROVE  \E j \in 1..Len(net[i]) :
                        net[i][j].type \in {"S", "I"} /\ net[i][j].nr = lk[i].vs
  BY DEF AckComing
<1>1. Cli \in Link /\ c \in Link /\ c # Cli
  BY ConnAssumption DEF Link
<1>2. \A j \in Link : lk[j] \in LinkType /\ net[j] \in Seq(Frame) /\ AckDebtOf(lk[j])
                      /\ CountInv(lk[j])
  BY DEF LinksInv, TypeOK, LinkInv, WireInv, WireOf
<1>3. Together(c)
  BY DEF Joined, Together
<1>4. /\ Flow(lk[Cli], lk[c], net[c], Seen)
      /\ Flow(lk[c], lk[Cli], net[Cli], Seen)
  BY <1>3 DEF WireInv, FlowsOf
<1>5. Peer(Cli) = c /\ Peer(c) = Cli
  BY <1>1 DEF Joined, Peer
<1>6. /\ Flow(lk[i], lk[Peer(i)], net[Peer(i)], Seen)
      /\ Flow(lk[Peer(i)], lk[i], net[i], Seen)
      /\ i \in Link /\ Peer(i) \in Link
  BY <1>1, <1>4, <1>5
<1> QED
  BY <1>2, <1>6, AckOnTheWay

\* A message that waits for its acknowledgement waits for a step that the
\* poll loop or the clock owes: IncomingFrame of its I frame, T2 of the
\* other end or IncomingFrame of the frame that acknowledges it.
THEOREM AckOwed == Spec => []AckComing
<1>1. LinksInv /\ WireInv => AckComing
  BY WireAcks
<1>2. QED
  BY <1>1, WireInvariance, PTL
=============================================================================
