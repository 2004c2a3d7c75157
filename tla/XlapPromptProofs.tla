-------------------------- MODULE XlapPromptProofs --------------------------
(***************************************************************************)
(* Two ends in time: a proof that no timer ever cuts a connection whose    *)
(* two ends are served promptly.                                           *)
(*                                                                         *)
(* A message waits for its acknowledgement for as long as the other end    *)
(* runs T2 for it, give or take the second that one clock is ahead of the  *)
(* other; an act frame is confirmed before the next clock call, save a     *)
(* STOPDTact whose confirmation waits for acknowledgements itself.         *)
(***************************************************************************)
EXTENDS XlapPrompt, XlapDeliveryProofs

(* Frames that are asked for *)

Pending == {"PENDING_STARTED", "PENDING_STOPPED"}
Con     == {"TESTFRcon", "STARTDTcon", "STOPDTcon"}

\* A frame of one of the types S is on wire w.
Has(w, S) == \E p \in 1..Len(w) : w[p].type \in S

LEMMA HasNothing == \A S : ~Has(<<>>, S)
<1>1. Len(<<>>) = 0 /\ \A p : p \notin 1..0
  OBVIOUS
<1>2. QED
  BY <1>1 DEF Has

LEMMA HasJoined ==
    ASSUME NEW v \in Seq(Frame), NEW u \in Seq(Frame), NEW S, Has(v, S) \/ Has(u, S)
    PROVE  Has(v \o u, S)
<1>1. PICK x : x = v \o u
  OBVIOUS
<1>2. PICK m, n \in Nat : InARow(x, v, u, m, n)
  BY <1>1, PlacesJoined
<1>3. CASE Has(v, S)
  <2>1. PICK p \in 1..m : v[p].type \in S
    BY <1>2, <1>3 DEF Has, InARow
  <2>2. p \in 1..(m + n) /\ x[p] = v[p]
    BY <1>2, <2>1 DEF InARow
  <2>3. QED
    BY <1>1, <1>2, <2>1, <2>2 DEF Has, InARow
<1>4. CASE Has(u, S)
  <2>1. PICK p \in 1..n : u[p].type \in S
    BY <1>2, <1>4 DEF Has, InARow
  <2>2. m + p \in 1..(m + n) /\ x[m + p] = u[p]
    BY <1>2, <2>1 DEF InARow
  <2>3. QED
    BY <1>1, <1>2, <2>1, <2>2 DEF Has, InARow
<1>5. QED
  BY <1>3, <1>4

LEMMA HasAppended ==
    ASSUME NEW v \in Seq(Frame), NEW f \in Frame
    PROVE  Has(Append(v, f), {f.type})
<1>1. Len(Append(v, f)) = Len(v) + 1 /\ Append(v, f)[Len(v) + 1] = f /\ Len(v) \in Nat
  OBVIOUS
<1>2. Len(v) + 1 \in 1..(Len(v) + 1)
  BY <1>1
<1>3. QED
  BY <1>1, <1>2 DEF Has

LEMMA HasRead ==
    ASSUME NEW w \in Seq(Frame), w # <<>>, NEW S, Has(w, S)
    PROVE  Head(w).type \in S \/ Has(Tail(w), S)
<1>1. PICK p \in 1..Len(w) : w[p].type \in S
  BY DEF Has
<1>2. PICK x, y, n : x = Head(w) /\ y = Tail(w) /\ n = Len(w)
  OBVIOUS
<1>3. /\ n \in Nat \ {0} /\ x = w[1] /\ Len(y) = n - 1
      /\ \A q \in 1..(n - 1) : y[q] = w[q + 1]
  BY <1>2, EmptySeq
<1>4. CASE p = 1
  BY <1>1, <1>2, <1>3, <1>4
<1>5. CASE p # 1
  <2>1. PICK q \in 1..(n - 1) : p = q + 1
    BY <1>1, <1>2, <1>3, <1>5
  <2>2. y[q].type \in S /\ q \in 1..Len(y)
    BY <1>1, <1>3, <2>1
  <2>3. QED
    BY <1>2, <2>2 DEF Has
<1>6. QED
  BY <1>4, <1>5

-----------------------------------------------------------------------------
(* What a link does within a second *)

\* A timer goes on or is started.
Starts(s, t) == t = s \/ (s = Off /\ t = 0)

\* What waits for an acknowledgement was just sent or waited already.
SameAges(l, r) ==
    \A j \in 1..Len(r.ackqueue) :
        \/ r.ackqueue[j].age = 0
        \/ \E m \in 1..Len(l.ackqueue) :
              Base(l) + m = Base(r) + j /\ r.ackqueue[j].age = l.ackqueue[m].age

\* A stop that is not confirmed waits for acknowledgements.
Owing(l) == l.state = "PENDING_UNCONFD" => l.va # l.vs

\* Link l becomes r within a second: f is the type of the frame that it
\* read, if it read one, and the frames r.tx were written.
OnTime(l, f, r) ==
    /\ r.conn = l.conn /\ r.fd = l.fd
    /\ Told(l) <= Told(r)
    /\ SameAges(l, r)
    /\ Starts(l.iFrmRcvAt, r.iFrmRcvAt)
    /\ r.uFrmSndAt = Off \/ Starts(l.uFrmSndAt, r.uFrmSndAt)
    /\ f \in Con => r.uFrmSndAt = Off
    /\ r.uFrmSndAt # Off =>
          \/ Has(r.tx, {"TESTFRact"})
          \/ r.state \in Pending
          \/ l.uFrmSndAt # Off /\ l.state \notin Pending
    /\ l.state \in Pending /\ f \notin Con => r.state = l.state
    /\ f = "TESTFRact" => Has(r.tx, {"TESTFRcon"})
    /\ l.state # "STARTED" => r.sent = l.sent
    /\ Owing(l) => Owing(r)

\* A calm step says nothing of messages.
LEMMA CalmTime ==
    ASSUME NEW l \in LinkType, NEW r, Calm(l, r)
    PROVE  /\ Told(r) = Told(l) /\ Base(r) = Base(l) /\ SameAges(l, r)
           /\ Starts(l.iFrmRcvAt, r.iFrmRcvAt) /\ r.sent = l.sent
           /\ r.conn = l.conn /\ r.fd = l.fd /\ r.va = l.va /\ r.vs = l.vs
<1>1. /\ r.sent = l.sent /\ r.rcvd = l.rcvd /\ r.ackqueue = l.ackqueue
      /\ r.vapeer = l.vapeer /\ r.vr = l.vr /\ r.iFrmRcvAt = l.iFrmRcvAt
      /\ r.conn = l.conn /\ r.fd = l.fd /\ r.va = l.va /\ r.vs = l.vs
  BY DEF Calm
<1>2. Told(r) = Told(l) /\ Base(r) = Base(l)
  BY <1>1 DEF Told, Base
<1>3. SameAges(l, r)
  BY <1>1, <1>2 DEF SameAges
<1>4. QED
  BY <1>1, <1>2, <1>3 DEF Starts

\* An U frame is sent.
LEMMA SendUTime ==
    ASSUME NEW l \in LinkType, l.conn, NEW t \in UType
    PROVE  LET r == LapSendFrameU(l, t)
           IN  /\ r \in LinkType /\ r.state = l.state /\ r.va = l.va /\ r.vs = l.vs
               /\ Has(r.tx, {t})
               /\ r.uFrmSndAt = IF t \in Con THEN Off
                                ELSE IF l.uFrmSndAt = Off THEN 0 ELSE l.uFrmSndAt
<1> DEFINE r == LapSendFrameU(l, t)
           a == IF t \in Con THEN Off ELSE IF l.uFrmSndAt = Off THEN 0 ELSE l.uFrmSndAt
<1>1. UFrame(t) \in Frame /\ UFrame(t).type = t /\ l.tx \in Seq(Frame) /\ l.uFrmSndAt \in Timer(T1)
  BY UFrameType DEF LinkType, UFrame
<1>2. a \in Timer(T1)
  BY <1>1, TimerAssumption DEF Timer, Off
<1>3. r = [l EXCEPT !.tFrmSndAt = @ \/ t = "TESTFRact", !.uFrmSndAt = a, !.tx = Append(@, UFrame(t))]
  BY DEF LapSendFrameU, Write, LinkType, Con
<1> HIDE DEF a
<1>4. r.state = l.state /\ r.va = l.va /\ r.vs = l.vs /\ r.tx = Append(l.tx, UFrame(t)) /\ r.uFrmSndAt = a
  BY <1>3 DEF LinkType
<1>5. r \in LinkType
  BY SendUCalm DEF Calm
<1>6. Has(r.tx, {t})
  BY <1>1, <1>4, HasAppended
<1>7. QED
  BY <1>4, <1>5, <1>6 DEF a

\* EventMasterSlave on an indication: only con frames are written, and an
\* end goes on waiting for a confirmation until it has it.
LEMMA IndicationTime ==
    ASSUME NEW l \in LinkType, l.conn, NEW evt, NEW r, r = EventIndication(l, evt)
    PROVE  /\ Calm(l, r) /\ r.uFrmSndAt \in {l.uFrmSndAt, Off}
           /\ evt = "TESTFRact" => Has(r.tx, {"TESTFRcon"})
           /\ l.state \in Pending /\ evt \notin Con => r.state = l.state
           /\ r.uFrmSndAt # Off /\ evt \notin Con => (r.state \in Pending <=> l.state \in Pending)
           /\ Owing(l) => Owing(r)
           /\ evt \in {"FRAMES", "FRAMEI"} => Owing(r)
<1>1. /\ {"TESTFRcon", "STARTDTcon", "STOPDTcon"} \subseteq UType
      /\ {"STOPPED", "STARTED", "PENDING_UNCONFD"} \subseteq SSP
  BY DEF UType, SSP
<1>2. Calm(l, r) /\ r.va = l.va /\ r.vs = l.vs
  BY EventIndicationCalm DEF Calm
<1>3. CASE evt = "TESTFRact"
  <2>1. r = LapSendFrameU(l, "TESTFRcon")
    BY <1>3 DEF EventIndication
  <2>2. Has(r.tx, {"TESTFRcon"}) /\ r.state = l.state /\ r.uFrmSndAt = Off
    BY <1>1, <2>1, SendUTime DEF Con
  <2>3. QED
    BY <1>2, <1>3, <2>2 DEF Owing
<1>4. CASE r \in {LapSendFrameU(l, "STARTDTcon"), LapSendFrameU(l, "STOPDTcon")} /\ evt # "TESTFRact"
           /\ evt \notin {"FRAMES", "FRAMEI"}
  <2>1. r.state = l.state /\ r.uFrmSndAt = Off
    BY <1>1, <1>4, SendUTime DEF Con
  <2>2. QED
    BY <1>2, <1>4, <2>1 DEF Owing
<1>5. CASE /\ evt # "TESTFRact" /\ l.state \notin Pending
           /\ \E t \in Con, s \in {"STOPPED", "STARTED"} : r = LapSetState(LapSendFrameU(l, t), s)
  <2>1. PICK t \in Con, s \in {"STOPPED", "STARTED"} : r = LapSetState(LapSendFrameU(l, t), s)
    BY <1>5
  <2>2. LapSendFrameU(l, t) \in LinkType /\ LapSendFrameU(l, t).uFrmSndAt = Off
    BY <1>1, <2>1, SendUTime DEF Con
  <2>3. r.state = s /\ r.uFrmSndAt = Off
    BY <2>1, <2>2 DEF LapSetState, LinkType
  <2>4. QED
    BY <1>2, <1>5, <2>3 DEF Owing, Pending
<1>6. CASE evt \in Con /\ r \in {l, [l EXCEPT !.tFrmSndAt = FALSE], LapSetState(l, "STARTED"),
                                 LapSetState(l, "STOPPED")}
  <2>1. r.uFrmSndAt = l.uFrmSndAt /\ (r.state = l.state \/ r.state \in {"STARTED", "STOPPED"})
    BY <1>6 DEF LapSetState, LinkType
  <2>2. QED
    BY <1>2, <1>6, <2>1 DEF Owing, Con
<1>7. CASE evt = "STOPDTact" /\ l.state = "STARTED" /\ l.vs # l.va /\ r = LapSetState(l, "PENDING_UNCONFD")
  <2>1. r.uFrmSndAt = l.uFrmSndAt /\ r.state = "PENDING_UNCONFD"
    BY <1>7 DEF LapSetState, LinkType
  <2>2. QED
    BY <1>2, <1>7, <2>1 DEF Owing, Pending
<1>8. CASE evt # "TESTFRact" /\ r = l /\ (evt \in {"FRAMES", "FRAMEI"} => Owing(l))
  BY <1>2, <1>8
<1>9. QED
  <2>1. CASE evt \in {"TESTFRact"} \cup Con
    BY <1>3, <1>6, <2>1 DEF EventIndication, Con
  <2>2. CASE evt = "STARTDTact"
    BY <1>4, <1>5, <1>8, <2>2 DEF EventIndication, Con, Pending
  <2>3. CASE evt = "STOPDTact"
    BY <1>5, <1>7, <1>8, <2>3 DEF EventIndication, Con, Pending, ConfirmStop
  <2>4. CASE evt = "FRAMES"
    BY <1>5, <1>8, <2>4 DEF EventIndication, Con, Pending, ConfirmStop, StopIfAcked, Owing
  <2>5. CASE evt = "FRAMEI"
    BY <1>5, <1>8, <2>5 DEF EventIndication, Con, Pending, ConfirmStop, Owing
  <2>6. CASE evt \notin {"TESTFRact", "STARTDTact", "STOPDTact", "FRAMES", "FRAMEI"} \cup Con
    BY <1>8, <2>6 DEF EventIndication, Con
  <2>7. QED
    BY <2>1, <2>2, <2>3, <2>4, <2>5, <2>6

\* What is acknowledged leaves the ack queue, the rest waits on.
LEMMA AcknowledgeTime ==
    ASSUME NEW l, LinkInv(l), CountInv(l), NEW nr \in SeqNo, OKNR(l.va, l.vs, nr),
           NEW a, a = Acknowledge(l, nr)
    PROVE  /\ LinkInv(a) /\ SameAges(l, a) /\ Told(a) = Told(l) /\ a.sent = l.sent
           /\ a.state = l.state /\ a.uFrmSndAt = l.uFrmSndAt /\ a.iFrmRcvAt = l.iFrmRcvAt
           /\ a.conn = l.conn /\ a.fd = l.fd
<1> DEFINE d == Dist(l.va, nr)
           q == SubSeq(l.ackqueue, d+1, Len(l.ackqueue))
           h == SubSeq(l.ackqueue, 1, d)
<1>1. d \in 0..Len(l.ackqueue) /\ a = [l EXCEPT !.ackqueue = q, !.acked = l.acked \cup AckMsgs(h), !.va = nr]
  <2>1. LapRunAckQueue(l, nr) = [l EXCEPT !.ackqueue = q, !.acked = l.acked \cup AckMsgs(h)]
    BY AckQueueCut
  <2>2. QED
    BY <2>1, AckQueueCut DEF Acknowledge
<1>2. /\ l \in LinkType /\ l.ackqueue \in Seq(Unacked)
      /\ Len(l.ackqueue) \in Nat /\ Len(l.sent) \in Nat /\ Base(l) \in Nat
  BY DEF LinkInv, LinkType, CountInv
<1>3. d \in Nat /\ d <= Len(l.ackqueue)
  BY <1>1, <1>2
<1> HIDE DEF d
<1>4. /\ Len(q) = Len(l.ackqueue) - d
      /\ \A j \in 1..Len(q) : q[j] = l.ackqueue[d + j]
  BY <1>2, <1>3
<1> HIDE DEF q, h
<1>5. /\ a.ackqueue = q /\ a.state = l.state /\ a.uFrmSndAt = l.uFrmSndAt
      /\ a.iFrmRcvAt = l.iFrmRcvAt /\ a.conn = l.conn /\ a.fd = l.fd
      /\ a.sent = l.sent /\ a.rcvd = l.rcvd /\ a.vapeer = l.vapeer /\ a.vr = l.vr
  BY <1>1, <1>2 DEF LinkType
<1>6. LinkInv(a)
  BY AcknowledgeInv
<1>7. Told(a) = Told(l)
  BY <1>5 DEF Told
<1>8. Base(a) = Base(l) + d
  <2>1. Base(l) = Len(l.sent) - Len(l.ackqueue) /\ Base(a) = Len(l.sent) - (Len(l.ackqueue) - d)
    BY <1>4, <1>5 DEF Base
  <2>2. \A m, n \in Nat : m - (n - d) = (m - n) + d
    BY <1>3
  <2>3. QED
    BY <1>2, <2>1, <2>2
<1>9. SameAges(l, a)
  <2>1. SUFFICES ASSUME NEW j \in 1..Len(q)
                 PROVE  \E m \in 1..Len(l.ackqueue) :
                           Base(l) + m = Base(a) + j /\ a.ackqueue[j].age = l.ackqueue[m].age
    BY <1>5 DEF SameAges
  <2>2. d + j \in 1..Len(l.ackqueue) /\ Base(l) + (d + j) = Base(a) + j
    BY <1>2, <1>3, <1>4, <1>8
  <2>3. a.ackqueue[j].age = l.ackqueue[d + j].age
    BY <1>4, <1>5
  <2>4. QED
    BY <2>2, <2>3
<1>10. QED
  BY <1>5, <1>6, <1>7, <1>9

\* An S frame tells the other end of all that was received.
LEMMA SendSTime ==
    ASSUME NEW l \in LinkType, l.conn, l.fd, NEW r, r = LapSendFrameS(l)
    PROVE  /\ r \in LinkType /\ Told(r) = Len(l.rcvd) /\ Told(l) <= Told(r)
           /\ r.state = l.state /\ r.uFrmSndAt = l.uFrmSndAt /\ r.iFrmRcvAt = l.iFrmRcvAt
           /\ r.va = l.va /\ r.vs = l.vs /\ r.ackqueue = l.ackqueue
           /\ r.sent = l.sent /\ r.rcvd = l.rcvd /\ r.conn = l.conn /\ r.fd = l.fd
<1>1. /\ l.vr \in SeqNo /\ l.vapeer \in SeqNo /\ Len(l.rcvd) \in Nat /\ l.tx \in Seq(Frame)
      /\ SFrame(l.vr) \in Frame
  BY SFrameType DEF LinkType
<1>2. r = [l EXCEPT !.vapeer = l.vr, !.tx = Append(l.tx, SFrame(l.vr))]
  BY DEF LapSendFrameS, Write, LinkType
<1>3. /\ r.vapeer = l.vr /\ r.vr = l.vr
      /\ r.state = l.state /\ r.uFrmSndAt = l.uFrmSndAt /\ r.iFrmRcvAt = l.iFrmRcvAt
      /\ r.va = l.va /\ r.vs = l.vs /\ r.ackqueue = l.ackqueue
      /\ r.sent = l.sent /\ r.rcvd = l.rcvd /\ r.conn = l.conn /\ r.fd = l.fd
  BY <1>2 DEF LinkType
<1>4. r \in LinkType
  <2>1. Append(l.tx, SFrame(l.vr)) \in Seq(Frame)
    BY <1>1
  <2>2. QED
    BY <1>1, <1>2, <2>1 DEF LinkType
<1>5. Told(r) = Len(l.rcvd)
  BY <1>1, <1>3, DistSelf DEF Told
<1>6. QED
  BY <1>3, <1>4, <1>5, Lengths

\* An I frame is counted, and told of when it is the W-th one.
LEMMA AcceptTime ==
    ASSUME NEW a, LinkInv(a), a.conn, NEW f \in Frame, f.type = "I",
           NEW e, e = AcceptFrameI(a, f)
    PROVE  /\ Told(a) <= Told(e) /\ SameAges(a, e) /\ Starts(a.iFrmRcvAt, e.iFrmRcvAt)
           /\ e.uFrmSndAt \in {a.uFrmSndAt, Off} /\ e.sent = a.sent
           /\ e.conn = a.conn /\ e.fd = a.fd
           /\ a.state \in Pending => e.state = a.state
           /\ e.uFrmSndAt # Off => (e.state \in Pending <=> a.state \in Pending)
           /\ Owing(e)
<1> DEFINE t == IF a.iFrmRcvAt = Off THEN 0 ELSE a.iFrmRcvAt
           r == [a EXCEPT !.vr = NextNo(a.vr), !.iFrmRcvAt = t,
                          !.rcvd = Append(a.rcvd, f.msg), !.seen = a.seen \cup {f.msg}]
           s == IF AckDue(r) THEN LapSendFrameS(r) ELSE r
<1>1. e = EventIndication(s, "FRAMEI")
  BY DEF AcceptFrameI
<1>2. /\ a \in LinkType /\ a.vr \in SeqNo /\ a.vapeer \in SeqNo /\ a.iFrmRcvAt \in Timer(T2)
      /\ a.rcvd \in Seq(Msg) /\ Len(a.rcvd) \in Nat /\ a.seen \in SUBSET Msg /\ a.fd
      /\ f.msg \in Msg
  BY DEF LinkInv, LinkType, Frame, UType
<1>3. NextNo(a.vr) \in SeqNo /\ t \in Timer(T2) /\ Starts(a.iFrmRcvAt, t)
  BY <1>2, NextNoCases, TimerAssumption DEF Timer, Off, Starts
<1> HIDE DEF t
<1>4. /\ r \in LinkType
      /\ r.vr = NextNo(a.vr) /\ r.rcvd = Append(a.rcvd, f.msg) /\ r.iFrmRcvAt = t
      /\ r.vapeer = a.vapeer /\ r.ackqueue = a.ackqueue /\ r.sent = a.sent
      /\ r.state = a.state /\ r.uFrmSndAt = a.uFrmSndAt
      /\ r.fd = a.fd /\ r.conn = a.conn
  <2>1. Append(a.rcvd, f.msg) \in Seq(Msg) /\ a.seen \cup {f.msg} \in SUBSET Msg
    BY <1>2
  <2>2. QED
    BY <1>2, <1>3, <2>1 DEF LinkType
<1> HIDE DEF r
<1>5. Told(r) = Told(a)
  <2>1. PICK x, y \in SeqNo : x = a.vapeer /\ y = a.vr
    BY <1>2
  <2>2. Dist(x, y) < N - 1
    <3>1. Dist(x, y) < W /\ Dist(x, y) \in Nat
      BY <2>1, DistCases, SeqNoRange DEF LinkInv, AckDebtOf
    <3>2. QED
      BY <3>1, WindowAssumption, NAssumption
  <2>3. Dist(x, NextNo(y)) = Dist(x, y) + 1
    BY <2>2, DistNext
  <2>4. PICK d, m \in Nat : d = Dist(x, y) /\ m = Len(a.rcvd)
    BY <1>2, DistCases, SeqNoRange
  <2>5. (m + 1) - (d + 1) = m - d /\ Len(r.rcvd) = m + 1
    BY <1>2, <1>4, <2>4
  <2>6. QED
    BY <1>4, <2>1, <2>3, <2>4, <2>5 DEF Told
<1>6. /\ s \in LinkType /\ Told(r) <= Told(s) /\ s.ackqueue = r.ackqueue /\ s.sent = r.sent
      /\ s.state = r.state /\ s.uFrmSndAt = r.uFrmSndAt /\ s.iFrmRcvAt = r.iFrmRcvAt
      /\ s.fd = r.fd /\ s.conn = r.conn
  <2>1. CASE AckDue(r)
    BY <1>2, <1>4, <2>1, SendSTime
  <2>2. CASE ~AckDue(r)
    <3>1. s = r
      BY <2>2
    <3>2. Told(r) <= Told(r)
      BY <1>4, Lengths
    <3> HIDE DEF s
    <3>3. QED
      BY <1>4, <3>1, <3>2
  <2>3. QED
    BY <2>1, <2>2
<1> HIDE DEF s
<1>7. /\ Calm(s, e) /\ e.uFrmSndAt \in {s.uFrmSndAt, Off} /\ Owing(e)
      /\ s.state \in Pending => e.state = s.state
      /\ e.uFrmSndAt # Off => (e.state \in Pending <=> s.state \in Pending)
  <2>1. s.conn /\ "FRAMEI" \notin Con /\ "FRAMEI" # "TESTFRact"
    BY <1>4, <1>6 DEF Con
  <2>2. PICK evt : evt = "FRAMEI"
    OBVIOUS
  <2>3. s \in LinkType /\ s.conn /\ e = EventIndication(s, evt)
    BY <1>1, <1>6, <2>1, <2>2
  <2>4. /\ Calm(s, e) /\ e.uFrmSndAt \in {s.uFrmSndAt, Off}
        /\ s.state \in Pending /\ evt \notin Con => e.state = s.state
        /\ e.uFrmSndAt # Off /\ evt \notin Con => (e.state \in Pending <=> s.state \in Pending)
        /\ evt \in {"FRAMES", "FRAMEI"} => Owing(e)
    BY <2>3, IndicationTime, Zenon
  <2>5. QED
    BY <2>1, <2>2, <2>4
<1>8. /\ Told(e) = Told(s) /\ Base(e) = Base(s) /\ e.ackqueue = a.ackqueue /\ e.sent = a.sent
      /\ e.iFrmRcvAt = t /\ e.conn = a.conn /\ e.fd = a.fd
  BY <1>4, <1>6, <1>7, CalmTime DEF Calm
<1>9. Base(e) = Base(a)
  BY <1>8 DEF Base
<1>10. SameAges(a, e)
  BY <1>8, <1>9 DEF SameAges
<1>11. QED
  BY <1>3, <1>4, <1>5, <1>6, <1>7, <1>8, <1>10

\* The first frame v on the way to a link is read.
LEMMA IncomingTime ==
    ASSUME NEW l0, LinkInv(l0), CountInv(l0), l0.conn, NEW v \in Seq(Frame), v # <<>>,
           NEW f \in Frame, f = Head(v), NEW T, Readable(l0, v, T),
           NEW r, r = IncomingFrame(l0, f)
    PROVE  OnTime(l0, f.type, r)
<1> DEFINE l == [l0 EXCEPT !.xFrmRcvAt = 0]
           u == [l EXCEPT !.uFrmSndAt = Off]
<1>1. l \in LinkType /\ u \in LinkType /\ l0 \in LinkType
  <2>1. 0 \in Timer(T3) /\ Off \in Timer(T1) /\ l0 \in LinkType
    BY TimerAssumption DEF Timer, Off, LinkInv
  <2>2. QED
    BY <2>1 DEF LinkType
<1>2. Calm(l0, l) /\ Calm(l0, u)
  BY <1>1 DEF Calm, LinkType
<1>3. /\ l.state = l0.state /\ u.state = l0.state
      /\ l.uFrmSndAt = l0.uFrmSndAt /\ u.uFrmSndAt = Off
      /\ l.seen = l0.seen /\ u.seen = l0.seen /\ l.nberr = l0.nberr
  BY <1>1 DEF LinkType
<1>4. LinkInv(l) /\ l.conn /\ u.conn /\ CountInv(l)
  <2>1. LinkInv(l) /\ l.conn /\ u.conn
    BY <1>2, CalmKeepsInv DEF Calm
  <2>2. QED
    BY <1>2, <1>3, <2>1 DEF CountInv, Calm, Base, Told
<1>5. /\ f.type \in {"S", "I"} => f.nr \in SeqNo /\ OKNR(l.va, l.vs, f.nr)
      /\ f.type = "I" => OKNS(l.vr, f.ns)
  <2>1. PICK cnt, ack : Numbers(v, cnt, ack) /\ ReadBy(l0, v, T, cnt, ack)
    BY DEF Readable
  <2>2. f.nr \in SeqNo
    BY DEF Frame
  <2>3. QED
    BY <1>2, <2>1, <2>2, HeadNumbers DEF Calm
<1> HIDE DEF l, u
<1>6. CASE f.type \in Con
  <2>1. r = EventIndication(u, f.type)
    BY <1>6 DEF IncomingFrame, Con, l, u
  <2>2. /\ Calm(u, r) /\ r.uFrmSndAt = Off /\ (Owing(u) => Owing(r))
    BY <1>1, <1>3, <1>4, <2>1, IndicationTime
  <2>3. Calm(l0, r)
    BY <1>2, <2>2, CalmTwice
  <2>4. Owing(l0) => Owing(u)
    BY <1>2, <1>3 DEF Owing, Calm
  <2>5. /\ Told(r) = Told(l0) /\ Told(l0) <= Told(l0) /\ SameAges(l0, r)
        /\ Starts(l0.iFrmRcvAt, r.iFrmRcvAt) /\ r.sent = l0.sent
        /\ r.conn = l0.conn /\ r.fd = l0.fd
    <3>1. Told(l0) <= Told(l0)
      BY <1>1, Lengths
    <3>2. QED
      BY <1>1, <2>3, <3>1, CalmTime, Zenon
  <2>6. QED
    BY <1>6, <2>2, <2>4, <2>5 DEF OnTime, Con
<1>7. CASE f.type \in {"TESTFRact", "STARTDTact", "STOPDTact"}
  <2>1. r = EventIndication(l, f.type)
    BY <1>7 DEF IncomingFrame, l
  <2>2. /\ Calm(l, r) /\ r.uFrmSndAt \in {l.uFrmSndAt, Off} /\ (Owing(l) => Owing(r))
        /\ f.type = "TESTFRact" => Has(r.tx, {"TESTFRcon"})
        /\ l.state \in Pending => r.state = l.state
        /\ r.uFrmSndAt # Off => (r.state \in Pending <=> l.state \in Pending)
    BY <1>1, <1>4, <1>7, <2>1, IndicationTime DEF Con
  <2>3. Calm(l0, r)
    BY <1>2, <2>2, CalmTwice
  <2>4. Owing(l0) => Owing(l)
    BY <1>2, <1>3 DEF Owing, Calm
  <2>5. /\ Told(r) = Told(l0) /\ Told(l0) <= Told(l0) /\ SameAges(l0, r)
        /\ Starts(l0.iFrmRcvAt, r.iFrmRcvAt) /\ r.sent = l0.sent
        /\ r.conn = l0.conn /\ r.fd = l0.fd
    <3>1. Told(l0) <= Told(l0)
      BY <1>1, Lengths
    <3>2. QED
      BY <1>1, <2>3, <3>1, CalmTime, Zenon
  <2>6. r.uFrmSndAt = Off \/ Starts(l0.uFrmSndAt, r.uFrmSndAt)
    BY <1>3, <2>2 DEF Starts
  <2>7. QED
    BY <1>3, <1>7, <2>2, <2>4, <2>5, <2>6 DEF OnTime, Con
<1>8. ASSUME f.type \in {"S", "I"}
      PROVE  \E a : /\ a = Acknowledge(l, f.nr)
                    /\ LinkInv(a) /\ SameAges(l, a) /\ Told(a) = Told(l) /\ a.sent = l.sent
                    /\ a.state = l.state /\ a.uFrmSndAt = l.uFrmSndAt
                    /\ a.iFrmRcvAt = l.iFrmRcvAt /\ a.conn = l.conn /\ a.fd = l.fd
  BY <1>4, <1>5, <1>8, AcknowledgeTime
<1>9. CASE f.type \in {"S", "I"}
  <2>1. PICK a : /\ a = Acknowledge(l, f.nr)
                 /\ LinkInv(a) /\ SameAges(l, a) /\ Told(a) = Told(l) /\ a.sent = l.sent
                 /\ a.state = l.state /\ a.uFrmSndAt = l.uFrmSndAt
                 /\ a.iFrmRcvAt = l.iFrmRcvAt /\ a.conn = l.conn /\ a.fd = l.fd
    BY <1>8, <1>9
  <2>2. /\ Told(a) <= Told(r) /\ SameAges(a, r) /\ Starts(a.iFrmRcvAt, r.iFrmRcvAt)
        /\ r.uFrmSndAt \in {a.uFrmSndAt, Off} /\ r.sent = a.sent
        /\ r.conn = a.conn /\ r.fd = a.fd
        /\ a.state \in Pending => r.state = a.state
        /\ r.uFrmSndAt # Off => (r.state \in Pending <=> a.state \in Pending)
        /\ Owing(r)
    <3>1. CASE f.type = "S"
      <4>1. r = EventIndication(a, "FRAMES")
        BY <1>5, <2>1, <3>1 DEF IncomingFrame, l
      <4>2. a \in LinkType /\ a.conn
        BY <1>4, <2>1 DEF LinkInv
      <4>3. "FRAMES" \notin Con
        BY DEF Con
      <4>4. /\ Calm(a, r) /\ r.uFrmSndAt \in {a.uFrmSndAt, Off} /\ Owing(r)
            /\ a.state \in Pending => r.state = a.state
            /\ r.uFrmSndAt # Off => (r.state \in Pending <=> a.state \in Pending)
        BY <4>1, <4>2, <4>3, IndicationTime, Zenon
      <4>5. Told(a) <= Told(a)
        BY <4>2, Lengths
      <4>6. QED
        BY <4>2, <4>4, <4>5, CalmTime
    <3>2. CASE f.type = "I"
      <4>1. r = AcceptFrameI(a, f)
        BY <1>5, <2>1, <3>2 DEF IncomingFrame, l
      <4>2. LinkInv(a) /\ a.conn
        BY <1>4, <2>1
      <4>3. QED
        BY <3>2, <4>1, <4>2, AcceptTime, Zenon
    <3>3. QED
      BY <1>9, <3>1, <3>2
  <2>3. SameAges(l0, r)
    <3>1. SameAges(l, r)
      BY <2>1, <2>2 DEF SameAges
    <3>2. l.ackqueue = l0.ackqueue /\ Base(l) = Base(l0)
      BY <1>1, <1>2, CalmTime DEF Calm
    <3>3. QED
      BY <3>1, <3>2 DEF SameAges
  <2>4. /\ Told(l0) = Told(l) /\ l.iFrmRcvAt = l0.iFrmRcvAt /\ l.sent = l0.sent
        /\ l.conn = l0.conn /\ l.fd = l0.fd
    BY <1>1, <1>2, CalmTime DEF Calm
  <2>5. QED
    BY <1>3, <1>9, <2>1, <2>2, <2>3, <2>4 DEF OnTime, Con, Starts
<1>10. QED
  BY <1>6, <1>7, <1>9 DEF Frame, UType, Con

\* Nothing that a timer looks at changes.
LEMMA SameTime ==
    ASSUME NEW l \in LinkType, NEW r,
           r.conn = l.conn, r.fd = l.fd, r.state = l.state, r.sent = l.sent, r.rcvd = l.rcvd,
           r.va = l.va, r.vs = l.vs, r.vr = l.vr, r.vapeer = l.vapeer,
           r.ackqueue = l.ackqueue, r.iFrmRcvAt = l.iFrmRcvAt, r.uFrmSndAt = l.uFrmSndAt
    PROVE  OnTime(l, "none", r)
<1>1. Told(r) = Told(l) /\ Base(r) = Base(l) /\ Told(l) <= Told(l)
  <2>1. Told(l) <= Told(l)
    BY Lengths
  <2>2. QED
    BY <2>1 DEF Told, Base
<1>2. SameAges(l, r)
  BY <1>1 DEF SameAges
<1>3. QED
  BY <1>1, <1>2 DEF OnTime, Starts, Owing, Con

\* The out queue is sent.
LEMMA SendTime ==
    ASSUME NEW l, LinkInv(l), CountInv(l), l.conn, l.state = "STARTED", NEW fail \in Nat,
           NEW r, r = LapRunOutQueue(l, fail)
    PROVE  OnTime(l, "none", r) /\ r.state = l.state
<1> DEFINE m == IF l.ackqueue = <<>> THEN [l EXCEPT !.vs = l.va] ELSE l
           n == IF fail < SendRoom(m) THEN fail ELSE SendRoom(m)
           ms == [j \in 1..n |-> [msg |-> l.outqueue[j], ns |-> Advance(l.vs, j-1), age |-> 0]]
           h  == SubSeq(l.outqueue, 1, n)
<1>1. /\ m = l /\ l \in LinkType
      /\ l.ackqueue \in Seq(Unacked) /\ l.outqueue \in Seq(Msg) /\ l.sent \in Seq(Msg)
      /\ Len(l.ackqueue) \in Nat /\ Len(l.outqueue) \in Nat /\ Len(l.sent) \in Nat
      /\ K \in Nat /\ N \in Nat /\ K <= N
  <2>1. m = l
    BY EmptyWindow
  <2>2. K \in Nat /\ N \in Nat /\ K <= N
    BY WindowAssumption, NAssumption
  <2>3. QED
    BY <2>1, <2>2 DEF LinkInv, LinkType
<1>2. n \in 0..Len(l.outqueue) /\ n <= N
  <2>1. SendRoom(l) \in 0..Len(l.outqueue) /\ Len(l.ackqueue) + SendRoom(l) <= K
    BY SendRoomFits
  <2>2. QED
    BY <1>1, <2>1
<1>3. r = l \/ r = SendFirst(l, n)
  BY <1>1 DEF LapRunOutQueue
<1> HIDE DEF n, m
<1>4. ms \in Seq(Unacked) /\ Len(ms) = n
  BY <1>2, SentMessages
<1>5. \A j \in 1..n : ms[j].age = 0
  OBVIOUS
<1>6. h \in Seq(Msg) /\ Len(h) = n /\ n \in Nat
  BY <1>1, <1>2
<1>7. CASE r = l
  BY <1>1, <1>7, SameTime
<1>8. CASE r = SendFirst(l, n)
  <2> HIDE DEF ms, h
  <2>1. /\ r.ackqueue = l.ackqueue \o ms /\ r.sent = l.sent \o h /\ r.state = l.state
        /\ r.rcvd = l.rcvd /\ r.vapeer = l.vapeer /\ r.vr = l.vr
        /\ r.uFrmSndAt = l.uFrmSndAt /\ r.iFrmRcvAt = l.iFrmRcvAt
        /\ r.conn = l.conn /\ r.fd = l.fd
    BY <1>1, <1>8 DEF SendFirst, LinkType, ms, h
  <2>2. PICK Q, S, k \in Nat : Q = Len(l.ackqueue) /\ S = Len(l.sent) /\ k = n
    BY <1>1, <1>6
  <2>3. Len(r.ackqueue) = Q + k /\ Len(r.sent) = S + k
    <3>1. Len(l.ackqueue \o ms) = Len(l.ackqueue) + Len(ms)
      BY <1>1, <1>4
    <3>2. Len(l.sent \o h) = Len(l.sent) + Len(h)
      BY <1>1, <1>6, JoinedMsgs
    <3>3. QED
      BY <1>4, <1>6, <2>1, <2>2, <3>1, <3>2
  <2>4. Base(r) = Base(l)
    BY <2>2, <2>3 DEF Base
  <2>5. SameAges(l, r)
    <3>1. SUFFICES ASSUME NEW j \in 1..(Q + k)
                   PROVE  \/ r.ackqueue[j].age = 0
                          \/ j \in 1..Q /\ r.ackqueue[j].age = l.ackqueue[j].age
      BY <2>2, <2>3, <2>4 DEF SameAges
    <3>2. CASE j \in 1..Q
      <4>1. r.ackqueue[j] = l.ackqueue[j]
        BY <1>1, <1>4, <2>1, <2>2, <3>2
      <4>2. QED
        BY <3>2, <4>1
    <3>3. CASE j \notin 1..Q
      <4>1. PICK q \in 1..k : j = Q + q
        BY <3>3
      <4>2. r.ackqueue[j] = ms[q]
        BY <1>1, <1>4, <2>1, <2>2, <4>1
      <4>3. QED
        BY <1>5, <2>2, <4>2 DEF ms
    <3>4. QED
      BY <3>2, <3>3
  <2>6. Told(l) <= Told(r)
    <3>1. Told(r) = Told(l) /\ Told(l) <= Told(l)
      <4>1. Told(l) <= Told(l)
        BY <1>1, Lengths
      <4>2. QED
        BY <2>1, <4>1 DEF Told
    <3>2. QED
      BY <3>1
  <2>7. QED
    BY <2>1, <2>5, <2>6 DEF OnTime, Starts, Owing, Con, Pending
<1>9. QED
  BY <1>3, <1>7, <1>8

\* The user asks for something.
LEMMA RequestTime ==
    ASSUME NEW l \in LinkType, l.conn, NEW evt, NEW r, r = EventRequest(l, evt)
    PROVE  OnTime(l, "none", r)
<1>1. /\ {"TESTFRact", "STARTDTact", "STOPDTact"} \subseteq UType
      /\ {"PENDING_STARTED", "PENDING_STOPPED"} \subseteq SSP
  BY DEF UType, SSP
<1>2. Calm(l, r)
  BY EventRequestCalm
<1>3. /\ Told(r) = Told(l) /\ SameAges(l, r) /\ Starts(l.iFrmRcvAt, r.iFrmRcvAt)
      /\ r.sent = l.sent /\ r.conn = l.conn /\ r.fd = l.fd /\ r.va = l.va /\ r.vs = l.vs
  BY <1>2, CalmTime
<1>4. Told(l) <= Told(r)
  BY <1>3, Lengths
<1>5. CASE r = LapSendFrameU(l, "TESTFRact")
  <2>1. Has(r.tx, {"TESTFRact"}) /\ r.state = l.state /\ Starts(l.uFrmSndAt, r.uFrmSndAt)
    BY <1>1, <1>5, SendUTime DEF Starts, Con
  <2>2. QED
    BY <1>3, <1>4, <2>1 DEF OnTime, Owing, Con
<1>6. CASE /\ l.state \in {"STOPPED", "STARTED"}
           /\ \E t \in {"STARTDTact", "STOPDTact"}, s \in Pending :
                 r = LapSetState(LapSendFrameU(l, t), s)
  <2>1. PICK t \in {"STARTDTact", "STOPDTact"}, s \in Pending :
               r = LapSetState(LapSendFrameU(l, t), s)
    BY <1>6
  <2>2. LapSendFrameU(l, t) \in LinkType /\ Starts(l.uFrmSndAt, LapSendFrameU(l, t).uFrmSndAt)
    <3>1. t \in UType /\ t \notin Con
      BY <1>1, <2>1 DEF Con
    <3>2. QED
      BY <3>1, SendUTime DEF Starts
  <2>3. r.state = s /\ Starts(l.uFrmSndAt, r.uFrmSndAt)
    BY <2>1, <2>2 DEF LapSetState, LinkType
  <2>4. QED
    BY <1>3, <1>4, <1>6, <2>1, <2>3 DEF OnTime, Owing, Con, Pending
<1>7. CASE r = l
  BY <1>7, SameTime
<1>8. QED
  BY <1>5, <1>6, <1>7 DEF EventRequest, Pending

\* A connection is there: a client may ask to start.
LEMMA ConnectedTime ==
    ASSUME NEW i, NEW l \in LinkType, l.conn, l.state = "INIT",
           NEW r, r = EventConnected(i, l)
    PROVE  /\ OnTime(l, "none", r) /\ Calm(l, r)
           /\ Role(i) = "srv" => r.state = "STOPPED" /\ r.uFrmSndAt = l.uFrmSndAt
<1>1. Calm(l, r)
  BY EventConnectedCalm
<1>2. /\ Told(r) = Told(l) /\ SameAges(l, r) /\ Starts(l.iFrmRcvAt, r.iFrmRcvAt)
      /\ r.sent = l.sent /\ r.conn = l.conn /\ r.fd = l.fd
  BY <1>1, CalmTime
<1>3. Told(l) <= Told(r)
  BY <1>2, Lengths
<1>4. CASE r = LapSetState(LapSendFrameU(l, "STARTDTact"), "PENDING_STARTED") /\ Role(i) # "srv"
  <2>1. "STARTDTact" \in UType /\ "STARTDTact" \notin Con
    BY DEF UType, Con
  <2>2. /\ LapSendFrameU(l, "STARTDTact") \in LinkType
        /\ Starts(l.uFrmSndAt, LapSendFrameU(l, "STARTDTact").uFrmSndAt)
    BY <2>1, SendUTime DEF Starts
  <2>3. r.state = "PENDING_STARTED" /\ Starts(l.uFrmSndAt, r.uFrmSndAt)
    BY <1>4, <2>2 DEF LapSetState, LinkType
  <2>4. QED
    BY <1>1, <1>2, <1>3, <1>4, <2>3 DEF OnTime, Owing, Con, Pending
<1>5. CASE r = LapSetState(l, "STOPPED")
  <2>1. r.state = "STOPPED" /\ r.uFrmSndAt = l.uFrmSndAt
    BY <1>5 DEF LapSetState, LinkType
  <2>2. QED
    BY <1>1, <1>2, <1>3, <2>1 DEF OnTime, Owing, Con, Pending, Starts
<1>6. QED
  BY <1>4, <1>5, ServerWaits DEF EventConnected

-----------------------------------------------------------------------------
(* Two ends in time *)

\* What waits in link a for its acknowledgement was just sent, or link b
\* told of it, or runs T2 for it and a is ahead of b by d seconds.
Ages(a, b, d) ==
    \A j \in 1..Len(a.ackqueue) :
        \/ a.ackqueue[j].age = 0
        \/ Base(a) + j <= Told(b)
        \/ b.iFrmRcvAt # Off /\ a.ackqueue[j].age <= b.iFrmRcvAt + 1 + d

\* Link a, before which the frames v are waiting, runs T1 for a test that is
\* among w or whose answer is among v, or for its order.
Awaits(a, v, w) ==
    a.uFrmSndAt # Off => Has(w, {"TESTFRact"}) \/ Has(v, Con) \/ a.state \in Pending

\* T1 of link a is older than a second only if the confirmation of STOPDTact
\* waits for the acknowledgements that a owes, T2 of a being older yet.
Late(a, b) ==
    a.uFrmSndAt > 0 =>
        /\ a.state = "PENDING_STOPPED" /\ b.state \in {"PENDING_UNCONFD", "STOPPED"}
        /\ \/ a.iFrmRcvAt # Off /\ a.uFrmSndAt <= a.iFrmRcvAt
           \/ Len(b.sent) <= Told(a)

Pair(a, b, v, w, d) == Ages(a, b, d) /\ Awaits(a, v, w) /\ Late(a, b)

\* The timers of a link are numbers, or Off.
LEMMA TimerTypes ==
    ASSUME NEW l \in LinkType
    PROVE  /\ l.uFrmSndAt \in Int /\ l.uFrmSndAt >= Off /\ l.iFrmRcvAt \in Int
           /\ l.iFrmRcvAt >= Off /\ Off = -1
           /\ \A j \in 1..Len(l.ackqueue) : l.ackqueue[j].age \in Nat
<1>1. /\ l.uFrmSndAt \in Timer(T1) /\ l.iFrmRcvAt \in Timer(T2)
      /\ l.ackqueue \in Seq(Unacked)
  BY DEF LinkType
<1>2. \A j \in 1..Len(l.ackqueue) : l.ackqueue[j].age \in 0..(T1 + 1)
  <2>1. \A j \in 1..Len(l.ackqueue) : l.ackqueue[j] \in Unacked
    BY <1>1
  <2>2. QED
    BY <2>1 DEF Unacked
<1>3. QED
  BY <1>1, <1>2, TimerAssumption DEF Timer, Off

\* Frames x are waiting for a link that v waited for, f being the type of
\* the one that was read.
Waiting(v, f, x) ==
    \/ f = "none" /\ x = v
    \/ v # <<>> /\ f = Head(v).type /\ x = Tail(v)

LEMMA HasWaiting ==
    ASSUME NEW v \in Seq(Frame), NEW f, NEW x, Waiting(v, f, x), NEW S, Has(v, S)
    PROVE  f \in S \/ Has(x, S)
BY HasRead DEF Waiting

\* The link that moves.
LEMMA PairMoves ==
    ASSUME NEW a \in LinkType, NEW b \in LinkType, NEW r \in LinkType,
           NEW v \in Seq(Frame), NEW w \in Seq(Frame), NEW x, NEW f, Waiting(v, f, x),
           NEW d \in Int, OnTime(a, f, r), Pair(a, b, v, w, d)
    PROVE  Pair(r, b, x, w \o r.tx, d)
<1>1. r.tx \in Seq(Frame)
  BY DEF LinkType
<1>2. Ages(r, b, d)
  <2>1. SUFFICES ASSUME NEW j \in 1..Len(r.ackqueue), r.ackqueue[j].age # 0
                 PROVE  \/ Base(r) + j <= Told(b)
                        \/ b.iFrmRcvAt # Off /\ r.ackqueue[j].age <= b.iFrmRcvAt + 1 + d
    BY DEF Ages
  <2>2. PICK m \in 1..Len(a.ackqueue) :
               Base(a) + m = Base(r) + j /\ r.ackqueue[j].age = a.ackqueue[m].age
    BY <2>1 DEF OnTime, SameAges
  <2>3. QED
    BY <2>1, <2>2 DEF Pair, Ages
<1>3. Awaits(r, x, w \o r.tx)
  <2>1. SUFFICES ASSUME r.uFrmSndAt # Off, r.state \notin Pending, ~Has(w \o r.tx, {"TESTFRact"})
                 PROVE  Has(x, Con)
    BY DEF Awaits
  <2>2. ~Has(r.tx, {"TESTFRact"}) /\ ~Has(w, {"TESTFRact"})
    BY <1>1, <2>1, HasJoined
  <2>3. a.uFrmSndAt # Off /\ a.state \notin Pending /\ f \notin Con
    BY <2>1, <2>2 DEF OnTime
  <2>4. Has(v, Con)
    BY <2>2, <2>3 DEF Pair, Awaits
  <2>5. QED
    BY <2>3, <2>4, HasWaiting
<1>4. Late(r, b)
  <2>1. SUFFICES ASSUME r.uFrmSndAt > 0
                 PROVE  /\ r.state = "PENDING_STOPPED"
                        /\ b.state \in {"PENDING_UNCONFD", "STOPPED"}
                        /\ \/ r.iFrmRcvAt # Off /\ r.uFrmSndAt <= r.iFrmRcvAt
                           \/ Len(b.sent) <= Told(r)
    BY DEF Late
  <2>2. r.uFrmSndAt = a.uFrmSndAt /\ f \notin Con
    BY <2>1, TimerTypes DEF OnTime, Starts
  <2>3. /\ a.state = "PENDING_STOPPED" /\ b.state \in {"PENDING_UNCONFD", "STOPPED"}
        /\ \/ a.iFrmRcvAt # Off /\ a.uFrmSndAt <= a.iFrmRcvAt
           \/ Len(b.sent) <= Told(a)
    BY <2>1, <2>2 DEF Pair, Late
  <2>4. r.state = a.state
    BY <2>2, <2>3 DEF OnTime, Pending
  <2>5. a.iFrmRcvAt # Off => r.iFrmRcvAt = a.iFrmRcvAt
    BY DEF OnTime, Starts
  <2>6. Len(b.sent) <= Told(a) => Len(b.sent) <= Told(r)
    <3>1. /\ Told(a) <= Told(r) /\ Told(a) \in Int /\ Told(r) \in Int /\ Len(b.sent) \in Int
      BY Lengths DEF OnTime
    <3>2. QED
      BY <3>1
  <2>7. QED
    BY <2>2, <2>3, <2>4, <2>5, <2>6
<1>5. QED
  BY <1>2, <1>3, <1>4 DEF Pair

\* The link at the other end.
LEMMA PairStays ==
    ASSUME NEW a \in LinkType, NEW b \in LinkType, NEW r \in LinkType,
           NEW v \in Seq(Frame), NEW w \in Seq(Frame), NEW x, NEW f, Waiting(v, f, x),
           NEW d \in Int, OnTime(a, f, r), Pair(b, a, w, v, d),
           \/ b.state # "PENDING_STOPPED"
           \/ a.state \in {"PENDING_UNCONFD", "STOPPED"} => r.state \in {"PENDING_UNCONFD", "STOPPED"}
    PROVE  Pair(b, r, w \o r.tx, x, d)
<1>1. r.tx \in Seq(Frame)
  BY DEF LinkType
<1>2. /\ Told(a) <= Told(r) /\ Told(a) \in Int /\ Told(r) \in Int /\ Base(b) \in Int
      /\ a.iFrmRcvAt # Off => r.iFrmRcvAt = a.iFrmRcvAt
  BY Lengths DEF OnTime, Starts
<1>3. Ages(b, r, d)
  <2>1. SUFFICES ASSUME NEW j \in 1..Len(b.ackqueue), b.ackqueue[j].age # 0,
                        ~(Base(b) + j <= Told(r))
                 PROVE  r.iFrmRcvAt # Off /\ b.ackqueue[j].age <= r.iFrmRcvAt + 1 + d
    BY DEF Ages
  <2>2. ~(Base(b) + j <= Told(a))
    BY <1>2, <2>1
  <2>3. a.iFrmRcvAt # Off /\ b.ackqueue[j].age <= a.iFrmRcvAt + 1 + d
    BY <2>1, <2>2 DEF Pair, Ages
  <2>4. QED
    BY <1>2, <2>3
<1>4. Awaits(b, w \o r.tx, x)
  <2>1. SUFFICES ASSUME b.uFrmSndAt # Off, b.state \notin Pending, ~Has(w \o r.tx, Con)
                 PROVE  Has(x, {"TESTFRact"})
    BY DEF Awaits
  <2>2. ~Has(r.tx, Con) /\ ~Has(w, Con)
    BY <1>1, <2>1, HasJoined
  <2>3. Has(v, {"TESTFRact"})
    BY <2>1, <2>2 DEF Pair, Awaits
  <2>4. f # "TESTFRact"
    <3>1. Has(r.tx, {"TESTFRcon"}) => Has(r.tx, Con)
      BY DEF Has, Con
    <3>2. QED
      BY <2>2, <3>1 DEF OnTime
  <2>5. QED
    BY <2>3, <2>4, HasWaiting
<1>5. Late(b, r)
  <2>1. SUFFICES ASSUME b.uFrmSndAt > 0
                 PROVE  /\ b.state = "PENDING_STOPPED"
                        /\ r.state \in {"PENDING_UNCONFD", "STOPPED"}
                        /\ \/ b.iFrmRcvAt # Off /\ b.uFrmSndAt <= b.iFrmRcvAt
                           \/ Len(r.sent) <= Told(b)
    BY DEF Late
  <2>2. /\ b.state = "PENDING_STOPPED" /\ a.state \in {"PENDING_UNCONFD", "STOPPED"}
        /\ \/ b.iFrmRcvAt # Off /\ b.uFrmSndAt <= b.iFrmRcvAt
           \/ Len(a.sent) <= Told(b)
    BY <2>1 DEF Pair, Late
  <2>3. r.sent = a.sent
    BY <2>2 DEF OnTime
  <2>4. QED
    BY <2>2, <2>3
<1>6. QED
  BY <1>3, <1>4, <1>5 DEF Pair

\* l and m do not differ in what the timers look at.
SameClock(l, m) ==
    /\ m.state = l.state /\ m.uFrmSndAt = l.uFrmSndAt /\ m.iFrmRcvAt = l.iFrmRcvAt
    /\ m.ackqueue = l.ackqueue /\ m.sent = l.sent /\ m.rcvd = l.rcvd
    /\ m.va = l.va /\ m.vs = l.vs /\ m.vapeer = l.vapeer /\ m.vr = l.vr

LEMMA SamePair ==
    ASSUME NEW l, NEW m, SameClock(l, m), NEW b, NEW v, NEW w, NEW d
    PROVE  /\ Pair(l, b, v, w, d) <=> Pair(m, b, v, w, d)
           /\ Pair(b, l, v, w, d) <=> Pair(b, m, v, w, d)
           /\ Owing(l) <=> Owing(m)
<1>1. Told(m) = Told(l) /\ Base(m) = Base(l)
  BY DEF SameClock, Told, Base
<1>2. /\ Ages(l, b, d) <=> Ages(m, b, d)
      /\ Ages(b, l, d) <=> Ages(b, m, d)
  BY <1>1 DEF SameClock, Ages
<1>3. /\ Awaits(l, v, w) <=> Awaits(m, v, w)
      /\ Late(l, b) <=> Late(m, b)
      /\ Late(b, l) <=> Late(b, m)
  BY <1>1 DEF SameClock, Awaits, Late
<1>4. QED
  BY <1>2, <1>3 DEF Pair, Owing, SameClock

-----------------------------------------------------------------------------
(* The invariant *)

\* How many seconds link i is ahead of link k.
Lead(i, k) == (IF i \in ticked THEN 1 ELSE 0) - (IF k \in ticked THEN 1 ELSE 0)

PairAt(i, k) == Pair(lk[i], lk[k], net[i], net[k], Lead(i, k))

\* There is no connection but that of the client, and nobody gave it up.
Alone ==
    \A c \in Conn : IF c = cur THEN up[c] /\ tcp[c] # "shut" ELSE tcp[c] = "free"

\* The clock of one end is ahead only while both are there.
InTurn == ticked = {} \/ \E c \in Conn : Joined(c) /\ ticked \in {{Cli}, {c}}

\* No timer runs without a connection, T2 is looked at each second, and a
\* stop is confirmed once nothing is owed.
OwnTime(l) ==
    /\ ~l.conn => l.uFrmSndAt = Off /\ l.iFrmRcvAt = Off
    /\ l.iFrmRcvAt <= T2
    /\ Owing(l)

TimeInv ==
    /\ Alone /\ InTurn
    /\ \A i \in Link : OwnTime(lk[i])
    /\ \A c \in Conn : lk[c].state \notin Pending
    /\ \A c \in Conn : c = cur => PairAt(Cli, c) /\ PairAt(c, Cli)

\* No connection is given up.
KeepsJoined == \A c \in Conn : Joined(c) => Joined(c)'

\* Nobody is ahead of anybody else by more than a second.
LEMMA LeadType == ASSUME NEW i, NEW k PROVE Lead(i, k) \in Int
BY DEF Lead

\* Link i of the connection moves in time.
LEMMA LinkInTime ==
    ASSUME LinksInv, TimeInv, NEW c \in Conn, c = cur, NEW i \in Link, NEW k \in Link,
           (i = Cli /\ k = c) \/ (i = c /\ k = Cli),
           NEW l \in LinkType, NEW r \in LinkType, SameClock(lk[i], l), l.conn,
           NEW f, OnTime(l, f, r),
           i = c => r.state \notin Pending,
           \/ i # c
           \/ lk[Cli].state # "PENDING_STOPPED"
           \/ l.state \in {"PENDING_UNCONFD", "STOPPED"} => r.state \in {"PENDING_UNCONFD", "STOPPED"},
           lk' = [lk EXCEPT ![i] = [r EXCEPT !.tx = <<>>]],
           net'[k] = net[k] \o r.tx, Waiting(net[i], f, net'[i]),
           tcp' \in {tcp, [tcp EXCEPT ![c] = "open"]}, UNCHANGED <<cur, up, ticked>>
    PROVE  TimeInv' /\ KeepsJoined
<1> DEFINE s == [r EXCEPT !.tx = <<>>]
<1>1. /\ lk \in [Link -> LinkType] /\ net \in [Link -> Seq(Frame)]
      /\ Cli \in Link /\ Cli \notin Conn /\ Conn \subseteq Link /\ i # k
  BY ConnAssumption DEF LinksInv, TypeOK, Link
<1>2. s.conn = r.conn /\ SameClock(r, s)
  BY DEF LinkType, SameClock
<1>3. lk'[i] = s /\ \A j \in Link \ {i} : lk'[j] = lk[j]
  BY <1>1
<1> HIDE DEF s
<1>4. r.conn
  BY DEF OnTime
<1>5. KeepsJoined
  <2>1. lk[Cli].conn => lk'[Cli].conn
    BY <1>1, <1>2, <1>3, <1>4
  <2>2. \A e \in Conn : tcp[e] = "open" => tcp'[e] = "open"
    BY DEF LinksInv, TypeOK
  <2>3. QED
    BY <2>1, <2>2 DEF KeepsJoined, Joined
<1>6. Alone'
  BY DEF TimeInv, Alone, LinksInv, TypeOK
<1>7. InTurn'
  BY <1>5 DEF TimeInv, InTurn, KeepsJoined
<1>8. ASSUME NEW j \in Link
      PROVE  OwnTime(lk'[j])
  <2>1. CASE j # i
    BY <1>3, <2>1 DEF TimeInv
  <2>2. CASE j = i
    <3>1. Owing(r)
      <4>1. Owing(lk[i])
        BY DEF TimeInv, OwnTime
      <4>2. Owing(l)
        BY <4>1, SamePair
      <4>3. QED
        BY <4>2 DEF OnTime
    <3>2. r.iFrmRcvAt <= T2
      <4>1. l.iFrmRcvAt <= T2
        BY DEF TimeInv, OwnTime, SameClock
      <4>2. QED
        BY <4>1, TimerAssumption DEF OnTime, Starts
    <3>3. QED
      BY <1>2, <1>3, <1>4, <2>2, <3>1, <3>2, SamePair DEF OwnTime, SameClock
  <2>3. QED
    BY <2>1, <2>2
<1>9. ASSUME NEW e \in Conn
      PROVE  lk'[e].state \notin Pending
  BY <1>1, <1>2, <1>3 DEF TimeInv, SameClock
<1>10. Lead(i, k)' = Lead(i, k) /\ Lead(k, i)' = Lead(k, i)
  BY DEF Lead
<1>11. PairAt(i, k) /\ PairAt(k, i)
  BY DEF TimeInv
<1>12. Pair(l, lk[k], net[i], net[k], Lead(i, k)) /\ Pair(lk[k], l, net[k], net[i], Lead(k, i))
  BY <1>11, SamePair DEF PairAt
<1>13. PICK v, w \in Seq(Frame), b \in LinkType, x \in {net'[i]} :
          v = net[i] /\ w = net[k] /\ b = lk[k] /\ x = net'[i]
  BY <1>1
<1>14. Pair(r, b, x, w \o r.tx, Lead(i, k))
  BY <1>12, <1>13, LeadType, PairMoves
<1>15. Pair(b, r, w \o r.tx, x, Lead(k, i))
  <2>1. b.state # "PENDING_STOPPED"
        \/ (l.state \in {"PENDING_UNCONFD", "STOPPED"} => r.state \in {"PENDING_UNCONFD", "STOPPED"})
    BY <1>1, <1>13 DEF TimeInv, Pending
  <2>2. QED
    BY <1>12, <1>13, <2>1, LeadType, PairStays
<1>16. /\ Pair(lk'[i], lk'[k], net'[i], net'[k], Lead(i, k)')
       /\ Pair(lk'[k], lk'[i], net'[k], net'[i], Lead(k, i)')
  <2>1. Pair(s, b, x, w \o r.tx, Lead(i, k)) /\ Pair(b, s, w \o r.tx, x, Lead(k, i))
    BY <1>2, <1>14, <1>15, SamePair
  <2>2. lk'[i] = s /\ lk'[k] = b /\ net'[i] = x /\ net'[k] = w \o r.tx
    BY <1>1, <1>3, <1>13
  <2>3. QED
    BY <1>10, <2>1, <2>2
<1>17. PairAt(i, k)' /\ PairAt(k, i)'
  BY <1>16 DEF PairAt
<1>18. \A e \in Conn : e = cur' => PairAt(Cli, e)' /\ PairAt(e, Cli)'
  BY <1>17
<1>19. QED
  BY <1>5, <1>6, <1>7, <1>8, <1>9, <1>18 DEF TimeInv

-----------------------------------------------------------------------------
(* What happens within a second *)

\* A link that is connected is an end of the client's connection.
LEMMA AtConnection ==
    ASSUME LinksInv, ConnInv, TimeInv, NEW i \in Link,
           lk[i].conn \/ (i = Cli /\ lk[Cli].fd /\ tcp[cur] # "syn")
    PROVE  \E c \in Conn, k \in Link :
              /\ c = cur /\ ((i = Cli /\ k = c) \/ (i = c /\ k = Cli))
              /\ k = Peer(i) /\ c = ConnOf(i) /\ PeerThere(i) /\ up[c] /\ Together(c)
              /\ lk[i].fd
<1>1. /\ tcp \in [Conn -> {"free", "syn", "backlog", "open", "shut"}]
      /\ cur \in Conn \cup {NoConn} /\ Cli \notin Conn /\ Link = {Cli} \cup Conn
  BY ConnAssumption DEF LinksInv, TypeOK, Link
<1>2. lk[i].conn => lk[i].fd
  BY DEF LinksInv, LinkInv
<1>3. CASE i = Cli
  <2>1. lk[Cli].fd /\ tcp[cur] # "syn"
    BY <1>2, <1>3 DEF ConnInv
  <2>2. PICK c \in Conn : c = cur
    BY <1>1, <2>1 DEF ConnInv
  <2>3. tcp[c] # "free" /\ tcp[c] # "shut" /\ up[c]
    BY <2>2 DEF ConnInv, TimeInv, Alone
  <2>4. tcp[c] \in {"backlog", "open"}
    BY <1>1, <2>1, <2>2, <2>3
  <2>5. QED
    BY <1>1, <1>3, <2>1, <2>2, <2>3, <2>4 DEF Peer, ConnOf, PeerThere, Together
<1>4. CASE i # Cli
  <2>1. PICK c \in Conn : c = i
    BY <1>1, <1>4
  <2>2. lk[c].fd /\ tcp[c] = "open"
    BY <1>2, <1>4, <2>1 DEF ConnInv
  <2>3. c = cur /\ up[c]
    BY <2>2 DEF TimeInv, Alone
  <2>4. QED
    BY <1>1, <1>4, <2>1, <2>2, <2>3 DEF Peer, ConnOf, PeerThere, Together
<1>5. QED
  BY <1>3, <1>4

\* A link with a connection goes on with it.
LEMMA CommitInTime ==
    ASSUME LinksInv, TimeInv, NEW c \in Conn, c = cur, NEW i \in Link, NEW k \in Link,
           (i = Cli /\ k = c) \/ (i = c /\ k = Cli),
           k = Peer(i), c = ConnOf(i), PeerThere(i), up[c],
           NEW l \in LinkType, NEW r \in LinkType, SameClock(lk[i], l), l.conn, r.fd,
           OnTime(l, "none", r), Commit(i, r), UNCHANGED <<up, ticked>>,
           i = c => r.state \notin Pending,
           \/ i # c
           \/ lk[Cli].state # "PENDING_STOPPED"
           \/ l.state \in {"PENDING_UNCONFD", "STOPPED"} => r.state \in {"PENDING_UNCONFD", "STOPPED"}
    PROVE  TimeInv' /\ KeepsJoined
<1>1. i # k
  BY ConnAssumption
<1>2. /\ lk' = [lk EXCEPT ![i] = [r EXCEPT !.tx = <<>>]]
      /\ cur' = cur /\ tcp' = tcp
  BY DEF Commit
<1>3. net'[k] = net[k] \o r.tx /\ net'[i] = net[i]
  BY <1>1 DEF Commit
<1>4. Waiting(net[i], "none", net'[i])
  BY <1>3 DEF Waiting
<1>5. QED
  BY <1>2, <1>3, <1>4, LinkInTime

LEMMA SameClockSelf == \A l : SameClock(l, l)
BY DEF SameClock

LEMMA RecvInTime ==
    ASSUME LinksInv, WireInv, StartInv, TimeInv, NEW i \in Link, Recv(i), ticked' = ticked
    PROVE  TimeInv' /\ KeepsJoined
<1>1. lk[i].conn /\ net[i] # <<>> /\ ConnInv
  BY DEF Recv, WireInv
<1>2. PICK c \in Conn, k \in Link :
              /\ c = cur /\ ((i = Cli /\ k = c) \/ (i = c /\ k = Cli))
              /\ k = Peer(i) /\ c = ConnOf(i) /\ PeerThere(i) /\ up[c] /\ Together(c)
              /\ lk[i].fd
  BY <1>1, AtConnection
<1>3. PICK v \in Seq(Frame) : v = net[i]
  BY DEF LinksInv, TypeOK
<1>4. PICK f \in Frame : f = Head(v)
  BY <1>1, <1>3
<1>5. PICK l : l = lk[i]
  OBVIOUS
<1>6. LinkInv(l) /\ CountInv(l) /\ l.conn /\ Readable(l, v, Seen) /\ l.tx = <<>> /\ l \in LinkType
  BY <1>1, <1>3, <1>5 DEF LinksInv, TypeOK, WireInv, WireOf
<1>7. PICK r : r = IncomingFrame(l, f)
  OBVIOUS
<1>8. r \in LinkType /\ OnTime(l, f.type, r)
  BY <1>1, <1>3, <1>4, <1>6, <1>7, IncomingTime, IncomingFrameInv DEF LinkInv
<1>9. Answer(l.state, f.type, r.state, r.tx)
  BY <1>6, <1>7, NothingSent, IncomingAnswers
<1>10. /\ lk' = [lk EXCEPT ![i] = [r EXCEPT !.tx = <<>>]]
       /\ net'[k] = net[k] \o r.tx /\ net'[i] = Tail(net[i])
       /\ UNCHANGED <<tcp, cur, up>>
  <2>1. i # k
    BY <1>2, ConnAssumption
  <2>2. QED
    BY <1>2, <1>3, <1>4, <1>5, <1>7, <2>1 DEF Recv
<1>11. Waiting(net[i], f.type, net'[i])
  BY <1>1, <1>3, <1>4, <1>10 DEF Waiting
<1>12. i = c => r.state \notin Pending
  <2>1. i = c => l.state \notin Pending
    BY <1>5 DEF TimeInv
  <2>2. QED
    BY <1>9, <2>1 DEF Answer, Pending
<1>13. \/ i # c
       \/ lk[Cli].state # "PENDING_STOPPED"
       \/ l.state \in {"PENDING_UNCONFD", "STOPPED"} => r.state \in {"PENDING_UNCONFD", "STOPPED"}
  <2>1. SUFFICES ASSUME i = c, lk[Cli].state = "PENDING_STOPPED",
                        l.state \in {"PENDING_UNCONFD", "STOPPED"}
                 PROVE  r.state \in {"PENDING_UNCONFD", "STOPPED"}
    OBVIOUS
  <2>2. Agree("PENDING_STOPPED", l.state, net[Cli], net[i])
    BY <1>2, <1>5, <2>1 DEF StartInv, Phase
  <2>3. l.state = "STOPPED" => NoOrder(v)
    BY <1>3, <2>2 DEF Agree, AtRest, Asked
  <2>4. NoOrder(v) => f.type \notin Order
    <3>1. f = v[1] /\ 1 \in 1..Len(v)
      BY <1>1, <1>3, <1>4, EmptySeq
    <3>2. QED
      BY <3>1 DEF NoOrder
  <2>5. QED
    BY <1>9, <2>1, <2>3, <2>4 DEF Answer, Order
<1>14. QED
  BY <1>2, <1>5, <1>6, <1>8, <1>10, <1>11, <1>12, <1>13, SameClockSelf, LinkInTime

LEMMA SendInTime ==
    ASSUME LinksInv, WireInv, TimeInv, NEW i \in Link, Send(i), ticked' = ticked
    PROVE  TimeInv' /\ KeepsJoined
<1>1. lk[i].conn /\ lk[i].state = "STARTED" /\ ConnInv /\ up' = up
  BY DEF Send, WantsPollOut, WireInv
<1>2. PICK c \in Conn, k \in Link :
              /\ c = cur /\ ((i = Cli /\ k = c) \/ (i = c /\ k = Cli))
              /\ k = Peer(i) /\ c = ConnOf(i) /\ PeerThere(i) /\ up[c] /\ Together(c)
              /\ lk[i].fd
  BY <1>1, AtConnection
<1>3. PICK fail \in Nat : Commit(i, LapRunOutQueue(lk[i], fail))
  BY <1>2, WindowAssumption, NAssumption DEF Send
<1>4. PICK l : l = lk[i]
  OBVIOUS
<1>5. LinkInv(l) /\ CountInv(l) /\ l.conn /\ l.fd /\ l \in LinkType /\ l.state = "STARTED"
  BY <1>1, <1>2, <1>4 DEF LinksInv, WireInv, WireOf, LinkInv
<1>6. PICK r : r = LapRunOutQueue(l, fail)
  OBVIOUS
<1>7. r \in LinkType /\ OnTime(l, "none", r) /\ r.state = "STARTED"
  BY <1>5, <1>6, SendTime, RunOutQueueInv DEF LinkInv
<1>8. r.fd /\ r.state \notin Pending /\ Commit(i, r)
  BY <1>3, <1>4, <1>5, <1>6, <1>7 DEF OnTime, Pending
<1>9. QED
  BY <1>1, <1>2, <1>4, <1>5, <1>7, <1>8, SameClockSelf, CommitInTime

LEMMA PutInTime ==
    ASSUME LinksInv, WireInv, StartInv, TimeInv, NEW i \in Link, PutOutQueue(i), ticked' = ticked
    PROVE  TimeInv' /\ KeepsJoined
<1>1. lk[i].state = "STARTED" /\ lk[i].conn /\ ConnInv
  BY DEF PutOutQueue, StartInv, WireInv
<1>2. PICK c \in Conn, k \in Link :
              /\ c = cur /\ ((i = Cli /\ k = c) \/ (i = c /\ k = Cli))
              /\ k = Peer(i) /\ c = ConnOf(i) /\ PeerThere(i) /\ up[c] /\ Together(c)
              /\ lk[i].fd
  BY <1>1, AtConnection
<1>3. lk[i] \in LinkType /\ lk \in [Link -> LinkType] /\ lk[i].tx = <<>>
  BY DEF LinksInv, TypeOK
<1>4. PICK r : r = [lk[i] EXCEPT !.outqueue = Append(@, used["put"] + 1)]
  OBVIOUS
<1>5. r = lk'[i] /\ lk' = [lk EXCEPT ![i] = r] /\ net' = net /\ UNCHANGED <<tcp, cur, up>>
  BY <1>3, <1>4 DEF PutOutQueue
<1>6. r \in LinkType /\ SameClock(lk[i], r) /\ r.conn = lk[i].conn /\ r.fd = lk[i].fd /\ r.tx = <<>>
  <2>1. Append(lk[i].outqueue, used["put"] + 1) \in Seq(Msg)
    BY <1>3, PutMsg DEF LinkType, PutOutQueue, LinksInv
  <2>2. QED
    BY <1>3, <1>4, <2>1 DEF LinkType, SameClock
<1>7. OnTime(lk[i], "none", r)
  BY <1>3, <1>6, SameTime DEF SameClock
<1>8. [r EXCEPT !.tx = <<>>] = r
  BY <1>6 DEF LinkType
<1>9. net'[k] = net[k] \o r.tx /\ Waiting(net[i], "none", net'[i])
  <2>1. net[k] \in Seq(Frame)
    BY DEF LinksInv, TypeOK
  <2>2. net[k] \o <<>> = net[k]
    BY <2>1
  <2>3. QED
    BY <1>5, <1>6, <2>2 DEF Waiting
<1>10. i = c => r.state \notin Pending
  BY <1>1, <1>6 DEF SameClock, Pending
<1>11. lk[i].state \notin {"PENDING_UNCONFD", "STOPPED"}
  BY <1>1
<1>12. QED
  <2>1. lk' = [lk EXCEPT ![i] = [r EXCEPT !.tx = <<>>]]
    BY <1>5, <1>8
  <2>2. PICK l : l = lk[i]
    OBVIOUS
  <2>3. /\ l \in LinkType /\ l.conn /\ SameClock(lk[i], l) /\ OnTime(l, "none", r)
        /\ l.state \notin {"PENDING_UNCONFD", "STOPPED"}
    BY <1>1, <1>3, <1>7, <1>11, <2>2, SameClockSelf
  <2>4. QED
    BY <1>2, <1>5, <1>6, <1>9, <1>10, <2>1, <2>3, LinkInTime

LEMMA RequestInTime ==
    ASSUME LinksInv, WireInv, TimeInv, NEW evt, Request(Cli, evt), ticked' = ticked
    PROVE  TimeInv' /\ KeepsJoined
<1>1. lk[Cli].conn /\ ConnInv /\ up' = up /\ Commit(Cli, EventRequest(lk[Cli], evt)) /\ Cli \in Link
  BY DEF Request, WireInv, Link
<1>2. PICK c \in Conn, k \in Link :
              /\ c = cur /\ ((Cli = Cli /\ k = c) \/ (Cli = c /\ k = Cli))
              /\ k = Peer(Cli) /\ c = ConnOf(Cli) /\ PeerThere(Cli) /\ up[c] /\ Together(c)
              /\ lk[Cli].fd
  BY <1>1, AtConnection
<1>3. Cli # c
  BY ConnAssumption
<1>4. PICK l, r : l = lk[Cli] /\ r = EventRequest(l, evt)
  OBVIOUS
<1>5. l \in LinkType /\ l.conn /\ l.fd
  BY <1>1, <1>2, <1>4 DEF LinksInv, LinkInv
<1>6. r \in LinkType /\ OnTime(l, "none", r)
  BY <1>4, <1>5, RequestTime, EventRequestCalm DEF Calm
<1>7. r.fd
  BY <1>5, <1>6 DEF OnTime
<1>8. QED
  BY <1>1, <1>2, <1>3, <1>4, <1>5, <1>6, <1>7, SameClockSelf, CommitInTime

LEMMA ConnectDoneInTime ==
    ASSUME LinksInv, WireInv, StartInv, TimeInv, ConnectDone, ticked' = ticked
    PROVE  TimeInv' /\ KeepsJoined
<1> DEFINE m == [lk[Cli] EXCEPT !.conn = TRUE, !.progAt = Off]
<1>1. /\ lk[Cli].fd /\ tcp[cur] # "syn" /\ ~lk[Cli].conn /\ ConnInv /\ up' = up
      /\ Commit(Cli, EventConnected(Cli, m)) /\ Cli \in Link
  BY DEF ConnectDone, WireInv, Link
<1>2. PICK c \in Conn, k \in Link :
              /\ c = cur /\ ((Cli = Cli /\ k = c) \/ (Cli = c /\ k = Cli))
              /\ k = Peer(Cli) /\ c = ConnOf(Cli) /\ PeerThere(Cli) /\ up[c] /\ Together(c)
              /\ lk[Cli].fd
  BY <1>1, AtConnection
<1>3. Cli # c
  BY ConnAssumption
<1>4. lk[Cli] \in LinkType /\ lk[Cli].state = "INIT" /\ Off \in Timer(CnxDelay)
  BY <1>1 DEF LinksInv, LinkInv, StartInv, Timer, Off, CnxDelay
<1>5. PICK l : l = m
  OBVIOUS
<1>6. l \in LinkType /\ l.conn /\ l.fd /\ l.state = "INIT" /\ SameClock(lk[Cli], l)
  BY <1>1, <1>4, <1>5 DEF LinkType, SameClock
<1>7. PICK r : r = EventConnected(Cli, l)
  OBVIOUS
<1>8. r \in LinkType /\ OnTime(l, "none", r)
  BY <1>6, <1>7, ConnectedTime DEF Calm
<1>9. r.fd /\ Commit(Cli, r)
  BY <1>1, <1>5, <1>6, <1>7, <1>8 DEF OnTime
<1>10. QED
  BY <1>1, <1>2, <1>3, <1>6, <1>8, <1>9, CommitInTime

\* Nothing waits in a link without a connection, and no timer of it runs.
LEMMA Unconnected ==
    ASSUME LinksInv, WireInv, TimeInv, NEW i \in Link, ~lk[i].conn
    PROVE  /\ lk[i].uFrmSndAt = Off /\ lk[i].iFrmRcvAt = Off
           /\ lk[i].ackqueue = <<>> /\ lk[i].sent = <<>> /\ lk[i].rcvd = <<>>
           /\ lk[i].va = 0 /\ lk[i].vs = 0 /\ lk[i].vr = 0 /\ lk[i].vapeer = 0
<1>1. lk[i].uFrmSndAt = Off /\ lk[i].iFrmRcvAt = Off
  BY DEF TimeInv, OwnTime
<1>2. /\ CountInv(lk[i]) /\ LinkInv(lk[i])
      /\ lk[i].ackqueue = <<>> /\ lk[i].sent = <<>> /\ lk[i].rcvd = <<>>
  BY DEF WireInv, WireOf, CountInv, LinksInv
<1>3. Len(lk[i].sent) = 0 /\ Len(lk[i].rcvd) = 0 /\ Base(lk[i]) = 0
  BY <1>2 DEF Base
<1>4. lk[i].va = 0 /\ lk[i].vs = 0 /\ lk[i].vr = 0
  BY <1>2, <1>3, CountZero DEF CountInv
<1>5. lk[i].vapeer = lk[i].vr
  BY <1>1, <1>2 DEF LinkInv, AckDebtOf
<1>6. QED
  BY <1>1, <1>2, <1>4, <1>5

LEMMA PairRests ==
    ASSUME NEW a, a.uFrmSndAt = Off, a.ackqueue = <<>>
    PROVE  \A b, v, w, d : Pair(a, b, v, w, d)
<1>1. ~(a.uFrmSndAt > 0)
  BY DEF Off
<1>2. Len(a.ackqueue) = 0 /\ \A j : j \notin 1..0
  OBVIOUS
<1>3. QED
  BY <1>1, <1>2 DEF Pair, Ages, Awaits, Late

LEMMA DialInTime ==
    ASSUME LinksInv, WireInv, TimeInv, NEW c \in Conn, Dial(c), ticked' = ticked
    PROVE  TimeInv' /\ KeepsJoined
<1>1. /\ ~lk[Cli].fd /\ tcp[c] = "free" /\ cur' = c /\ net' = net
      /\ lk' = [lk EXCEPT ![Cli].fd = TRUE, ![Cli].progAt = 0]
      /\ tcp' = [tcp EXCEPT ![c] = "syn"] /\ up' = [up EXCEPT ![c] = TRUE]
  BY DEF Dial
<1>2. /\ lk \in [Link -> LinkType] /\ tcp \in [Conn -> {"free", "syn", "backlog", "open", "shut"}]
      /\ up \in [Conn -> BOOLEAN] /\ Cli \in Link /\ Conn \subseteq Link /\ Cli \notin Conn
      /\ NoConn \notin Conn
  BY ConnAssumption DEF LinksInv, TypeOK, Link
<1>3. cur = NoConn
  BY <1>1 DEF WireInv, ConnInv
<1>4. ~lk[Cli].conn /\ ~lk[c].conn
  <2>1. ~lk[c].fd
    BY <1>1 DEF WireInv, ConnInv
  <2>2. QED
    BY <1>1, <1>2, <2>1 DEF LinksInv, LinkInv
<1>5. ticked = {} /\ KeepsJoined
  BY <1>2, <1>3 DEF TimeInv, InTurn, Joined, KeepsJoined
<1>6. Alone'
  BY <1>1, <1>2, <1>3 DEF TimeInv, Alone
<1>7. /\ \A j \in Link \ {Cli} : lk'[j] = lk[j]
      /\ SameClock(lk[Cli], lk'[Cli]) /\ lk'[Cli].conn = lk[Cli].conn
  BY <1>1, <1>2 DEF LinkType, SameClock
<1>8. \A j \in Link : OwnTime(lk'[j])
  BY <1>7, SamePair DEF TimeInv, OwnTime, SameClock
<1>9. \A e \in Conn : lk'[e].state \notin Pending
  BY <1>2, <1>7 DEF TimeInv
<1>10. PairAt(Cli, c)' /\ PairAt(c, Cli)'
  <2>1. /\ lk'[Cli].uFrmSndAt = Off /\ lk'[Cli].ackqueue = <<>>
        /\ lk'[c].uFrmSndAt = Off /\ lk'[c].ackqueue = <<>>
    BY <1>2, <1>4, <1>7, Unconnected DEF SameClock
  <2>2. QED
    BY <2>1, PairRests DEF PairAt
<1>11. InTurn'
  BY <1>5 DEF InTurn
<1>12. QED
  BY <1>1, <1>5, <1>6, <1>8, <1>9, <1>10, <1>11 DEF TimeInv

LEMMA HandshakeInTime ==
    ASSUME LinksInv, TimeInv, NEW c \in Conn, Handshake(c), ticked' = ticked
    PROVE  TimeInv' /\ KeepsJoined
<1>1. tcp[c] = "syn" /\ tcp' = [tcp EXCEPT ![c] = "backlog"] /\ UNCHANGED <<lk, net, cur, up>>
  BY DEF Handshake
<1>2. c = cur /\ tcp \in [Conn -> {"free", "syn", "backlog", "open", "shut"}]
  BY <1>1 DEF TimeInv, Alone, LinksInv, TypeOK
<1>3. ticked = {} /\ KeepsJoined
  BY <1>1, <1>2 DEF TimeInv, InTurn, Joined, KeepsJoined
<1>4. Alone' /\ InTurn'
  BY <1>1, <1>2, <1>3 DEF TimeInv, Alone, InTurn
<1>5. \A i, k : PairAt(i, k)' <=> PairAt(i, k)
  BY <1>1 DEF PairAt, Lead
<1>6. QED
  BY <1>1, <1>3, <1>4, <1>5 DEF TimeInv

LEMMA AcceptInTime ==
    ASSUME LinksInv, WireInv, StartInv, TimeInv, NEW c \in Conn, Accept(c), ticked' = ticked
    PROVE  TimeInv' /\ KeepsJoined
<1> DEFINE m == [LapReset(lk[c], TRUE) EXCEPT !.fd = TRUE, !.conn = TRUE]
           r == EventConnected(c, m)
<1>1. /\ tcp[c] = "backlog" /\ tcp' = [tcp EXCEPT ![c] = "open"] /\ UNCHANGED <<cur, up>>
      /\ lk' = [lk EXCEPT ![c] = [r EXCEPT !.tx = <<>>]]
      /\ net' = IF cur = c /\ up[c] THEN [net EXCEPT ![Cli] = @ \o r.tx] ELSE net
  BY DEF Accept
<1>2. c = cur /\ up[c] /\ ~lk[c].conn
  <2>1. c = cur /\ up[c]
    BY <1>1 DEF TimeInv, Alone
  <2>2. ~lk[c].fd
    BY <1>1 DEF WireInv, ConnInv
  <2>3. QED
    BY <2>1, <2>2 DEF LinksInv, LinkInv, Link
<1>3. /\ lk[c] \in LinkType /\ net \in [Link -> Seq(Frame)] /\ c \in Link /\ Cli \in Link /\ c # Cli
      /\ lk[c].tx = <<>>
  BY ConnAssumption DEF LinksInv, TypeOK, Link
<1>4. /\ m.state = "INIT" /\ m.conn /\ m.fd /\ SameClock(lk[c], m)
  <2>1. /\ m.state = "INIT" /\ m.conn /\ m.fd
        /\ m.uFrmSndAt = Off /\ m.iFrmRcvAt = Off
        /\ m.ackqueue = <<>> /\ m.sent = <<>> /\ m.rcvd = <<>>
        /\ m.va = 0 /\ m.vs = 0 /\ m.vr = 0 /\ m.vapeer = 0
    BY DEF LapReset, NewLink
  <2>2. lk[c].state = "INIT"
    BY <1>2, <1>3 DEF StartInv
  <2>3. QED
    BY <1>2, <1>3, <2>1, <2>2, Unconnected DEF SameClock
<1>5. m \in LinkType
  <2>1. PICK z : z = LapReset(lk[c], TRUE)
    OBVIOUS
  <2>2. z \in LinkType
    BY <1>3, <2>1, ResetInv DEF LinkInv
  <2>3. QED
    BY <2>1, <2>2 DEF LinkType
<1> HIDE DEF m
<1>6. /\ OnTime(m, "none", r) /\ Calm(m, r) /\ r.state = "STOPPED"
  BY <1>3, <1>4, <1>5, ConnectedTime DEF Role
<1>7. r \in LinkType /\ r.state \notin Pending
  BY <1>6 DEF Calm, Pending
<1> HIDE DEF r
<1>8. net'[Cli] = net[Cli] \o r.tx /\ Waiting(net[c], "none", net'[c])
  BY <1>1, <1>2, <1>3 DEF Waiting
<1>9. QED
  BY <1>1, <1>2, <1>3, <1>4, <1>5, <1>6, <1>7, <1>8, LinkInTime

LEMMA PromptInTime ==
    ASSUME LinksInv, WireInv, StartInv, TimeInv, Prompt
    PROVE  TimeInv' /\ KeepsJoined
<1>1. ticked' = ticked
  BY DEF Prompt
<1>2. CASE ConnectDone
  BY <1>1, <1>2, ConnectDoneInTime
<1>3. CASE \E c \in Conn : Dial(c) \/ Handshake(c) \/ Accept(c)
  BY <1>1, <1>3, DialInTime, HandshakeInTime, AcceptInTime
<1>4. CASE \E i \in Link : Recv(i) \/ Send(i) \/ PutOutQueue(i)
  BY <1>1, <1>4, RecvInTime, SendInTime, PutInTime
<1>5. CASE \E evt \in {"STARTDTact", "STOPDTact", "TESTFRact"} : Request(Cli, evt)
  BY <1>1, <1>5, RequestInTime
<1>6. QED
  BY <1>2, <1>3, <1>4, <1>5 DEF Prompt

-----------------------------------------------------------------------------
(* A second goes by *)

\* A second goes by for link l, which becomes r, and no timer cuts it: T2
\* goes on or all that was received is told.
Tick(l, r) ==
    /\ r \in LinkType /\ r.conn /\ r.fd /\ r.state = l.state
    /\ r.sent = l.sent /\ r.rcvd = l.rcvd /\ r.va = l.va /\ r.vs = l.vs
    /\ Base(r) = Base(l) /\ Len(r.ackqueue) = Len(l.ackqueue)
    /\ \A j \in 1..Len(l.ackqueue) : r.ackqueue[j].age <= l.ackqueue[j].age + 1
    /\ l.uFrmSndAt = Off => /\ r.uFrmSndAt \in {Off, 0}
                            /\ r.uFrmSndAt = 0 => Has(r.tx, {"TESTFRact"})
    /\ l.uFrmSndAt # Off => r.uFrmSndAt = l.uFrmSndAt + 1
    /\ r.iFrmRcvAt <= T2
    /\ \/ /\ Told(r) = Told(l)
          /\ r.iFrmRcvAt = IF l.iFrmRcvAt = Off THEN Off ELSE l.iFrmRcvAt + 1
       \/ Told(r) = Len(l.rcvd)

\* LapTimerT1T2T3 and LapTimerAckQueue, when no timeout is over but T2.
LEMMA ClockTime ==
    ASSUME NEW i, NEW l, LinkInv(l), l.conn, l.uFrmSndAt < T1, l.iFrmRcvAt <= T2,
           \A j \in 1..Len(l.ackqueue) : l.ackqueue[j].age + 1 < T1,
           NEW e, e = LapDoClockSc(i, l, FALSE)
    PROVE  Tick(l, e)
<1> DEFINE a == Aged(l)
           q == [j \in 1..Len(l.ackqueue) |-> OlderMsg(l.ackqueue[j])]
           s == LapTimerT1T2T3(i, a)
<1>1. /\ l \in LinkType /\ l.fd /\ l.ackqueue \in Seq(Unacked) /\ Len(l.ackqueue) \in Nat
      /\ T1 \in Nat /\ T2 \in Nat /\ Off = -1
      /\ l.uFrmSndAt \in Int /\ l.uFrmSndAt >= Off /\ l.iFrmRcvAt \in Int /\ l.iFrmRcvAt >= Off
  <2>1. l \in LinkType /\ l.fd
    BY DEF LinkInv
  <2>2. l.ackqueue \in Seq(Unacked) /\ Len(l.ackqueue) \in Nat
    BY <2>1 DEF LinkType
  <2>3. l.uFrmSndAt \in Int /\ l.uFrmSndAt >= Off /\ l.iFrmRcvAt \in Int /\ l.iFrmRcvAt >= Off
    BY <2>1, TimerTypes
  <2>4. T1 \in Nat /\ T2 \in Nat /\ Off = -1
    BY TimerAssumption DEF Off
  <2>5. QED
    BY <2>1, <2>2, <2>3, <2>4
<1>2. LinkInv(a) /\ a \in LinkType
  BY AgedInv DEF LinkInv
<1>3. /\ a.uFrmSndAt = Older(l.uFrmSndAt, T1) /\ a.iFrmRcvAt = Older(l.iFrmRcvAt, T2)
      /\ a.ackqueue = q /\ a.conn /\ a.fd /\ a.state = l.state
      /\ a.sent = l.sent /\ a.rcvd = l.rcvd /\ a.va = l.va /\ a.vs = l.vs
      /\ a.vr = l.vr /\ a.vapeer = l.vapeer /\ a.tx = l.tx
  BY <1>1 DEF Aged, LinkType
<1>4. Len(q) = Len(l.ackqueue)
  BY <1>1
<1>5. \A j \in 1..Len(l.ackqueue) : q[j].age <= l.ackqueue[j].age + 1 /\ q[j].age < T1
  <2>1. SUFFICES ASSUME NEW j \in 1..Len(l.ackqueue)
                 PROVE  q[j].age <= l.ackqueue[j].age + 1 /\ q[j].age < T1
    OBVIOUS
  <2>2. PICK m \in Unacked : m = l.ackqueue[j]
    BY <1>1
  <2>3. m.age \in Nat /\ m.age + 1 < T1
    BY <2>2 DEF Unacked
  <2>4. OlderMsg(m).age \in {m.age, m.age + 1}
    BY <2>2, <2>3 DEF OlderMsg, Older, Unacked
  <2>5. q[j] = OlderMsg(m)
    BY <2>2
  <2>6. QED
    BY <1>1, <2>2, <2>3, <2>4, <2>5
<1> HIDE DEF q, a
<1>6. Base(a) = Base(l) /\ Told(a) = Told(l)
  BY <1>3, <1>4 DEF Base, Told
<1>7. /\ a.uFrmSndAt = IF l.uFrmSndAt = Off THEN Off ELSE l.uFrmSndAt + 1
      /\ a.iFrmRcvAt = IF l.iFrmRcvAt = Off THEN Off ELSE l.iFrmRcvAt + 1
      /\ ~(a.uFrmSndAt > T1)
  BY <1>1, <1>3 DEF Older
<1>8. Tick(l, s) /\ s.ackqueue = q
  <2>1. CASE a.iFrmRcvAt > T2
    <3>1. PICK b : b = [a EXCEPT !.iFrmRcvAt = Off]
      OBVIOUS
    <3>2. /\ b \in LinkType /\ b.conn /\ b.fd /\ b.iFrmRcvAt = Off
          /\ b.uFrmSndAt = a.uFrmSndAt /\ b.ackqueue = q /\ b.state = l.state
          /\ b.sent = l.sent /\ b.rcvd = l.rcvd /\ b.va = l.va /\ b.vs = l.vs
      <4>1. Off \in Timer(T2)
        BY <1>1 DEF Timer
      <4>2. QED
        BY <1>2, <1>3, <3>1, <4>1 DEF LinkType
    <3>3. s = LapSendFrameS(b)
      BY <1>3, <1>7, <2>1, <3>1 DEF LapTimerT1T2T3
    <3> HIDE DEF s
    <3>4. /\ s \in LinkType /\ Told(s) = Len(l.rcvd) /\ s.iFrmRcvAt = Off
          /\ s.uFrmSndAt = a.uFrmSndAt /\ s.ackqueue = q /\ s.state = l.state
          /\ s.sent = l.sent /\ s.rcvd = l.rcvd /\ s.va = l.va /\ s.vs = l.vs
          /\ s.conn /\ s.fd
      BY <3>2, <3>3, SendSTime
    <3>5. Base(s) = Base(l)
      BY <1>3, <1>6, <3>4 DEF Base
    <3>6. QED
      BY <1>1, <1>4, <1>5, <1>7, <3>4, <3>5 DEF Tick
  <2>2. CASE ~(a.iFrmRcvAt > T2) /\ s = LapSendFrameU(a, "TESTFRact")
    <3> HIDE DEF s
    <3>1. "TESTFRact" \in UType /\ "TESTFRact" \notin Con
      BY DEF UType, Con
    <3>2. /\ s \in LinkType /\ s.state = a.state /\ Has(s.tx, {"TESTFRact"})
          /\ s.uFrmSndAt = IF a.uFrmSndAt = Off THEN 0 ELSE a.uFrmSndAt
          /\ Calm(a, s)
      BY <1>2, <1>3, <2>2, <3>1, SendUTime, SendUCalm
    <3>3. /\ Told(s) = Told(l) /\ Base(s) = Base(l) /\ s.ackqueue = q
          /\ s.iFrmRcvAt = a.iFrmRcvAt /\ s.conn /\ s.fd
          /\ s.sent = l.sent /\ s.rcvd = l.rcvd /\ s.va = l.va /\ s.vs = l.vs
      BY <1>2, <1>3, <1>6, <3>2, CalmTime DEF Calm
    <3>4. s.iFrmRcvAt <= T2
      BY <1>1, <1>7, <2>2, <3>3
    <3>5. QED
      BY <1>1, <1>3, <1>4, <1>5, <1>7, <3>2, <3>3, <3>4 DEF Tick
  <2>3. CASE ~(a.iFrmRcvAt > T2) /\ s = a
    <3> HIDE DEF s
    <3>1. s.iFrmRcvAt <= T2
      BY <1>1, <1>7, <2>3
    <3>2. QED
      BY <1>1, <1>2, <1>3, <1>4, <1>5, <1>6, <1>7, <2>3, <3>1 DEF Tick
  <2>4. QED
    BY <1>3, <1>7, <2>1, <2>2, <2>3 DEF LapTimerT1T2T3
<1>9. e = LapTimerAckQueue(i, s)
  BY DEF LapDoClockSc, a
<1> HIDE DEF s
<1>10. e = s
  <2>1. \A j \in 1..Len(s.ackqueue) : ~(s.ackqueue[j].age >= T1)
    <3>1. \A j \in 1..Len(l.ackqueue) : s.ackqueue[j].age \in Nat /\ q[j].age < T1
      BY <1>4, <1>5, <1>8, TimerTypes DEF Tick
    <3>2. QED
      BY <1>1, <1>4, <1>8, <3>1
  <2>2. QED
    BY <1>9, <2>1 DEF LapTimerAckQueue
<1>11. QED
  BY <1>8, <1>10

-----------------------------------------------------------------------------
(* When neither poll loop has anything to do *)

\* All that was sent was read, and what is told was heard.
LEMMA EmptyFlow ==
    ASSUME NEW a, NEW b, NEW S, Flow(a, b, <<>>, S)
    PROVE  Len(b.rcvd) = Len(a.sent) /\ Told(a) <= Base(b)
<1>1. PICK cnt, ack : ReadBy(b, <<>>, S, cnt, ack) /\ WrittenBy(a, b, <<>>, cnt, ack)
  BY DEF Flow
<1>2. Len(<<>>) = 0
  OBVIOUS
<1>3. cnt[0] = Len(b.rcvd) /\ ack[0] = Base(b)
  BY <1>1 DEF ReadBy
<1>4. cnt[0] = Len(a.sent) /\ Told(a) <= ack[0]
  BY <1>1, <1>2 DEF WrittenBy
<1>5. QED
  BY <1>3, <1>4

\* Whoever is connected has the other end.
LEMMA BothThere ==
    ASSUME LinksInv, WireInv, TimeInv, Idle, NEW i \in Link, lk[i].conn
    PROVE  \E c \in Conn, k \in Link :
              /\ c = cur /\ ((i = Cli /\ k = c) \/ (i = c /\ k = Cli))
              /\ k = Peer(i) /\ c = ConnOf(i) /\ PeerThere(i) /\ up[c] /\ Together(c)
              /\ Joined(c) /\ lk[i].fd /\ lk[k].conn /\ Live = {i, k}
<1>1. ConnInv /\ cur \in Conn \cup {NoConn} /\ Link = {Cli} \cup Conn
  BY DEF WireInv, LinksInv, TypeOK, Link
<1>2. PICK c \in Conn, k \in Link :
              /\ c = cur /\ ((i = Cli /\ k = c) \/ (i = c /\ k = Cli))
              /\ k = Peer(i) /\ c = ConnOf(i) /\ PeerThere(i) /\ up[c] /\ Together(c)
              /\ lk[i].fd
  BY <1>1, AtConnection
<1>3. tcp[c] = "open" /\ lk[c].conn
  BY <1>1, <1>2 DEF Idle, Together, ConnInv
<1>4. lk[Cli].conn
  BY <1>1, <1>2, ConnAssumption DEF Idle, ConnInv
<1>5. \A e \in Conn : lk[e].conn => e = c
  <2>1. SUFFICES ASSUME NEW e \in Conn, lk[e].conn
                 PROVE  e = c
    OBVIOUS
  <2>2. lk[e].fd
    BY <1>1, <2>1 DEF LinksInv, LinkInv
  <2>3. tcp[e] = "open"
    BY <1>1, <2>2 DEF ConnInv
  <2>4. QED
    BY <1>2, <2>3 DEF TimeInv, Alone
<1>6. Live = {Cli, c}
  BY <1>1, <1>3, <1>4, <1>5 DEF Live
<1>7. QED
  BY <1>2, <1>3, <1>4, <1>6 DEF Joined

\* What is true of end a and the other end b when nothing is on the way: if a
\* waits for an acknowledgement b runs T2 for it, and if a waits for a
\* confirmation it is the client, which owes acknowledgements itself.
AtRestWith(a, b, d) ==
    /\ Len(b.rcvd) = Len(a.sent) /\ Told(b) <= Base(a) /\ Told(a) <= Base(b)
    /\ a.ackqueue # <<>> => b.iFrmRcvAt # Off
    /\ \A j \in 1..Len(a.ackqueue) :
          a.ackqueue[j].age = 0 \/ a.ackqueue[j].age <= b.iFrmRcvAt + 1 + d
    /\ a.uFrmSndAt # Off =>
          /\ a.state = "PENDING_STOPPED" /\ b.state = "PENDING_UNCONFD"
          /\ a.iFrmRcvAt # Off /\ a.uFrmSndAt <= a.iFrmRcvAt

LEMMA IdleEnds ==
    ASSUME LinksInv, WireInv, StartInv, TimeInv, Idle, NEW c \in Conn, Joined(c), lk[c].conn,
           NEW i \in Link, NEW k \in Link, (i = Cli /\ k = c) \/ (i = c /\ k = Cli)
    PROVE  /\ net[i] = <<>> /\ net[k] = <<>>
           /\ AtRestWith(lk[i], lk[k], Lead(i, k))
<1>1. /\ net[i] = <<>> /\ net[k] = <<>> /\ c = cur /\ Together(c) /\ Cli # c
  BY ConnAssumption DEF Idle, Joined, Together
<1>2. PICK a, b \in LinkType : a = lk[i] /\ b = lk[k] /\ LinkInv(a) /\ LinkInv(b)
  BY DEF LinksInv, LinkInv
<1>3. Flow(a, b, <<>>, Seen) /\ Flow(b, a, <<>>, Seen)
  BY <1>1, <1>2 DEF WireInv, FlowsOf
<1>4. Len(b.rcvd) = Len(a.sent) /\ Told(b) <= Base(a) /\ Told(a) <= Base(b)
  BY <1>3, EmptyFlow
<1>5. Peer(i) = k /\ Peer(k) = i /\ i \in {c, Cli} /\ k \in {c, Cli}
  BY <1>1 DEF Peer
<1>6. \A p : p \notin 1..Len(<<>>)
  BY CountZero
<1>7. (a.ackqueue # <<>> => b.iFrmRcvAt # Off) /\ (b.ackqueue # <<>> => a.iFrmRcvAt # Off)
  <2>1. AckComing
    BY WireAcks
  <2>2. \A j \in {c, Cli} : lk[j].ackqueue # <<>> =>
            \/ \E p \in 1..Len(net[Peer(j)]) : net[Peer(j)][p].type = "I"
            \/ lk[Peer(j)].iFrmRcvAt # Off
            \/ \E p \in 1..Len(net[j]) : net[j][p].type \in {"S", "I"} /\ net[j][p].nr = lk[j].vs
    BY <2>1 DEF AckComing
  <2>3. QED
    BY <1>1, <1>2, <1>5, <1>6, <2>2
<1>8. Pair(a, b, <<>>, <<>>, Lead(i, k))
  BY <1>1, <1>2 DEF TimeInv, PairAt
<1>9. \A j \in 1..Len(a.ackqueue) :
          a.ackqueue[j].age = 0 \/ a.ackqueue[j].age <= b.iFrmRcvAt + 1 + Lead(i, k)
  <2>1. SUFFICES ASSUME NEW j \in 1..Len(a.ackqueue)
                 PROVE  ~(Base(a) + j <= Told(b))
    BY <1>8 DEF Pair, Ages
  <2>2. Base(a) \in Int /\ Told(b) \in Int /\ j >= 1 /\ j \in Int
    BY Lengths
  <2>3. QED
    BY <1>4, <2>2
<1>10. a.uFrmSndAt # Off =>
          /\ a.state = "PENDING_STOPPED" /\ b.state = "PENDING_UNCONFD"
          /\ a.iFrmRcvAt # Off /\ a.uFrmSndAt <= a.iFrmRcvAt
  <2>1. SUFFICES ASSUME a.uFrmSndAt # Off
                 PROVE  /\ a.state = "PENDING_STOPPED" /\ b.state = "PENDING_UNCONFD"
                        /\ a.iFrmRcvAt # Off /\ a.uFrmSndAt <= a.iFrmRcvAt
    OBVIOUS
  <2>2. a.state \in Pending
    BY <1>8, <2>1, HasNothing DEF Pair, Awaits
  <2>3. i = Cli /\ k = c /\ b.state \notin Pending
    BY <1>2, <2>2 DEF TimeInv
  <2>4. Agree(a.state, Phase(b), <<>>, <<>>) /\ Phase(b) \notin Pending
    <3>1. Phase(a) = a.state
      BY <2>2 DEF Phase, Pending
    <3>2. Agree(Phase(a), Phase(b), <<>>, <<>>)
      BY <1>1, <1>2, <2>3 DEF StartInv
    <3>3. QED
      BY <2>3, <3>1, <3>2 DEF Phase, Pending
  <2>5. \A s, t : ~OneOrder(<<>>, t) /\ ~TwoOrders(<<>>, s, t)
    BY <1>6 DEF OneOrder, TwoOrders
  <2>6. a.state = "PENDING_STOPPED" /\ Phase(b) = "PENDING_UNCONFD"
    <3>1. ~AtRest(a.state, Phase(b), <<>>, <<>>)
      BY <2>2 DEF AtRest, Pending
    <3>2. ~Asked(Phase(b), a.state, <<>>, <<>>)
      BY <2>4 DEF Asked, Pending
    <3>3. Asked(a.state, Phase(b), <<>>, <<>>)
      BY <2>4, <3>1, <3>2 DEF Agree
    <3>4. QED
      BY <2>4, <2>5, <3>3 DEF Asked, Pending
  <2>7. b.state = "PENDING_UNCONFD"
    BY <2>6 DEF Phase
  <2>8. b.ackqueue # <<>>
    <3>1. Owing(b)
      BY <1>2 DEF TimeInv, OwnTime
    <3>2. QED
      BY <1>2, <2>7, <3>1, EmptyWindow DEF Owing
  <2>9. a.iFrmRcvAt # Off
    BY <1>7, <2>8
  <2>10. ~(Len(b.sent) <= Told(a))
    <3>1. b.ackqueue \in Seq(Unacked) /\ Len(b.ackqueue) \in Nat
      BY DEF LinkType
    <3>2. Len(b.ackqueue) # 0
      BY <2>8, <3>1, EmptySeq
    <3>3. Base(b) = Len(b.sent) - Len(b.ackqueue) /\ Len(b.sent) \in Nat /\ Told(a) \in Int
      BY Lengths DEF Base
    <3>4. \A s, q \in Nat, t \in Int : q # 0 /\ t <= s - q => ~(s <= t)
      OBVIOUS
    <3>5. Told(a) <= Len(b.sent) - Len(b.ackqueue)
      BY <1>4, <3>3
    <3>6. QED
      BY <3>1, <3>2, <3>3, <3>4, <3>5
  <2>11. a.uFrmSndAt > 0 => a.uFrmSndAt <= a.iFrmRcvAt
    BY <1>8, <2>10 DEF Pair, Late
  <2>12. a.uFrmSndAt <= a.iFrmRcvAt
    <3>1. a.uFrmSndAt \in Int /\ a.iFrmRcvAt \in Int /\ a.iFrmRcvAt >= Off /\ Off = -1
      BY TimerTypes
    <3>2. QED
      BY <2>9, <2>11, <3>1
  <2>13. QED
    BY <2>6, <2>7, <2>9, <2>12
<1>11. QED
  BY <1>1, <1>2, <1>4, <1>7, <1>9, <1>10 DEF AtRestWith

\* The end whose clock it is.
LEMMA TickMoves ==
    ASSUME NEW a \in LinkType, NEW b \in LinkType, NEW r, NEW d \in {-1, 0},
           AtRestWith(a, b, d), AtRestWith(b, a, 0 - d), Tick(a, r)
    PROVE  Pair(r, b, <<>>, r.tx, d + 1)
<1>1. /\ a.uFrmSndAt \in Int /\ a.iFrmRcvAt \in Int /\ a.iFrmRcvAt >= -1
      /\ b.iFrmRcvAt \in Int /\ b.iFrmRcvAt >= -1 /\ Off = -1
      /\ \A j \in 1..Len(a.ackqueue) : a.ackqueue[j].age \in Nat
  BY TimerTypes
<1>2. /\ r \in LinkType /\ r.state = a.state /\ Len(r.ackqueue) = Len(a.ackqueue)
  BY DEF Tick
<1>3. Ages(r, b, d + 1)
  <2>1. SUFFICES ASSUME NEW j \in 1..Len(a.ackqueue)
                 PROVE  b.iFrmRcvAt # Off /\ r.ackqueue[j].age <= b.iFrmRcvAt + 1 + (d + 1)
    BY <1>2 DEF Ages
  <2>2. a.ackqueue # <<>>
    BY CountZero
  <2>3. b.iFrmRcvAt # Off
    BY <2>2 DEF AtRestWith
  <2>4. a.ackqueue[j].age = 0 \/ a.ackqueue[j].age <= b.iFrmRcvAt + 1 + d
    BY DEF AtRestWith
  <2>5. r.ackqueue[j].age <= a.ackqueue[j].age + 1 /\ r.ackqueue[j].age \in Nat
    BY <1>2, TimerTypes DEF Tick
  <2>6. PICK x, y \in Nat : x = a.ackqueue[j].age /\ y = r.ackqueue[j].age
    BY <1>1, <2>5
  <2>7. y <= x + 1 /\ (x = 0 \/ x <= b.iFrmRcvAt + 1 + d)
    BY <2>4, <2>5, <2>6
  <2>8. \A t \in Int : t >= 0 /\ (x = 0 \/ x <= t + 1 + d) /\ y <= x + 1 => y <= t + 1 + (d + 1)
    OBVIOUS
  <2>9. b.iFrmRcvAt >= 0
    BY <1>1, <2>3
  <2>10. y <= b.iFrmRcvAt + 1 + (d + 1)
    BY <1>1, <2>7, <2>8, <2>9
  <2>11. QED
    BY <2>3, <2>6, <2>10
<1>4. Awaits(r, <<>>, r.tx)
  <2>1. CASE a.uFrmSndAt = Off
    BY <2>1 DEF Tick, Awaits
  <2>2. CASE a.uFrmSndAt # Off
    BY <1>2, <2>2 DEF AtRestWith, Awaits, Pending
  <2>3. QED
    BY <2>1, <2>2
<1>5. Late(r, b)
  <2>1. SUFFICES ASSUME r.uFrmSndAt > 0
                 PROVE  /\ r.state = "PENDING_STOPPED" /\ b.state \in {"PENDING_UNCONFD", "STOPPED"}
                        /\ \/ r.iFrmRcvAt # Off /\ r.uFrmSndAt <= r.iFrmRcvAt
                           \/ Len(b.sent) <= Told(r)
    BY DEF Late
  <2>2. a.uFrmSndAt # Off /\ r.uFrmSndAt = a.uFrmSndAt + 1
    BY <1>1, <2>1 DEF Tick
  <2>3. /\ r.state = "PENDING_STOPPED" /\ b.state = "PENDING_UNCONFD"
        /\ a.iFrmRcvAt # Off /\ a.uFrmSndAt <= a.iFrmRcvAt
    BY <1>2, <2>2 DEF AtRestWith
  <2>4. CASE r.iFrmRcvAt = IF a.iFrmRcvAt = Off THEN Off ELSE a.iFrmRcvAt + 1
    <3>1. r.iFrmRcvAt = a.iFrmRcvAt + 1
      BY <2>3, <2>4
    <3>2. r.iFrmRcvAt # Off /\ r.uFrmSndAt <= r.iFrmRcvAt
      BY <1>1, <2>2, <2>3, <3>1
    <3>3. QED
      BY <2>3, <3>2
  <2>5. CASE Told(r) = Len(a.rcvd)
    <3>1. Told(r) = Len(b.sent) /\ Len(b.sent) \in Nat
      BY <2>5, Lengths DEF AtRestWith
    <3>2. QED
      BY <2>3, <3>1
  <2>6. QED
    BY <2>4, <2>5 DEF Tick
<1>6. QED
  BY <1>3, <1>4, <1>5 DEF Pair

\* The other end.
LEMMA TickStays ==
    ASSUME NEW a \in LinkType, NEW b \in LinkType, NEW r, NEW d \in {-1, 0},
           AtRestWith(a, b, d), AtRestWith(b, a, 0 - d), Tick(a, r)
    PROVE  Pair(b, r, r.tx, <<>>, 0 - d - 1)
<1>1. /\ a.iFrmRcvAt \in Int /\ b.iFrmRcvAt \in Int /\ Off = -1 /\ a.iFrmRcvAt >= -1
      /\ \A j \in 1..Len(b.ackqueue) : b.ackqueue[j].age \in Nat
  BY TimerTypes
<1>2. r.state = a.state
  BY DEF Tick
<1>3. Ages(b, r, 0 - d - 1)
  <2>1. SUFFICES ASSUME NEW j \in 1..Len(b.ackqueue)
                 PROVE  \/ b.ackqueue[j].age = 0
                        \/ Base(b) + j <= Told(r)
                        \/ r.iFrmRcvAt # Off /\ b.ackqueue[j].age <= r.iFrmRcvAt + 1 + (0 - d - 1)
    BY DEF Ages
  <2>2. CASE r.iFrmRcvAt = IF a.iFrmRcvAt = Off THEN Off ELSE a.iFrmRcvAt + 1
    <3>1. b.ackqueue # <<>>
      BY CountZero
    <3>2. a.iFrmRcvAt # Off
      BY <3>1 DEF AtRestWith
    <3>3. b.ackqueue[j].age = 0 \/ b.ackqueue[j].age <= a.iFrmRcvAt + 1 + (0 - d)
      BY DEF AtRestWith
    <3>4. r.iFrmRcvAt = a.iFrmRcvAt + 1
      BY <2>2, <3>2
    <3>5. r.iFrmRcvAt # Off
      BY <1>1, <3>4
    <3>6. PICK x \in Nat : x = b.ackqueue[j].age
      BY <1>1
    <3>7. x <= a.iFrmRcvAt + 1 + (0 - d) => x <= r.iFrmRcvAt + 1 + (0 - d - 1)
      BY <1>1, <3>4
    <3>8. QED
      BY <3>3, <3>5, <3>6, <3>7
  <2>3. CASE Told(r) = Len(a.rcvd)
    <3>1. Told(r) = Len(b.sent)
      BY <2>3 DEF AtRestWith
    <3>2. Base(b) = Len(b.sent) - Len(b.ackqueue) /\ Len(b.sent) \in Nat /\ Len(b.ackqueue) \in Nat
      BY Lengths DEF Base
    <3>3. \A s, q \in Nat : \A m \in 1..q : (s - q) + m <= s
      OBVIOUS
    <3>4. QED
      BY <3>1, <3>2, <3>3
  <2>4. QED
    BY <2>2, <2>3 DEF Tick
<1>4. Awaits(b, r.tx, <<>>)
  BY DEF AtRestWith, Awaits, Pending
<1>5. Late(b, r)
  <2>1. b.uFrmSndAt > 0 => b.uFrmSndAt # Off
    BY <1>1
  <2>2. QED
    BY <1>2, <2>1 DEF AtRestWith, Late
<1>6. QED
  BY <1>3, <1>4, <1>5 DEF Pair

LEMMA SecondInTime ==
    ASSUME LinksInv, WireInv, StartInv, TimeInv, NEW i \in Link, Second(i)
    PROVE  TimeInv' /\ KeepsJoined
<1>1. /\ Idle /\ lk[i].conn /\ i \notin ticked /\ up' = up /\ ConnInv
      /\ Commit(i, LapDoClockSc(i, lk[i], FALSE))
      /\ ticked' = IF Live \subseteq ticked \cup {i} THEN {} ELSE ticked \cup {i}
  BY DEF Second, Live, ClockSc, WireInv
<1>2. PICK c \in Conn, k \in Link :
              /\ c = cur /\ ((i = Cli /\ k = c) \/ (i = c /\ k = Cli))
              /\ k = Peer(i) /\ c = ConnOf(i) /\ PeerThere(i) /\ up[c] /\ Together(c)
              /\ Joined(c) /\ lk[i].fd /\ lk[k].conn /\ Live = {i, k}
  BY <1>1, BothThere
<1>3. Cli # c /\ i # k
  BY <1>2, ConnAssumption
<1>4. PICK a, b \in LinkType : a = lk[i] /\ b = lk[k] /\ LinkInv(a) /\ a.conn
  BY <1>1 DEF LinksInv, LinkInv
<1>5. PICK d \in Int : d = Lead(i, k)
  BY LeadType
<1>6. /\ d \in {-1, 0} /\ Lead(k, i) = 0 - d
      /\ Lead(i, k)' = d + 1 /\ Lead(k, i)' = 0 - d - 1 /\ ticked' \in {{}, {i}}
  <2>1. ticked = {} \/ ticked = {k}
    BY <1>1, <1>2 DEF TimeInv, InTurn, Joined
  <2>2. CASE ticked = {}
    <3>1. ticked' = {i}
      BY <1>1, <1>2, <1>3, <2>2
    <3>2. QED
      BY <1>3, <1>5, <2>2, <3>1 DEF Lead
  <2>3. CASE ticked = {k}
    <3>1. Live \subseteq ticked \cup {i}
      BY <1>2, <2>3
    <3>2. ticked' = {}
      BY <1>1, <3>1
    <3>3. Lead(i, k) = -1 /\ Lead(k, i) = 1
      BY <1>3, <2>3 DEF Lead
    <3>4. Lead(i, k)' = 0 /\ Lead(k, i)' = 0
      BY <3>2 DEF Lead
    <3>5. QED
      BY <1>5, <3>2, <3>3, <3>4
  <2>4. QED
    BY <2>1, <2>2, <2>3
<1>7. /\ net[i] = <<>> /\ net[k] = <<>> /\ AtRestWith(a, b, d) /\ AtRestWith(b, a, 0 - d)
  <2>1. lk[c].conn
    BY <1>1, <1>2
  <2>2. /\ net[i] = <<>> /\ net[k] = <<>> /\ AtRestWith(lk[i], lk[k], Lead(i, k))
    BY <1>1, <1>2, <2>1, IdleEnds
  <2>3. AtRestWith(lk[k], lk[i], Lead(k, i))
    BY <1>1, <1>2, <2>1, IdleEnds
  <2>4. QED
    BY <1>4, <1>5, <1>6, <2>2, <2>3
<1>8. a.iFrmRcvAt <= T2 /\ b.iFrmRcvAt <= T2
  BY <1>4 DEF TimeInv, OwnTime
<1>9. T1 \in Nat /\ T2 \in Nat /\ T1 > T2 + 2 /\ Off = -1
  BY TimerAssumption, TimeoutsFit DEF Off
<1>10. a.uFrmSndAt \in Int /\ a.iFrmRcvAt \in Int /\ b.iFrmRcvAt \in Int
       /\ \A j \in 1..Len(a.ackqueue) : a.ackqueue[j].age \in Nat
  BY TimerTypes
<1>11. a.uFrmSndAt < T1
  <2>1. CASE a.uFrmSndAt = Off
    BY <1>9, <2>1
  <2>2. CASE a.uFrmSndAt # Off
    <3>1. a.uFrmSndAt <= a.iFrmRcvAt
      BY <1>7, <2>2 DEF AtRestWith
    <3>2. QED
      BY <1>8, <1>9, <1>10, <3>1
  <2>3. QED
    BY <2>1, <2>2
<1>12. \A j \in 1..Len(a.ackqueue) : a.ackqueue[j].age + 1 < T1
  <2>1. SUFFICES ASSUME NEW j \in 1..Len(a.ackqueue)
                 PROVE  a.ackqueue[j].age + 1 < T1
    OBVIOUS
  <2>2. PICK x \in Nat : x = a.ackqueue[j].age
    BY <1>10
  <2>3. x = 0 \/ x <= b.iFrmRcvAt + 1 + d
    BY <1>7, <2>2 DEF AtRestWith
  <2>4. x + 1 < T1
    BY <1>6, <1>8, <1>9, <1>10, <2>3
  <2>5. QED
    BY <2>2, <2>4
<1>13. PICK r : r = LapDoClockSc(i, a, FALSE)
  OBVIOUS
<1>14. Tick(a, r)
  BY <1>4, <1>8, <1>11, <1>12, <1>13, ClockTime
<1>15. r \in LinkType /\ r.conn /\ r.fd /\ r.state = a.state /\ r.va = a.va /\ r.vs = a.vs
       /\ r.iFrmRcvAt <= T2 /\ r.tx \in Seq(Frame)
  BY <1>14 DEF Tick, LinkType
<1>16. PICK s : s = [r EXCEPT !.tx = <<>>]
  OBVIOUS
<1>17. SameClock(r, s) /\ s.conn /\ s.state = a.state
  BY <1>15, <1>16 DEF LinkType, SameClock
<1>18. /\ lk' = [lk EXCEPT ![i] = s] /\ cur' = cur /\ tcp' = tcp
       /\ net'[k] = net[k] \o r.tx /\ net'[i] = net[i]
  BY <1>1, <1>2, <1>3, <1>4, <1>13, <1>15, <1>16 DEF Commit
<1>19. net'[k] = r.tx /\ net'[i] = <<>>
  <2>1. <<>> \o r.tx = r.tx
    BY <1>15
  <2>2. QED
    BY <1>7, <1>18, <2>1
<1>20. lk'[i] = s /\ \A j \in Link \ {i} : lk'[j] = lk[j]
  BY <1>18 DEF LinksInv, TypeOK
<1>21. /\ Pair(s, b, <<>>, r.tx, d + 1)
       /\ Pair(b, s, r.tx, <<>>, 0 - d - 1)
  <2>1. Pair(r, b, <<>>, r.tx, d + 1) /\ Pair(b, r, r.tx, <<>>, 0 - d - 1)
    BY <1>6, <1>7, <1>14, TickMoves, TickStays
  <2>2. QED
    BY <1>17, <2>1, SamePair
<1>22. PairAt(i, k)' /\ PairAt(k, i)'
  <2>1. lk'[k] = b
    BY <1>3, <1>4, <1>20
  <2>2. /\ Pair(lk'[i], lk'[k], net'[i], net'[k], Lead(i, k)')
        /\ Pair(lk'[k], lk'[i], net'[k], net'[i], Lead(k, i)')
    BY <1>6, <1>19, <1>20, <1>21, <2>1
  <2>3. QED
    BY <2>2 DEF PairAt
<1>23. KeepsJoined
  <2>1. lk[Cli].conn => lk'[Cli].conn
    BY <1>2, <1>17, <1>20 DEF Link
  <2>2. QED
    BY <1>1, <1>18, <2>1 DEF KeepsJoined, Joined
<1>24. Alone'
  BY <1>1, <1>18 DEF TimeInv, Alone
<1>25. InTurn'
  <2>1. Joined(c)'
    BY <1>2, <1>23 DEF KeepsJoined
  <2>2. ticked' \in {{}, {Cli}, {c}}
    BY <1>2, <1>6
  <2>3. QED
    BY <2>1, <2>2 DEF InTurn
<1>26. ASSUME NEW j \in Link
       PROVE  OwnTime(lk'[j])
  <2>1. CASE j # i
    BY <1>20, <2>1 DEF TimeInv
  <2>2. CASE j = i
    <3>1. Owing(a)
      BY <1>4 DEF TimeInv, OwnTime
    <3>2. Owing(s)
      BY <1>15, <1>17, <3>1 DEF Owing, SameClock
    <3>3. QED
      BY <1>15, <1>17, <1>20, <2>2, <3>2 DEF OwnTime, SameClock
  <2>3. QED
    BY <2>1, <2>2
<1>27. ASSUME NEW e \in Conn
       PROVE  lk'[e].state \notin Pending
  BY <1>4, <1>17, <1>20 DEF TimeInv, Link
<1>28. \A e \in Conn : e = cur' => PairAt(Cli, e)' /\ PairAt(e, Cli)'
  BY <1>2, <1>18, <1>22
<1>29. QED
  BY <1>23, <1>24, <1>25, <1>26, <1>27, <1>28 DEF TimeInv

-----------------------------------------------------------------------------
(* Every behaviour *)

LEMMA InitTime ==
    ASSUME Init, ticked = {}
    PROVE  TimeInv
<1>1. /\ lk = [i \in Link |-> NewLink] /\ tcp = [c \in Conn |-> "free"] /\ cur = NoConn
      /\ NoConn \notin Conn /\ Conn \subseteq Link
  BY ConnAssumption DEF Init, Link
<1>2. Alone /\ InTurn
  BY <1>1 DEF Alone, InTurn
<1>3. OwnTime(NewLink) /\ NewLink.state \notin Pending
  BY TimerAssumption DEF OwnTime, Owing, NewLink, Off, Pending
<1>4. QED
  BY <1>1, <1>2, <1>3 DEF TimeInv

LEMMA NextTime ==
    ASSUME LinksInv, WireInv, StartInv, TimeInv, [PromptNext]_pvars
    PROVE  TimeInv' /\ [KeepsJoined]_pvars
<1>1. CASE PromptNext
  BY <1>1, PromptInTime, SecondInTime DEF PromptNext
<1>2. CASE pvars' = pvars
  <2>1. UNCHANGED <<lk, net, tcp, cur, up, ticked>>
    BY <1>2 DEF pvars, vars
  <2>2. Alone' /\ InTurn'
    BY <2>1 DEF TimeInv, Alone, InTurn, Joined
  <2>3. \A i, k : PairAt(i, k)' <=> PairAt(i, k)
    BY <2>1 DEF PairAt, Lead
  <2>4. QED
    BY <1>2, <2>1, <2>2, <2>3 DEF TimeInv
<1>3. QED
  BY <1>1, <1>2

\* Ends that are served in time do nothing that links may not do.
LEMMA PromptIsSpec == PromptSpec => Spec
<1>1. [PromptNext]_pvars => [Next]_vars
  <2>1. CASE PromptNext
    <3>1. \A i \in Link : Second(i) => ClockSc(i, FALSE)
      BY DEF Second
    <3>2. \A i \in Link : ClockSc(i, FALSE) => Next
      BY DEF Next, LinkStep
    <3>3. Prompt => Next
      BY DEF Prompt, Next, LinkStep, ConnStep, Link
    <3>4. QED
      BY <2>1, <3>1, <3>2, <3>3 DEF PromptNext
  <2>2. CASE pvars' = pvars
    BY <2>2 DEF pvars
  <2>3. QED
    BY <2>1, <2>2
<1>2. QED
  BY <1>1, PTL DEF PromptSpec, Spec

\* While both ends are served in time the timers of both are young: what
\* waits for an acknowledgement is no older than T2 of the other end and the
\* skew of the clocks allow, and T1 of a U frame runs past a second only for
\* a stop whose confirmation waits for acknowledgements (TimeInv).
THEOREM TimeInvariance == PromptSpec => [](LinksInv /\ WireInv /\ StartInv /\ TimeInv)
<1>1. PromptSpec => [](LinksInv /\ WireInv /\ StartInv)
  BY PromptIsSpec, StartInvariance, PTL
<1>2. Init /\ ticked = {} => TimeInv
  BY InitTime
<1>3. LinksInv /\ WireInv /\ StartInv /\ TimeInv /\ [PromptNext]_pvars => TimeInv'
  BY NextTime
<1>4. QED
  BY <1>1, <1>2, <1>3, PTL DEF PromptSpec

\* LapTimerT1T2T3 and LapTimerAckQueue never cut a connection whose two ends
\* are served in time (HealthyLink).
THEOREM HealthyCorrect == PromptSpec => HealthyLink
<1>1. LinksInv /\ WireInv /\ StartInv /\ TimeInv /\ [PromptNext]_pvars
      => [\A c \in Conn : Joined(c) => Joined(c)']_pvars
  BY NextTime DEF KeepsJoined
<1>2. QED
  BY <1>1, TimeInvariance, PTL DEF PromptSpec, HealthyLink
=============================================================================
