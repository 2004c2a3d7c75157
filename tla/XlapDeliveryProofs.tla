------------------------- MODULE XlapDeliveryProofs -------------------------
(***************************************************************************)
(* What becomes of the messages: proofs that every message a link took is  *)
(* in exactly one place, and that the links keep what Delivery promises    *)
(* their users over the loss of any number of connections.                 *)
(*                                                                         *)
(* Messages are numbered in the order they are put, so the order in which  *)
(* they are queued, sent and given is an order of numbers.  The invariant  *)
(* keeps the books of each link by itself, and says of the wires that what *)
(* is on the way to a link is new there and was sent by another one.       *)
(*                                                                         *)
(* The second part is about the start/stop procedure at both ends.         *)
(***************************************************************************)
EXTENDS XlapDelivery, XlapLinkProofs, FunctionTheorems

(* The books of a link *)

Rising(q) == \A a, b \in 1..Len(q) : a < b => q[a] < q[b]
Below(S, T) == \A s \in S, t \in T : s < t

\* The messages of the I frames of w, and that they are in order.
Carried(w) == {m \in Msg : \E j \in 1..Len(w) : w[j].type = "I" /\ w[j].msg = m}
Ascending(w) ==
    \A a, b \in 1..Len(w) :
        (a < b /\ w[a].type = "I" /\ w[b].type = "I") => w[a].msg < w[b].msg
NoMsgs(w) == \A j \in 1..Len(w) : w[j].type # "I"

\* What link l has not sent, what it sent and has not settled, all it sent,
\* and all it ever took.
Out(l)   == Elems(l.outqueue)
Wait(l)  == Elems(Names(l.ackqueue))
Went(l)  == Wait(l) \cup l.acked \cup l.acklost
Known(l) == Out(l) \cup Went(l) \cup l.purged

\* A message of l is in one place, the queues are in the order of the puts,
\* and a link that is not connected has not started.
BookOf(l) ==
    /\ Out(l) \cap Went(l) = {} /\ Out(l) \cap l.purged = {} /\ Went(l) \cap l.purged = {}
    /\ Wait(l) \cap l.acked = {} /\ Wait(l) \cap l.acklost = {} /\ l.acked \cap l.acklost = {}
    /\ Rising(Names(l.ackqueue)) /\ Rising(l.outqueue) /\ Below(Wait(l), Out(l))
    /\ ~l.conn => l.state = "INIT"

-----------------------------------------------------------------------------
(* Sequences of messages *)

LEMMA NamesType ==
    ASSUME NEW q \in Seq(Unacked)
    PROVE  /\ Names(q) \in Seq(Msg) /\ Len(Names(q)) = Len(q)
           /\ \A j \in 1..Len(q) : Names(q)[j] = q[j].msg
           /\ Elems(Names(q)) = AckMsgs(q)
<1>1. Len(q) \in Nat /\ \A j \in 1..Len(q) : q[j] \in Unacked
  BY LenProperties, ElementOfSeq
<1>2. \A j \in 1..Len(q) : q[j].msg \in Msg
  BY <1>1 DEF Unacked
<1>3. Names(q) \in [1..Len(q) -> Msg]
  BY <1>2 DEF Names
<1>4. Names(q) \in Seq(Msg) /\ Len(Names(q)) = Len(q)
  BY <1>1, <1>3
<1>5. \A j \in 1..Len(q) : Names(q)[j] = q[j].msg
  BY DEF Names
<1>6. Elems(Names(q)) = AckMsgs(q)
  BY <1>4, <1>5 DEF Elems, AckMsgs
<1> QED
  BY <1>4, <1>5, <1>6

\* The same messages in another ack queue.
LEMMA SameNames ==
    ASSUME NEW q, NEW t, Len(t) = Len(q), \A j \in 1..Len(q) : t[j].msg = q[j].msg
    PROVE  Names(t) = Names(q)
BY DEF Names

LEMMA EmptyNames == Names(<<>>) = <<>> /\ Elems(<<>>) = {} /\ Rising(<<>>) /\ <<>> \in Seq(Msg)
<1>1. Len(<<>>) = 0 /\ <<>> \in Seq(Msg)
  OBVIOUS
<1> QED
  BY <1>1 DEF Names, Elems, Rising

\* A queue of messages cut after the first n.
LEMMA CutMsgs ==
    ASSUME NEW q \in Seq(Msg), NEW n \in 0..Len(q)
    PROVE  LET x == SubSeq(q, 1, n)
               y == SubSeq(q, n+1, Len(q))
           IN  /\ x \in Seq(Msg) /\ Len(x) = n /\ \A j \in 1..n : x[j] = q[j]
               /\ y \in Seq(Msg) /\ Len(y) = Len(q) - n
               /\ \A j \in 1..(Len(q) - n) : y[j] = q[n + j]
               /\ Elems(q) = Elems(x) \cup Elems(y)
               /\ Rising(q) => /\ Rising(x) /\ Rising(y)
                               /\ Below(Elems(x), Elems(y))
<1> DEFINE x == SubSeq(q, 1, n)
           y == SubSeq(q, n+1, Len(q))
<1>1. PICK k \in Nat : k = Len(q)
  BY LenProperties
<1>2. x \in Seq(Msg) /\ Len(x) = n /\ \A j \in 1..n : x[j] = q[j]
  BY <1>1
<1>3. y \in Seq(Msg) /\ Len(y) = k - n /\ \A j \in 1..(k - n) : y[j] = q[n + j]
  BY <1>1
<1> HIDE DEF x, y
<1>4. Elems(q) = Elems(x) \cup Elems(y)
  <2>1. ASSUME NEW m \in Elems(q)
        PROVE  m \in Elems(x) \cup Elems(y)
    <3>1. PICK j \in 1..k : m = q[j]
      BY <1>1 DEF Elems
    <3>2. CASE j <= n
      BY <3>1, <3>2, <1>2 DEF Elems
    <3>3. CASE ~(j <= n)
      <4>1. j - n \in 1..(k - n) /\ n + (j - n) = j
        BY <3>3
      <4>2. m = y[j - n]
        BY <3>1, <4>1, <1>3
      <4> QED
        BY <4>1, <4>2, <1>3 DEF Elems
    <3> QED
      BY <3>2, <3>3
  <2>2. ASSUME NEW m \in Elems(x)
        PROVE  m \in Elems(q)
    <3>1. PICK j \in 1..n : m = q[j]
      BY <1>2 DEF Elems
    <3>2. j \in 1..k
      BY <1>1
    <3> QED
      BY <1>1, <3>1, <3>2 DEF Elems
  <2>3. ASSUME NEW m \in Elems(y)
        PROVE  m \in Elems(q)
    <3>1. PICK j \in 1..(k - n) : m = q[n + j]
      BY <1>3 DEF Elems
    <3>2. n + j \in 1..k
      BY <1>1
    <3> QED
      BY <1>1, <3>1, <3>2 DEF Elems
  <2> QED
    BY <2>1, <2>2, <2>3
<1>5. ASSUME Rising(q)
      PROVE  Rising(x) /\ Rising(y) /\ Below(Elems(x), Elems(y))
  <2>1. \A a, b \in 1..k : a < b => q[a] < q[b]
    BY <1>1, <1>5 DEF Rising
  <2>2. \A j \in 1..n : j \in 1..k
    BY <1>1
  <2>3. \A j \in 1..(k - n) : n + j \in 1..k
    BY <1>1
  <2>4. Rising(x)
    BY <2>1, <2>2, <1>2 DEF Rising
  <2>5. Rising(y)
    <3> SUFFICES ASSUME NEW a \in 1..(k - n), NEW b \in 1..(k - n), a < b
                 PROVE  y[a] < y[b]
      BY <1>3 DEF Rising
    <3>1. n + a < n + b
      OBVIOUS
    <3> QED
      BY <3>1, <2>1, <2>3, <1>3
  <2>6. Below(Elems(x), Elems(y))
    <3> SUFFICES ASSUME NEW a \in 1..n, NEW b \in 1..(k - n)
                 PROVE  q[a] < q[n + b]
      BY <1>2, <1>3 DEF Below, Elems
    <3>1. a < n + b
      OBVIOUS
    <3> QED
      BY <3>1, <2>1, <2>2, <2>3
  <2> QED
    BY <2>4, <2>5, <2>6
<1> QED
  BY <1>1, <1>2, <1>3, <1>4, <1>5 DEF x, y

\* Two queues of messages, one after the other.
LEMMA JoinRising ==
    ASSUME NEW q \in Seq(Msg), NEW t \in Seq(Msg)
    PROVE  /\ q \o t \in Seq(Msg) /\ Elems(q \o t) = Elems(q) \cup Elems(t)
           /\ Rising(q) /\ Rising(t) /\ Below(Elems(q), Elems(t)) => Rising(q \o t)
<1>1. PICK k \in Nat : k = Len(q)
  BY LenProperties
<1>2. PICK n \in Nat : n = Len(t)
  BY LenProperties
<1>3. PICK r \in Seq(Msg) : r = q \o t
  BY JoinedMsgs
<1>4. /\ Len(r) = k + n
      /\ \A j \in 1..(k + n) : r[j] = IF j <= k THEN q[j] ELSE t[j - k]
  BY <1>1, <1>2, <1>3, JoinedMsgs
<1>5. \A j \in 1..(k + n) : j <= k => j \in 1..k
  OBVIOUS
<1>6. \A j \in 1..(k + n) : ~(j <= k) => j - k \in 1..n
  OBVIOUS
<1>7. ASSUME NEW m \in Elems(r)
      PROVE  m \in Elems(q) \cup Elems(t)
  <2>1. PICK j \in 1..(k + n) : m = r[j]
    BY <1>4 DEF Elems
  <2> QED
    BY <2>1, <1>1, <1>2, <1>4, <1>5, <1>6 DEF Elems
<1>8. ASSUME NEW m \in Elems(q)
      PROVE  m \in Elems(r)
  <2>1. PICK j \in 1..k : m = q[j]
    BY <1>1 DEF Elems
  <2>2. j \in 1..(k + n) /\ j <= k
    OBVIOUS
  <2> QED
    BY <2>1, <2>2, <1>4 DEF Elems
<1>9. ASSUME NEW m \in Elems(t)
      PROVE  m \in Elems(r)
  <2>1. PICK j \in 1..n : m = t[j]
    BY <1>2 DEF Elems
  <2>2. j + k \in 1..(k + n) /\ ~(j + k <= k) /\ (j + k) - k = j
    OBVIOUS
  <2>3. r[j + k] = t[j]
    BY <2>2, <1>4
  <2> QED
    BY <2>1, <2>2, <2>3, <1>4 DEF Elems
<1>10. ASSUME Rising(q), Rising(t), Below(Elems(q), Elems(t))
       PROVE  Rising(r)
  <2> SUFFICES ASSUME NEW a \in 1..(k + n), NEW b \in 1..(k + n), a < b
               PROVE  r[a] < r[b]
    BY <1>4 DEF Rising
  <2>1. CASE b <= k
    <3>1. a <= k
      BY <2>1
    <3> QED
      BY <2>1, <3>1, <1>1, <1>4, <1>5, <1>10 DEF Rising
  <2>2. CASE ~(a <= k)
    <3>1. ~(b <= k) /\ a - k < b - k
      BY <2>2
    <3> QED
      BY <2>2, <3>1, <1>2, <1>4, <1>6, <1>10 DEF Rising
  <2>3. CASE a <= k /\ ~(b <= k)
    <3>1. q[a] \in Elems(q) /\ t[b - k] \in Elems(t)
      BY <2>3, <1>1, <1>2, <1>5, <1>6 DEF Elems
    <3> QED
      BY <2>3, <3>1, <1>4, <1>10 DEF Below
  <2> QED
    BY <2>1, <2>2, <2>3
<1> QED
  BY <1>3, <1>7, <1>8, <1>9, <1>10

-----------------------------------------------------------------------------
(* What a step does to the books *)

\* Nothing is put, sent, acknowledged, lost or given.
Quiet(l, r) ==
    /\ r.outqueue = l.outqueue /\ Names(r.ackqueue) = Names(l.ackqueue)
    /\ r.acked = l.acked /\ r.acklost = l.acklost /\ r.purged = l.purged
    /\ r.seen = l.seen
    /\ NoMsgs(l.tx) => NoMsgs(r.tx)

\* The first n messages that wait are acknowledged, and ms given to the user.
Hears(l, r, n, ms) ==
    /\ n \in 0..Len(l.ackqueue)
    /\ Names(r.ackqueue) = SubSeq(Names(l.ackqueue), n+1, Len(l.ackqueue))
    /\ r.acked = l.acked \cup Elems(SubSeq(Names(l.ackqueue), 1, n))
    /\ r.seen = l.seen \cup ms
    /\ r.outqueue = l.outqueue /\ r.acklost = l.acklost /\ r.purged = l.purged
    /\ NoMsgs(l.tx) => NoMsgs(r.tx)

\* The first n messages of the out queue are sent.
Emits(l, r, n) ==
    /\ n \in 0..Len(l.outqueue)
    /\ r.outqueue = SubSeq(l.outqueue, n+1, Len(l.outqueue))
    /\ Names(r.ackqueue) = Names(l.ackqueue) \o SubSeq(l.outqueue, 1, n)
    /\ r.acked = l.acked /\ r.acklost = l.acklost /\ r.purged = l.purged
    /\ r.seen = l.seen
    /\ Len(r.tx) = n
    /\ \A j \in 1..n : r.tx[j].type = "I" /\ r.tx[j].msg = l.outqueue[j]

\* The connection is given up; a client may keep its out queue.
Closes(i, l, r) ==
    /\ Names(r.ackqueue) = <<>>
    /\ r.acklost = l.acklost \cup Wait(l)
    /\ r.acked = l.acked /\ r.seen = l.seen
    /\ IF i = Cli /\ KeepOutq
       THEN r.outqueue = l.outqueue /\ r.purged = l.purged
       ELSE r.outqueue = <<>> /\ r.purged = l.purged \cup Out(l)
    /\ NoMsgs(l.tx) => NoMsgs(r.tx)

LEMMA QuietSelf == \A l : Quiet(l, l)
BY DEF Quiet

LEMMA QuietTwice ==
    ASSUME NEW l, NEW r, NEW s, Quiet(l, r)
    PROVE  /\ Quiet(r, s) => Quiet(l, s)
           /\ \A i : Closes(i, r, s) => Closes(i, l, s)
BY DEF Quiet, Closes, Wait, Out

\* One more frame that is not an I frame.
LEMMA NoMsgsAppend ==
    ASSUME NEW w \in Seq(Frame), NEW f \in Frame, f.type # "I", NoMsgs(w)
    PROVE  NoMsgs(Append(w, f))
<1>1. PICK k \in Nat : k = Len(w)
  BY LenProperties
<1>2. PICK u \in Seq(Frame) : u = Append(w, f)
  BY AppendProperties
<1>3. /\ Len(u) = k + 1 /\ u[k + 1] = f
      /\ \A j \in 1..k : u[j] = w[j]
  BY <1>1, <1>2, AppendProperties
<1>4. \A j \in 1..(k + 1) : j = k + 1 \/ j \in 1..k
  OBVIOUS
<1> QED
  BY <1>1, <1>2, <1>3, <1>4 DEF NoMsgs

\* A mute step is quiet.
LEMMA MuteQuiet ==
    ASSUME NEW l \in LinkType, NEW r, Mute(l, r)
    PROVE  Quiet(l, r)
<1>1. l.tx \in Seq(Frame)
  BY DEF LinkType
<1>2. \A f \in Frame : f.type \in UType /\ NoMsgs(l.tx) => NoMsgs(Append(l.tx, f))
  BY <1>1, NoMsgsAppend DEF UType
<1> QED
  BY <1>2 DEF Mute, Calm, Quiet

\* An S frame is sent.
LEMMA SendSQuiet ==
    ASSUME NEW l \in LinkType
    PROVE  Quiet(l, LapSendFrameS(l))
<1>1. CASE ~l.fd \/ ~l.conn
  BY <1>1, QuietSelf DEF LapSendFrameS
<1>2. CASE l.fd /\ l.conn
  <2>1. l.tx \in Seq(Frame) /\ l.vr \in SeqNo
    BY DEF LinkType
  <2>2. PICK f \in Frame : f = SFrame(l.vr) /\ f.type = "S"
    BY <2>1, SFrameType DEF SFrame
  <2>3. NoMsgs(l.tx) => NoMsgs(Append(l.tx, f))
    BY <2>1, <2>2, NoMsgsAppend
  <2>4. LapSendFrameS(l) = [l EXCEPT !.vapeer = l.vr, !.tx = Append(l.tx, f)]
    BY <1>2, <2>2 DEF LapSendFrameS, Write, LinkType
  <2> QED
    BY <2>3, <2>4 DEF Quiet, LinkType
<1> QED
  BY <1>1, <1>2

\* A frame is refused.
LEMMA SeqErrorQuiet ==
    ASSUME NEW l \in LinkType
    PROVE  Quiet(l, SeqError(l))
<1> DEFINE r == [l EXCEPT !.nberr = TRUE]
<1>1. r \in LinkType /\ Quiet(l, r)
  BY DEF LinkType, Quiet
<1> HIDE DEF r
<1>2. Quiet(r, LapSendFrameS(r))
  BY <1>1, SendSQuiet
<1> QED
  BY <1>1, <1>2, QuietTwice DEF SeqError, r

\* A quiet step acknowledges nothing and gives nothing.
LEMMA QuietHears ==
    ASSUME NEW l \in LinkType, NEW r, Quiet(l, r)
    PROVE  Hears(l, r, 0, {})
<1>1. l.ackqueue \in Seq(Unacked)
  BY DEF LinkType
<1>2. PICK q \in Seq(Msg) : q = Names(l.ackqueue) /\ Len(q) = Len(l.ackqueue)
  BY <1>1, NamesType
<1>3. SubSeq(q, 0 + 1, Len(q)) = q /\ SubSeq(q, 1, 0) = <<>> /\ 0 \in 0..Len(q)
  OBVIOUS
<1> QED
  BY <1>2, <1>3, EmptyNames DEF Quiet, Hears

\* A quiet step before or after one that hears.
LEMMA HearsQuiet ==
    ASSUME NEW l, NEW r \in LinkType, NEW s, NEW n, NEW ms
    PROVE  /\ Quiet(l, r) /\ Len(l.ackqueue) = Len(r.ackqueue) /\ Hears(r, s, n, ms)
              => Hears(l, s, n, ms)
           /\ Hears(l, r, n, ms) /\ Quiet(r, s) => Hears(l, s, n, ms)
BY DEF Quiet, Hears

\* A second goes by.
LEMMA AgedQuiet ==
    ASSUME NEW l, LinkInv(l)
    PROVE  Quiet(l, Aged(l)) /\ Aged(l).state = l.state /\ Aged(l).conn = l.conn
<1> DEFINE p == Older(l.progAt, CnxDelay)
           u == Older(l.uFrmSndAt, T1)
           t == Older(l.iFrmRcvAt, T2)
           x == Older(l.xFrmRcvAt, T3)
           q == [j \in 1..Len(l.ackqueue) |-> OlderMsg(l.ackqueue[j])]
           r == [l EXCEPT !.progAt = p, !.uFrmSndAt = u, !.iFrmRcvAt = t,
                          !.xFrmRcvAt = x, !.ackqueue = q]
<1>1. Aged(l) = r
  BY DEF Aged
<1>2. l \in LinkType
  BY DEF LinkInv
<1>3. PICK y \in Seq(Unacked) : y = l.ackqueue
  BY <1>2 DEF LinkType
<1>4. PICK k \in Nat : k = Len(y)
  BY <1>3, LenProperties
<1>5. \A j \in 1..k : OlderMsg(y[j]).msg = y[j].msg
  <2>1. \A j \in 1..k : y[j] \in Unacked
    BY <1>3, <1>4
  <2> QED
    BY <2>1 DEF OlderMsg, Unacked
<1>6. q = [j \in 1..k |-> OlderMsg(y[j])]
  BY <1>3, <1>4
<1>7. Len(q) = Len(y) /\ \A j \in 1..Len(y) : q[j].msg = y[j].msg
  BY <1>4, <1>5, <1>6
<1> HIDE DEF q
<1>8. Names(q) = Names(l.ackqueue)
  BY <1>3, <1>7, SameNames
<1> HIDE DEF p, u, t, x
<1>9. /\ r.ackqueue = q /\ r.outqueue = l.outqueue
      /\ r.acked = l.acked /\ r.acklost = l.acklost /\ r.purged = l.purged
      /\ r.seen = l.seen /\ r.tx = l.tx /\ r.state = l.state /\ r.conn = l.conn
  BY <1>2 DEF LinkType
<1> QED
  BY <1>1, <1>8, <1>9 DEF Quiet

\* The connection is given up.
LEMMA DisconnectedCloses ==
    ASSUME NEW i, NEW l \in LinkType
    PROVE  Closes(i, l, LapDisconnected(i, l)) /\ LapDisconnected(i, l).state = "INIT"
<1> DEFINE full == ~(i = Cli /\ KeepOutq)
           lost == l.acklost \cup AckMsgs(l.ackqueue)
           o    == IF full THEN <<>> ELSE l.outqueue
           p    == IF full THEN l.purged \cup Elems(l.outqueue) ELSE l.purged
           m    == [l EXCEPT !.acklost = lost]
           r    == [NewLink EXCEPT !.outqueue = o, !.tx = l.tx, !.acked = l.acked,
                                   !.acklost = lost, !.purged = p, !.seen = l.seen]
<1>1. /\ m.outqueue = l.outqueue /\ m.tx = l.tx /\ m.acked = l.acked /\ m.acklost = lost
      /\ m.purged = l.purged /\ m.seen = l.seen
  BY DEF LinkType
<1>2. LapDisconnected(i, l) = LapReset(m, full)
  BY DEF LapDisconnected
<1> HIDE DEF m, full
<1>3. LapReset(m, full) = r
  BY <1>1 DEF LapReset
<1>4. l.ackqueue \in Seq(Unacked)
  BY DEF LinkType
<1>5. lost = l.acklost \cup Wait(l)
  BY <1>4, NamesType DEF Wait
<1> HIDE DEF lost, o, p
<1>6. /\ r.ackqueue = <<>> /\ r.outqueue = o /\ r.acked = l.acked /\ r.acklost = lost
      /\ r.purged = p /\ r.seen = l.seen /\ r.tx = l.tx /\ r.state = "INIT"
  BY DEF NewLink
<1>7. Names(r.ackqueue) = <<>>
  BY <1>6, EmptyNames
<1> HIDE DEF r
<1> QED
  BY <1>2, <1>3, <1>5, <1>6, <1>7 DEF Closes, Out, o, p, full

\* T1 of U frames, T2 and T3.
LEMMA TimerBooks ==
    ASSUME NEW i, NEW l, LinkInv(l)
    PROVE  LET r == LapTimerT1T2T3(i, l)
           IN  \/ Quiet(l, r) /\ r.conn = l.conn /\ (~l.conn => r = l)
               \/ Closes(i, l, r) /\ r.state = "INIT" /\ ~r.conn /\ r.ackqueue = <<>>
<1>1. l \in LinkType
  BY DEF LinkInv
<1> DEFINE o == [l EXCEPT !.iFrmRcvAt = Off]
<1>2. o \in LinkType /\ Quiet(l, o) /\ o.conn = l.conn
  <2>1. Off \in Timer(T2)
    BY TimerAssumption DEF Timer, Off
  <2>2. o \in LinkType
    BY <1>1, <2>1 DEF LinkType
  <2>3. Quiet(l, o) /\ o.conn = l.conn
    BY <1>1 DEF LinkType, Quiet
  <2> QED
    BY <2>2, <2>3
<1>3. LapSendFrameS(o).conn = o.conn /\ Quiet(l, LapSendFrameS(o))
  <2> HIDE DEF o
  <2>1. LapSendFrameS(o).conn = o.conn
    BY <1>2 DEF LapSendFrameS, Write, LinkType
  <2> QED
    BY <1>2, <2>1, SendSQuiet, QuietTwice
<1>4. Quiet(l, LapSendFrameU(l, "TESTFRact")) /\ LapSendFrameU(l, "TESTFRact").conn = l.conn
  <2>1. Mute(l, LapSendFrameU(l, "TESTFRact"))
    BY <1>1, SendUMute DEF UType
  <2> QED
    BY <1>1, <2>1, MuteQuiet DEF Mute, Calm
<1>5. /\ Closes(i, l, LapDisconnected(i, l)) /\ LapDisconnected(i, l).state = "INIT"
      /\ ~LapDisconnected(i, l).conn /\ LapDisconnected(i, l).ackqueue = <<>>
  BY <1>1, DisconnectedCloses, DisconnectedWire
<1> QED
  BY <1>3, <1>4, <1>5, QuietSelf DEF LapTimerT1T2T3

\* rtl_LapDoClockScPeriod for one link.
LEMMA ClockBooks ==
    ASSUME NEW i, NEW l, LinkInv(l), CountInv(l), NEW re \in BOOLEAN
    PROVE  LET r == LapDoClockSc(i, l, re)
           IN  \/ Quiet(l, r) /\ r.conn = l.conn /\ (~l.conn => r.state = l.state)
               \/ Closes(i, l, r) /\ r.state = "INIT"
<1> DEFINE a == Aged(l)
           r == IF re THEN LapReConnect(i, a) ELSE a
           s == LapTimerT1T2T3(i, r)
           e == LapTimerAckQueue(i, s)
<1>1. LinkInv(a) /\ a \in LinkType /\ Quiet(l, a) /\ a.state = l.state /\ a.conn = l.conn
  BY AgedInv, AgedQuiet DEF LinkInv
<1> HIDE DEF a
<1>2. \A x \in LinkType : /\ Closes(i, x, LapDisconnected(i, x))
                          /\ LapDisconnected(i, x).state = "INIT"
                          /\ ~LapDisconnected(i, x).conn
                          /\ LapDisconnected(i, x).ackqueue = <<>>
  BY DisconnectedCloses, DisconnectedWire
<1>3. /\ LinkInv(r)
      /\ \/ r = a
         \/ Closes(i, l, r) /\ r.state = "INIT" /\ ~r.conn /\ r.ackqueue = <<>>
  <2>1. LinkInv(LapDisconnected(i, a))
    BY <1>1, DisconnectedKeeps
  <2>2. Closes(i, l, LapDisconnected(i, a))
    BY <1>1, <1>2, QuietTwice
  <2>3. LapDisconnected(i, a).state = "INIT" /\ ~LapDisconnected(i, a).conn
        /\ LapDisconnected(i, a).ackqueue = <<>>
    BY <1>1, <1>2
  <2>4. r = a \/ r = LapDisconnected(i, a)
    BY DEF LapReConnect
  <2> HIDE DEF r
  <2>5. CASE r = a
    BY <1>1, <2>5
  <2>6. CASE r = LapDisconnected(i, a)
    BY <2>1, <2>2, <2>3, <2>6
  <2> QED
    BY <2>4, <2>5, <2>6
<1> HIDE DEF r
<1>4. LinkInv(s) /\ s \in LinkType
  BY <1>3, TimerT1T2T3Inv DEF LinkInv
<1>5. \/ Quiet(l, s) /\ s.conn = l.conn /\ (~l.conn => s.state = l.state)
      \/ Closes(i, l, s) /\ s.state = "INIT" /\ s.ackqueue = <<>>
  <2>1. CASE r = a
    <3>1. \/ Quiet(r, s) /\ s.conn = r.conn /\ (~r.conn => s = r)
          \/ Closes(i, r, s) /\ s.state = "INIT" /\ ~s.conn /\ s.ackqueue = <<>>
      BY <1>3, TimerBooks
    <3> HIDE DEF s
    <3> QED
      BY <2>1, <3>1, <1>1, QuietTwice
  <2>2. CASE Closes(i, l, r) /\ r.state = "INIT" /\ ~r.conn /\ r.ackqueue = <<>>
    BY <2>2 DEF LapTimerT1T2T3
  <2> QED
    BY <1>3, <2>1, <2>2
<1> HIDE DEF s
<1>6. \/ e = s
      \/ e = LapDisconnected(i, s) /\ s.ackqueue # <<>>
  <2>1. Len(<<>>) = 0 /\ 1..0 = {}
    OBVIOUS
  <2> QED
    BY <2>1 DEF LapTimerAckQueue
<1>7. LapDoClockSc(i, l, re) = e
  BY DEF LapDoClockSc, e, s, r, a
<1> HIDE DEF e
<1>8. ASSUME e = LapDisconnected(i, s), s.ackqueue # <<>>
      PROVE  Closes(i, l, e) /\ e.state = "INIT"
  <2>1. Closes(i, s, e) /\ e.state = "INIT"
    BY <1>2, <1>4, <1>8
  <2>2. Quiet(l, s)
    BY <1>5, <1>8
  <2> QED
    BY <2>1, <2>2, QuietTwice
<1> QED
  BY <1>5, <1>6, <1>7, <1>8

\* What a received frame does.
HearsFrame(l, r, f) ==
    \E n \in 0..Len(l.ackqueue), ms \in SUBSET {f.msg} :
        /\ Hears(l, r, n, ms)
        /\ ms # {} => f.type = "I"

\* nr acknowledges the messages before it.
LEMMA AcknowledgeHears ==
    ASSUME NEW l, LinkInv(l), NEW nr \in SeqNo, OKNR(l.va, l.vs, nr)
    PROVE  \E n \in 0..Len(l.ackqueue) : Hears(l, Acknowledge(l, nr), n, {})
<1>1. PICK d \in 0..Len(l.ackqueue) :
        LapRunAckQueue(l, nr) =
           [l EXCEPT !.ackqueue = SubSeq(@, d+1, Len(@)),
                     !.acked    = @ \cup AckMsgs(SubSeq(l.ackqueue, 1, d))]
  BY AckQueueCut
<1>2. PICK q \in Seq(Unacked) : q = l.ackqueue
  BY DEF LinkInv, LinkType
<1>3. PICK k \in Nat : k = Len(q)
  BY <1>2, LenProperties
<1>4. PICK x : x = SubSeq(q, 1, d)
  OBVIOUS
<1>5. PICK y : y = SubSeq(q, d+1, Len(q))
  OBVIOUS
<1>6. x \in Seq(Unacked) /\ Len(x) = d /\ \A j \in 1..d : x[j] = q[j]
  BY <1>1, <1>2, <1>3, <1>4
<1>7. y \in Seq(Unacked) /\ Len(y) = k - d /\ \A j \in 1..(k - d) : y[j] = q[d + j]
  BY <1>1, <1>2, <1>3, <1>5
<1>8. PICK m \in Seq(Msg) : m = Names(q) /\ Len(m) = k /\ \A j \in 1..k : m[j] = q[j].msg
  BY <1>2, <1>3, NamesType
<1>9. d \in 0..k
  BY <1>1, <1>2, <1>3
<1>10. Names(x) = SubSeq(m, 1, d)
  <2>1. PICK u \in Seq(Msg) : u = Names(x) /\ Len(u) = d /\ \A j \in 1..d : u[j] = x[j].msg
    BY <1>6, NamesType
  <2>2. PICK v \in Seq(Msg) : v = SubSeq(m, 1, d) /\ Len(v) = d /\ \A j \in 1..d : v[j] = m[j]
    BY <1>8, <1>9, CutMsgs
  <2>3. \A j \in 1..d : u[j] = v[j]
    BY <2>1, <2>2, <1>6, <1>8, <1>9
  <2> QED
    BY <2>1, <2>2, <2>3, SameMsgs
<1>11. Names(y) = SubSeq(m, d+1, k)
  <2>1. PICK u \in Seq(Msg) : u = Names(y) /\ Len(u) = k - d /\ \A j \in 1..(k - d) : u[j] = y[j].msg
    BY <1>7, NamesType
  <2>2. PICK v \in Seq(Msg) : /\ v = SubSeq(m, d+1, k) /\ Len(v) = k - d
                              /\ \A j \in 1..(k - d) : v[j] = m[d + j]
    BY <1>8, <1>9, CutMsgs
  <2>3. \A j \in 1..(k - d) : d + j \in 1..k
    BY <1>9
  <2>4. ASSUME NEW j \in 1..(k - d)
        PROVE  u[j] = v[j]
    <3>1. PICK o \in 1..k : o = d + j
      BY <2>3
    <3>2. u[j] = q[o].msg
      BY <2>1, <3>1, <1>7
    <3>3. v[j] = q[o].msg
      BY <2>2, <3>1, <1>8
    <3> QED
      BY <3>2, <3>3
  <2> QED
    BY <2>1, <2>2, <2>4, SameMsgs
<1>12. AckMsgs(x) = Elems(SubSeq(m, 1, d))
  BY <1>6, <1>10, NamesType
<1>13. PICK r : r = Acknowledge(l, nr)
  OBVIOUS
<1>14. /\ r.ackqueue = y /\ r.acked = l.acked \cup AckMsgs(x)
       /\ r.outqueue = l.outqueue /\ r.acklost = l.acklost /\ r.purged = l.purged
       /\ r.seen = l.seen /\ r.tx = l.tx
  BY <1>1, <1>2, <1>4, <1>5, <1>13 DEF Acknowledge, LinkInv, LinkType
<1>15. Hears(l, r, d, {})
  BY <1>1, <1>2, <1>3, <1>8, <1>11, <1>12, <1>14 DEF Hears
<1> QED
  BY <1>1, <1>13, <1>15

\* An accepted I frame is given to the user.
LEMMA AcceptHears ==
    ASSUME NEW l, LinkInv(l), l.conn, NEW f \in Frame, f.type = "I",
           NEW n, Hears(l, Acknowledge(l, f.nr), n, {}), LinkInv(Acknowledge(l, f.nr))
    PROVE  Hears(l, AcceptFrameI(Acknowledge(l, f.nr), f), n, {f.msg})
<1> DEFINE a == Acknowledge(l, f.nr)
           t == IF a.iFrmRcvAt = Off THEN 0 ELSE a.iFrmRcvAt
           r == [a EXCEPT !.vr = NextNo(a.vr), !.iFrmRcvAt = t,
                          !.rcvd = Append(a.rcvd, f.msg), !.seen = a.seen \cup {f.msg}]
           s == IF AckDue(r) THEN LapSendFrameS(r) ELSE r
           e == EventIndication(s, "FRAMEI")
<1>1. AcceptFrameI(a, f) = e
  BY DEF AcceptFrameI
<1>2. a \in LinkType /\ Hears(l, a, n, {})
  BY DEF LinkInv
<1> HIDE DEF a
<1>3. a.vr \in SeqNo /\ a.iFrmRcvAt \in Timer(T2) /\ a.rcvd \in Seq(Msg) /\ a.seen \in SUBSET Msg
  BY <1>2 DEF LinkType
<1>4. f.msg \in Msg
  BY DEF Frame, UType
<1>5. /\ NextNo(a.vr) \in SeqNo /\ t \in Timer(T2) /\ Append(a.rcvd, f.msg) \in Seq(Msg)
      /\ a.seen \cup {f.msg} \in SUBSET Msg
  BY <1>3, <1>4, NextNoCases, TimerAssumption DEF Timer, Off
<1> HIDE DEF t
<1>6. r \in LinkType
  BY <1>2, <1>5 DEF LinkType
<1>7. /\ r.ackqueue = a.ackqueue /\ r.acked = a.acked /\ r.seen = a.seen \cup {f.msg}
      /\ r.outqueue = a.outqueue /\ r.acklost = a.acklost /\ r.purged = a.purged
      /\ r.tx = a.tx
  BY <1>2 DEF LinkType
<1> HIDE DEF r
<1>8. Hears(l, r, n, {f.msg})
  BY <1>2, <1>7 DEF Hears
<1>9. s \in LinkType /\ Hears(l, s, n, {f.msg})
  <2>1. LapSendFrameS(r) \in LinkType
    <3>1. r.vr \in SeqNo /\ SFrame(r.vr) \in Frame /\ r.tx \in Seq(Frame)
      BY <1>6, SFrameType DEF LinkType
    <3>2. Append(r.tx, SFrame(r.vr)) \in Seq(Frame)
      BY <3>1, AppendProperties
    <3> QED
      BY <1>6, <3>1, <3>2 DEF LapSendFrameS, Write, LinkType
  <2>2. Hears(l, LapSendFrameS(r), n, {f.msg})
    BY <1>6, <1>8, SendSQuiet, HearsQuiet
  <2> QED
    BY <1>6, <1>8, <2>1, <2>2
<1> HIDE DEF s
<1>10. Quiet(s, e)
  BY <1>9, EventIndicationMute, MuteQuiet
<1>11. Hears(l, e, n, {f.msg})
  BY <1>9, <1>10, HearsQuiet
<1> QED
  BY <1>1, <1>11 DEF a

\* IncomingFrame, whatever the frame is.
LEMMA IncomingFrameHears ==
    ASSUME NEW l0, LinkInv(l0), l0.conn, NEW f \in Frame
    PROVE  HearsFrame(l0, IncomingFrame(l0, f), f)
<1> DEFINE l == [l0 EXCEPT !.xFrmRcvAt = 0]
           u == [l EXCEPT !.uFrmSndAt = Off]
<1>1. l \in LinkType /\ u \in LinkType /\ l0 \in LinkType
  <2>1. 0 \in Timer(T3) /\ Off \in Timer(T1) /\ l0 \in LinkType
    BY TimerAssumption DEF Timer, Off, LinkInv
  <2> QED
    BY <2>1 DEF LinkType
<1>2. Calm(l0, l)
  BY <1>1 DEF Calm, LinkType
<1>3. /\ LinkInv(l) /\ l.conn /\ Quiet(l0, l) /\ Quiet(l0, u) /\ l.ackqueue = l0.ackqueue
  <2>1. LinkInv(l)
    BY <1>2, CalmKeepsInv
  <2>2. l.conn /\ l.ackqueue = l0.ackqueue
    BY <1>2 DEF Calm
  <2>3. Quiet(l0, l) /\ Quiet(l0, u)
    BY <1>1 DEF Quiet, LinkType
  <2> QED
    BY <2>1, <2>2, <2>3
<1>4. f.nr \in SeqNo /\ f.type \in UType \cup {"S", "I"}
  BY DEF Frame
<1>5. IncomingFrame(l0, f) =
        CASE f.type \in {"TESTFRcon", "STOPDTcon", "STARTDTcon"} ->
                EventIndication(u, f.type)
          [] f.type \in {"TESTFRact", "STOPDTact", "STARTDTact"} ->
                EventIndication(l, f.type)
          [] f.type = "S" ->
                IF OKNR(l.va, l.vs, f.nr)
                THEN EventIndication(Acknowledge(l, f.nr), "FRAMES")
                ELSE SeqError(l)
          [] f.type = "I" ->
                IF ~OKNR(l.va, l.vs, f.nr) THEN SeqError(l)
                ELSE IF ~OKNS(l.vr, f.ns) THEN SeqError(Acknowledge(l, f.nr))
                ELSE AcceptFrameI(Acknowledge(l, f.nr), f)
  BY DEF IncomingFrame
<1> HIDE DEF l, u
<1>6. \A s : Quiet(l0, s) => HearsFrame(l0, s, f)
  <2>1. Len(l0.ackqueue) \in Nat
    BY <1>1, LenProperties DEF LinkType
  <2>2. 0 \in 0..Len(l0.ackqueue)
    BY <2>1
  <2> QED
    BY <1>1, <2>2, QuietHears DEF HearsFrame
<1>7. \A evt : Quiet(l, EventIndication(l, evt)) /\ Quiet(u, EventIndication(u, evt))
  BY <1>1, EventIndicationMute, MuteQuiet
<1>8. \A evt : Quiet(l0, EventIndication(l, evt)) /\ Quiet(l0, EventIndication(u, evt))
  BY <1>3, <1>7, QuietTwice
<1>9. Quiet(l0, SeqError(l))
  BY <1>1, <1>3, SeqErrorQuiet, QuietTwice
<1>10. CASE f.type \in UType
  <2>1. IncomingFrame(l0, f) \in {EventIndication(u, f.type), EventIndication(l, f.type)}
    BY <1>5, <1>10 DEF UType
  <2> QED
    BY <2>1, <1>6, <1>8
<1>11. CASE f.type \in {"S", "I"} /\ ~OKNR(l.va, l.vs, f.nr)
  <2>1. IncomingFrame(l0, f) = SeqError(l)
    BY <1>5, <1>11
  <2> QED
    BY <2>1, <1>6, <1>9
<1>12. CASE f.type \in {"S", "I"} /\ OKNR(l.va, l.vs, f.nr)
  <2>1. PICK nr \in SeqNo : nr = f.nr
    BY <1>4
  <2>2. PICK a : a = Acknowledge(l, nr)
    OBVIOUS
  <2>3. LinkInv(a) /\ a \in LinkType
    BY <1>3, <1>12, <2>1, <2>2, AcknowledgeInv DEF LinkInv
  <2>4. PICK n \in 0..Len(l.ackqueue) : Hears(l, a, n, {})
    BY <1>3, <1>12, <2>1, <2>2, AcknowledgeHears
  <2>5. \A s, ms : Hears(l, s, n, ms) => Hears(l0, s, n, ms)
    BY <1>3 DEF Hears, Quiet
  <2>6. \A s : Quiet(a, s) => HearsFrame(l0, s, f)
    <3>1. \A s : Quiet(a, s) => Hears(l, s, n, {})
      BY <2>3, <2>4, HearsQuiet
    <3> QED
      BY <1>3, <2>5, <3>1 DEF HearsFrame
  <2>7. Quiet(a, EventIndication(a, "FRAMES")) /\ Quiet(a, SeqError(a))
    BY <2>3, EventIndicationMute, MuteQuiet, SeqErrorQuiet
  <2>8. f.type = "I" => HearsFrame(l0, AcceptFrameI(a, f), f)
    <3>1. ASSUME f.type = "I"
          PROVE  Hears(l, AcceptFrameI(a, f), n, {f.msg})
      BY <1>3, <2>1, <2>2, <2>3, <2>4, <3>1, AcceptHears
    <3> QED
      BY <1>3, <2>5, <3>1 DEF HearsFrame
  <2>9. \/ IncomingFrame(l0, f) \in {EventIndication(a, "FRAMES"), SeqError(a)}
        \/ f.type = "I" /\ IncomingFrame(l0, f) = AcceptFrameI(a, f)
    <3>1. CASE f.type = "S"
      BY <1>5, <1>12, <2>1, <2>2, <3>1
    <3>2. CASE f.type = "I"
      BY <1>5, <1>12, <2>1, <2>2, <3>2
    <3> QED
      BY <1>12, <3>1, <3>2
  <2> QED
    BY <2>6, <2>7, <2>8, <2>9
<1> QED
  BY <1>4, <1>10, <1>11, <1>12

\* LapRunOutQueue of a started link.
LEMMA RunOutQueueEmits ==
    ASSUME NEW l, LinkInv(l), l.conn, l.state = "STARTED", l.tx = <<>>, NEW fail \in Nat
    PROVE  \E n \in 0..Len(l.outqueue) : Emits(l, LapRunOutQueue(l, fail), n)
<1> DEFINE r == IF l.ackqueue = <<>> THEN [l EXCEPT !.vs = l.va] ELSE l
           n == IF fail < SendRoom(r) THEN fail ELSE SendRoom(r)
<1>1. r = l /\ l \in LinkType /\ l.fd
  BY EmptyWindow DEF LinkInv
<1>2. LapRunOutQueue(l, fail) = SendFirst(r, n)
  BY <1>1 DEF LapRunOutQueue
<1> HIDE DEF r
<1>3. SendRoom(l) \in 0..Len(l.outqueue) /\ Len(l.ackqueue) + SendRoom(l) <= K
  BY SendRoomFits
<1>4. PICK o \in Seq(Msg) : o = l.outqueue
  BY <1>1 DEF LinkType
<1>5. PICK q \in Seq(Unacked) : q = l.ackqueue
  BY <1>1 DEF LinkType
<1>6. PICK k \in Nat : k = Len(o)
  BY <1>4, LenProperties
<1>7. PICK e \in Nat : e = Len(q)
  BY <1>5, LenProperties
<1>8. PICK d \in 0..k : d = n /\ e + d <= K
  <2>1. PICK z \in 0..k : z = SendRoom(l)
    BY <1>3, <1>4, <1>6
  <2>2. e + z <= K /\ K \in Nat
    BY <1>3, <1>5, <1>7, <2>1, WindowAssumption, NAssumption
  <2>3. n = IF fail < z THEN fail ELSE z
    BY <1>1, <2>1
  <2> QED
    BY <2>1, <2>2, <2>3
<1> HIDE DEF n
<1>9. d <= N
  BY <1>8, WindowAssumption, NAssumption
<1> DEFINE fs == [j \in 1..d |-> IFrame(Advance(l.vs, j-1), l.vr, o[j])]
           ms == [j \in 1..d |-> [msg |-> o[j], ns |-> Advance(l.vs, j-1), age |-> 0]]
<1>10. ms \in Seq(Unacked) /\ Len(ms) = d
  BY <1>4, <1>6, <1>8, <1>9, SentMessages
<1>11. PICK s : s = SendFirst(l, d)
  OBVIOUS
<1>12. /\ s.tx = <<>> \o fs /\ s.ackqueue = q \o ms
       /\ s.outqueue = SubSeq(o, d+1, k)
       /\ s.acked = l.acked /\ s.acklost = l.acklost /\ s.purged = l.purged
       /\ s.seen = l.seen
  BY <1>1, <1>4, <1>5, <1>6, <1>11 DEF SendFirst, LinkType
<1>13. /\ Len(<<>> \o fs) = d
       /\ \A j \in 1..d : (<<>> \o fs)[j].type = "I" /\ (<<>> \o fs)[j].msg = o[j]
  <2>1. /\ \A j \in 1..d : fs[j].type = "I" /\ fs[j].msg = o[j]
    BY DEF IFrame
  <2>2. fs \in Seq({fs[j] : j \in 1..d}) /\ Len(fs) = d
    <3>1. PICK S : S = {fs[j] : j \in 1..d}
      OBVIOUS
    <3>2. fs \in [1..d -> S]
      BY <3>1
    <3> HIDE DEF fs
    <3>3. fs \in Seq(S) /\ Len(fs) = d
      BY <3>2, <1>8
    <3> QED
      BY <3>1, <3>3
  <2> HIDE DEF fs
  <2>3. <<>> \o fs = fs
    BY <2>2, ConcatEmptySeq
  <2> QED
    BY <2>1, <2>2, <2>3
<1>14. Names(q \o ms) = Names(q) \o SubSeq(o, 1, d)
  <2>1. \A j \in 1..d : ms[j].msg = o[j]
    OBVIOUS
  <2> HIDE DEF ms
  <2>2. PICK u \in Seq(Unacked) : u = q \o ms
    BY <1>10, JoinedMsgs
  <2>3. Len(u) = e + d /\ \A j \in 1..(e + d) : u[j] = IF j <= e THEN q[j] ELSE ms[j - e]
    BY <1>7, <1>10, <2>2, JoinedMsgs
  <2>4. PICK a \in Seq(Msg) : /\ a = Names(u) /\ Len(a) = e + d
                              /\ \A j \in 1..(e + d) : a[j] = u[j].msg
    BY <2>3, NamesType
  <2>5. PICK b \in Seq(Msg) : b = Names(q) /\ Len(b) = e /\ \A j \in 1..e : b[j] = q[j].msg
    BY <1>7, NamesType
  <2>6. PICK c \in Seq(Msg) : c = SubSeq(o, 1, d) /\ Len(c) = d /\ \A j \in 1..d : c[j] = o[j]
    BY <1>6, <1>8, CutMsgs
  <2>7. PICK t \in Seq(Msg) : t = b \o c
    BY JoinedMsgs
  <2>8. Len(t) = e + d /\ \A j \in 1..(e + d) : t[j] = IF j <= e THEN b[j] ELSE c[j - e]
    <3>1. /\ Len(t) = Len(b) + Len(c)
          /\ \A j \in 1..(Len(b) + Len(c)) : t[j] = IF j <= Len(b) THEN b[j] ELSE c[j - Len(b)]
      BY <2>7, JoinedMsgs
    <3> QED
      BY <3>1, <2>5, <2>6
  <2>9. ASSUME NEW j \in 1..(e + d)
        PROVE  a[j] = t[j]
    <3>1. CASE j <= e
      <4>1. j \in 1..e
        BY <3>1
      <4>2. a[j] = q[j].msg
        BY <3>1, <2>3, <2>4
      <4>3. t[j] = q[j].msg
        BY <3>1, <4>1, <2>5, <2>8
      <4> QED
        BY <4>2, <4>3
    <3>2. CASE ~(j <= e)
      <4>1. PICK x \in 1..d : x = j - e
        BY <3>2
      <4>2. t[j] = o[x]
        BY <3>2, <4>1, <2>6, <2>8
      <4>3. u[j] = ms[x]
        BY <3>2, <4>1, <2>3
      <4> QED
        BY <4>1, <4>2, <4>3, <2>1, <2>4
    <3> QED
      BY <3>1, <3>2
  <2>10. a = t
    BY <2>4, <2>8, <2>9, SameMsgs
  <2> QED
    BY <2>2, <2>4, <2>5, <2>6, <2>7, <2>10
<1> HIDE DEF fs, ms
<1>15. Emits(l, s, d)
  BY <1>4, <1>5, <1>6, <1>12, <1>13, <1>14 DEF Emits
<1> QED
  BY <1>1, <1>2, <1>4, <1>6, <1>8, <1>11, <1>15

-----------------------------------------------------------------------------
(* The books stay right *)

\* r knows what l knew and keeps its books; nothing comes back that went out.
Handled(l, r) ==
    /\ BookOf(r)
    /\ Known(r) = Known(l) /\ Went(l) \subseteq Went(r) /\ Out(r) \subseteq Out(l)

\* What r wrote left the out queue of l, before what is still there.
Writes(l, r) ==
    /\ Carried(r.tx) \subseteq Out(l) \cap Went(r)
    /\ Below(Carried(r.tx), Out(r))
    /\ Ascending(r.tx)

\* The sets of the books are sets of numbers.
LEMMA BookTypes ==
    ASSUME NEW l \in LinkType
    PROVE  /\ Out(l) \subseteq Msg /\ Wait(l) \subseteq Msg /\ Went(l) \subseteq Msg
           /\ Known(l) \subseteq Msg /\ Msg \subseteq Nat
           /\ Names(l.ackqueue) \in Seq(Msg) /\ Len(Names(l.ackqueue)) = Len(l.ackqueue)
           /\ l.outqueue \in Seq(Msg)
<1>1. l.outqueue \in Seq(Msg) /\ l.ackqueue \in Seq(Unacked)
      /\ l.acked \subseteq Msg /\ l.acklost \subseteq Msg /\ l.purged \subseteq Msg
  BY DEF LinkType
<1>2. Names(l.ackqueue) \in Seq(Msg) /\ Len(Names(l.ackqueue)) = Len(l.ackqueue)
  BY <1>1, NamesType
<1>3. Out(l) \subseteq Msg /\ Wait(l) \subseteq Msg
  BY <1>1, <1>2, ElemsType DEF Out, Wait
<1>4. Msg \subseteq Nat
  BY BoundAssumption DEF Msg
<1> QED
  BY <1>1, <1>2, <1>3, <1>4 DEF Went, Known

LEMMA NothingWritten ==
    ASSUME NEW l, NEW r, NoMsgs(r.tx)
    PROVE  Writes(l, r) /\ Carried(r.tx) = {}
<1>1. Carried(r.tx) = {}
  BY DEF NoMsgs, Carried
<1> QED
  BY <1>1 DEF Writes, Below, Ascending, NoMsgs

LEMMA QuietHandled ==
    ASSUME NEW l \in LinkType, NEW r, BookOf(l), Quiet(l, r), ~r.conn => r.state = "INIT"
    PROVE  Handled(l, r)
<1>1. Out(r) = Out(l) /\ Wait(r) = Wait(l) /\ Went(r) = Went(l) /\ Known(r) = Known(l)
  BY DEF Quiet, Out, Wait, Went, Known
<1> QED
  BY <1>1 DEF Quiet, Handled, BookOf

LEMMA HearsHandled ==
    ASSUME NEW l \in LinkType, NEW r, NEW n, NEW ms, BookOf(l), Hears(l, r, n, ms),
           ~r.conn => r.state = "INIT"
    PROVE  Handled(l, r)
<1>1. PICK q \in Seq(Msg) : q = Names(l.ackqueue) /\ Len(q) = Len(l.ackqueue)
  BY BookTypes
<1>2. n \in 0..Len(q)
  BY <1>1 DEF Hears
<1>3. PICK x \in Seq(Msg) : x = SubSeq(q, 1, n)
  BY <1>2, CutMsgs
<1>4. PICK y \in Seq(Msg) : y = SubSeq(q, n+1, Len(q))
  BY <1>2, CutMsgs
<1>5. /\ Elems(q) = Elems(x) \cup Elems(y)
      /\ Rising(y) /\ Below(Elems(x), Elems(y))
  BY <1>1, <1>2, <1>3, <1>4, CutMsgs DEF BookOf
<1>6. Elems(x) \cap Elems(y) = {}
  <2>1. Elems(x) \subseteq Msg /\ Msg \subseteq Nat
    BY ElemsType, BoundAssumption DEF Msg
  <2>2. \A m \in Nat : ~(m < m)
    OBVIOUS
  <2> QED
    BY <1>5, <2>1, <2>2 DEF Below
<1>7. /\ Wait(l) = Elems(x) \cup Elems(y) /\ Wait(r) = Elems(y) /\ Out(r) = Out(l)
      /\ r.acked = l.acked \cup Elems(x)
      /\ r.acklost = l.acklost /\ r.purged = l.purged
      /\ Names(r.ackqueue) = y /\ r.outqueue = l.outqueue
  BY <1>1, <1>3, <1>4, <1>5 DEF Hears, Wait, Out
<1>8. Went(r) = Went(l) /\ Known(r) = Known(l)
  BY <1>7 DEF Went, Known
<1>9. BookOf(r)
  <2>1. Below(Wait(r), Out(r))
    BY <1>7 DEF BookOf, Below
  <2>2. Rising(Names(r.ackqueue)) /\ Rising(r.outqueue)
    BY <1>5, <1>7 DEF BookOf
  <2>3. /\ Out(r) \cap Went(r) = {} /\ Out(r) \cap r.purged = {} /\ Went(r) \cap r.purged = {}
    BY <1>7, <1>8 DEF BookOf
  <2>4. /\ Wait(r) \cap r.acked = {} /\ Wait(r) \cap r.acklost = {} /\ r.acked \cap r.acklost = {}
    BY <1>6, <1>7 DEF BookOf
  <2> QED
    BY <2>1, <2>2, <2>3, <2>4 DEF BookOf
<1> QED
  BY <1>7, <1>8, <1>9 DEF Handled

LEMMA EmitsHandled ==
    ASSUME NEW l \in LinkType, NEW r, NEW n, BookOf(l), Emits(l, r, n),
           ~r.conn => r.state = "INIT"
    PROVE  Handled(l, r) /\ Writes(l, r)
<1>1. PICK q \in Seq(Msg) : q = Names(l.ackqueue)
  BY BookTypes
<1>2. PICK o \in Seq(Msg) : o = l.outqueue
  BY BookTypes
<1>3. n \in 0..Len(o)
  BY <1>2 DEF Emits
<1>4. PICK x \in Seq(Msg) : x = SubSeq(o, 1, n)
  BY <1>3, CutMsgs
<1>5. PICK y \in Seq(Msg) : y = SubSeq(o, n+1, Len(o))
  BY <1>3, CutMsgs
<1>6. /\ Elems(o) = Elems(x) \cup Elems(y)
      /\ Rising(x) /\ Rising(y) /\ Below(Elems(x), Elems(y))
      /\ Len(x) = n /\ \A j \in 1..n : x[j] = o[j]
  BY <1>2, <1>3, <1>4, <1>5, CutMsgs DEF BookOf
<1>7. Elems(x) \subseteq Msg /\ Elems(q) \subseteq Msg /\ Msg \subseteq Nat
  BY ElemsType, BoundAssumption DEF Msg
<1>8. Elems(x) \cap Elems(y) = {}
  <2>1. \A m \in Nat : ~(m < m)
    OBVIOUS
  <2> QED
    BY <1>6, <1>7, <2>1 DEF Below
<1>9. /\ Rising(q) /\ Below(Elems(q), Elems(x)) /\ Below(Elems(q), Elems(y))
  BY <1>1, <1>2, <1>6 DEF BookOf, Wait, Out, Below
<1>10. Elems(q \o x) = Elems(q) \cup Elems(x) /\ Rising(q \o x)
  BY <1>6, <1>9, JoinRising
<1>11. /\ Wait(l) = Elems(q) /\ Wait(r) = Elems(q) \cup Elems(x)
       /\ Out(l) = Elems(x) \cup Elems(y) /\ Out(r) = Elems(y)
       /\ r.acked = l.acked /\ r.acklost = l.acklost /\ r.purged = l.purged
       /\ Names(r.ackqueue) = q \o x /\ r.outqueue = y
  BY <1>1, <1>2, <1>4, <1>5, <1>6, <1>10 DEF Emits, Wait, Out
<1>12. Went(r) = Went(l) \cup Elems(x) /\ Known(r) = Known(l) /\ Out(r) \subseteq Out(l)
  BY <1>11 DEF Went, Known
<1>13. BookOf(r)
  <2>1. Below(Wait(r), Out(r))
    BY <1>6, <1>9, <1>11 DEF Below
  <2>2. Rising(Names(r.ackqueue)) /\ Rising(r.outqueue)
    BY <1>6, <1>10, <1>11
  <2>3. /\ Out(r) \cap Went(r) = {} /\ Out(r) \cap r.purged = {} /\ Went(r) \cap r.purged = {}
    BY <1>8, <1>11, <1>12 DEF BookOf
  <2>4. /\ Wait(r) \cap r.acked = {} /\ Wait(r) \cap r.acklost = {} /\ r.acked \cap r.acklost = {}
    BY <1>11 DEF BookOf, Went
  <2> QED
    BY <2>1, <2>2, <2>3, <2>4 DEF BookOf
<1>14. /\ Len(r.tx) = n
       /\ \A j \in 1..n : r.tx[j].type = "I" /\ r.tx[j].msg = x[j]
  BY <1>2, <1>6 DEF Emits
<1>15. Carried(r.tx) = Elems(x)
  <2>1. Elems(x) = {x[j] : j \in 1..n}
    BY <1>6 DEF Elems
  <2> QED
    BY <1>7, <1>14, <2>1 DEF Carried
<1>16. Ascending(r.tx)
  BY <1>6, <1>14 DEF Ascending, Rising
<1>17. Writes(l, r)
  BY <1>6, <1>11, <1>12, <1>15, <1>16 DEF Writes
<1> QED
  BY <1>12, <1>13, <1>17 DEF Handled

LEMMA ClosesHandled ==
    ASSUME NEW i, NEW l \in LinkType, NEW r, BookOf(l), Closes(i, l, r), r.state = "INIT"
    PROVE  Handled(l, r)
<1>1. Wait(r) = {} /\ Rising(Names(r.ackqueue))
  BY EmptyNames DEF Closes, Wait
<1>2. CASE i = Cli /\ KeepOutq
  <2>1. /\ Out(r) = Out(l) /\ r.outqueue = l.outqueue /\ r.purged = l.purged
        /\ r.acked = l.acked /\ r.acklost = l.acklost \cup Wait(l)
    BY <1>2 DEF Closes, Out
  <2>2. Went(r) = Went(l) /\ Known(r) = Known(l)
    BY <1>1, <2>1 DEF Went, Known
  <2>3. BookOf(r)
    BY <1>1, <2>1, <2>2 DEF BookOf, Below
  <2> QED
    BY <2>1, <2>2, <2>3 DEF Handled
<1>3. CASE ~(i = Cli /\ KeepOutq)
  <2>1. /\ Out(r) = {} /\ r.outqueue = <<>> /\ r.purged = l.purged \cup Out(l)
        /\ r.acked = l.acked /\ r.acklost = l.acklost \cup Wait(l)
    BY <1>3, EmptyNames DEF Closes, Out
  <2>2. Went(r) = Went(l) /\ Known(r) = Known(l)
    BY <1>1, <2>1 DEF Went, Known
  <2>3. BookOf(r)
    BY <1>1, <2>1, <2>2, EmptyNames DEF BookOf, Below
  <2> QED
    BY <2>1, <2>2, <2>3 DEF Handled
<1> QED
  BY <1>2, <1>3

-----------------------------------------------------------------------------
(* Messages on a wire *)

\* The messages of an empty wire, of two wires joined and of all but the
\* first frame of one.
LEMMA CarriedNothing == Carried(<<>>) = {} /\ Ascending(<<>>)
<1>1. Len(<<>>) = 0 /\ 1..0 = {}
  OBVIOUS
<1> QED
  BY <1>1 DEF Carried, Ascending

LEMMA CarriedJoined ==
    ASSUME NEW w \in Seq(Frame), NEW u \in Seq(Frame)
    PROVE  /\ Carried(w \o u) = Carried(w) \cup Carried(u)
           /\ Ascending(w) /\ Ascending(u) /\ Below(Carried(w), Carried(u))
              => Ascending(w \o u)
<1>1. PICK k \in Nat : k = Len(w)
  BY LenProperties
<1>2. PICK n \in Nat : n = Len(u)
  BY LenProperties
<1>3. PICK x \in Seq(Frame) : x = w \o u
  BY ConcatProperties
<1>4. Len(x) = k + n /\ \A j \in 1..(k + n) : x[j] = IF j <= k THEN w[j] ELSE u[j - k]
  BY <1>1, <1>2, <1>3, ConcatProperties
<1>5. \A j \in 1..(k + n) : j <= k => j \in 1..k
  OBVIOUS
<1>6. \A j \in 1..(k + n) : ~(j <= k) => j - k \in 1..n
  OBVIOUS
<1>7. ASSUME NEW m \in Carried(x)
      PROVE  m \in Carried(w) \cup Carried(u)
  <2>1. PICK j \in 1..(k + n) : x[j].type = "I" /\ x[j].msg = m
    BY <1>4 DEF Carried
  <2>2. m \in Msg
    BY DEF Carried
  <2>3. CASE j <= k
    <3>1. j \in 1..k /\ x[j] = w[j]
      BY <2>3, <1>4, <1>5
    <3> QED
      BY <2>1, <2>2, <3>1, <1>1 DEF Carried
  <2>4. CASE ~(j <= k)
    <3>1. j - k \in 1..n /\ x[j] = u[j - k]
      BY <2>4, <1>4, <1>6
    <3> QED
      BY <2>1, <2>2, <3>1, <1>2 DEF Carried
  <2> QED
    BY <2>3, <2>4
<1>8. ASSUME NEW m \in Carried(w)
      PROVE  m \in Carried(x)
  <2>1. PICK j \in 1..k : w[j].type = "I" /\ w[j].msg = m
    BY <1>1 DEF Carried
  <2>2. j \in 1..(k + n) /\ x[j] = w[j]
    BY <1>4
  <2> QED
    BY <2>1, <2>2, <1>4 DEF Carried
<1>9. ASSUME NEW m \in Carried(u)
      PROVE  m \in Carried(x)
  <2>1. PICK j \in 1..n : u[j].type = "I" /\ u[j].msg = m
    BY <1>2 DEF Carried
  <2>2. PICK o \in 1..(k + n) : o = j + k
    OBVIOUS
  <2>3. ~(o <= k) /\ o - k = j
    BY <2>2
  <2>4. x[o] = u[j]
    BY <2>3, <1>4
  <2> QED
    BY <2>1, <2>4, <1>4 DEF Carried
<1>10. ASSUME Ascending(w), Ascending(u), Below(Carried(w), Carried(u))
       PROVE  Ascending(x)
  <2> SUFFICES ASSUME NEW a \in 1..(k + n), NEW b \in 1..(k + n), a < b,
                      x[a].type = "I", x[b].type = "I"
               PROVE  x[a].msg < x[b].msg
    BY <1>4 DEF Ascending
  <2>1. CASE b <= k
    <3>1. a \in 1..k /\ b \in 1..k /\ x[a] = w[a] /\ x[b] = w[b]
      BY <2>1, <1>4
    <3> QED
      BY <3>1, <1>1, <1>10 DEF Ascending
  <2>2. CASE ~(a <= k)
    <3>1. PICK d \in 1..n : d = a - k /\ x[a] = u[d]
      BY <2>2, <1>4, <1>6
    <3>2. PICK e \in 1..n : e = b - k /\ x[b] = u[e]
      BY <2>2, <1>4, <1>6
    <3>3. d < e
      BY <3>1, <3>2
    <3> QED
      BY <3>1, <3>2, <3>3, <1>2, <1>10 DEF Ascending
  <2>3. CASE a <= k /\ ~(b <= k)
    <3>1. a \in 1..k /\ x[a] = w[a]
      BY <2>3, <1>4
    <3>2. PICK e \in 1..n : e = b - k /\ x[b] = u[e]
      BY <2>3, <1>4, <1>6
    <3>3. x[a] \in Frame /\ x[b] \in Frame
      BY <1>1, <1>2, <3>1, <3>2, ElementOfSeq
    <3>4. x[a].msg \in Msg /\ x[b].msg \in Msg
      BY <3>3 DEF Frame, UType
    <3>5. x[a].msg \in Carried(w)
      BY <3>1, <3>4, <1>1 DEF Carried
    <3>6. x[b].msg \in Carried(u)
      BY <3>2, <3>4, <1>2 DEF Carried
    <3> QED
      BY <3>5, <3>6, <1>10 DEF Below
  <2> QED
    BY <2>1, <2>2, <2>3
<1> QED
  BY <1>3, <1>7, <1>8, <1>9, <1>10

LEMMA CarriedTail ==
    ASSUME NEW w \in Seq(Frame), w # <<>>
    PROVE  /\ Carried(Tail(w)) \subseteq Carried(w)
           /\ Head(w).type = "I" => Head(w).msg \in Carried(w)
           /\ Ascending(w) => /\ Ascending(Tail(w))
                              /\ Head(w).type = "I" => Below({Head(w).msg}, Carried(Tail(w)))
<1>1. PICK k \in Nat : k = Len(w)
  BY LenProperties
<1>2. k # 0
  BY <1>1, EmptySeq
<1>3. PICK t \in Seq(Frame) : t = Tail(w)
  BY HeadTailProperties
<1>4. PICK n \in Nat : n = k - 1
  BY <1>2
<1>5. Len(t) = n /\ \A j \in 1..n : t[j] = w[j + 1]
  BY <1>1, <1>3, <1>4, HeadTailProperties
<1>6. PICK f \in Frame : f = Head(w) /\ f = w[1]
  BY HeadTailProperties
<1>7. 1 \in 1..k /\ \A j \in 1..n : j + 1 \in 1..k /\ 1 < j + 1
  BY <1>2, <1>4
<1>8. f.type = "I" => f.msg \in Msg
  BY DEF Frame, UType
<1>9. ASSUME NEW m \in Carried(t)
      PROVE  m \in Msg /\ \E j \in 1..n : w[j + 1].type = "I" /\ w[j + 1].msg = m
  BY <1>5 DEF Carried
<1>10. Carried(t) \subseteq Carried(w)
  BY <1>1, <1>7, <1>9 DEF Carried
<1>11. f.type = "I" => f.msg \in Carried(w)
  BY <1>1, <1>6, <1>7, <1>8 DEF Carried
<1>12. ASSUME Ascending(w)
       PROVE  Ascending(t)
  <2> SUFFICES ASSUME NEW a \in 1..n, NEW b \in 1..n, a < b, t[a].type = "I", t[b].type = "I"
               PROVE  t[a].msg < t[b].msg
    BY <1>5 DEF Ascending
  <2>1. PICK d \in 1..k : d = a + 1
    BY <1>7
  <2>2. PICK e \in 1..k : e = b + 1
    BY <1>7
  <2>3. d < e /\ t[a] = w[d] /\ t[b] = w[e]
    BY <2>1, <2>2, <1>5
  <2> QED
    BY <2>3, <1>1, <1>12 DEF Ascending
<1>13. ASSUME Ascending(w), f.type = "I", NEW m \in Carried(t)
       PROVE  f.msg < m
  <2>1. PICK j \in 1..n : w[j + 1].type = "I" /\ w[j + 1].msg = m
    BY <1>9
  <2>2. PICK d \in 1..k : d = j + 1 /\ 1 < d
    BY <1>7
  <2> QED
    BY <2>1, <2>2, <1>1, <1>6, <1>7, <1>13 DEF Ascending
<1> QED
  BY <1>3, <1>6, <1>10, <1>11, <1>12, <1>13 DEF Below

-----------------------------------------------------------------------------
(* The invariant *)

\* What link i was given, and what is on the way to it.
Came(i) == lk[i].seen \cup Carried(net[i])

\* Every message is in the books of the link that took it and of no other.
\* What came to a link went out of another one and came nowhere else; it
\* comes in the order of the puts, before what the link at the other end
\* has still to send.
BookInv ==
    /\ \A i \in Link : BookOf(lk[i])
    /\ \A c \in Conn : ~lk[c].conn => lk[c].outqueue = <<>>
    /\ \A i, k \in Link : i # k => Known(lk[i]) \cap Known(lk[k]) = {}
    /\ UNION {Known(lk[i]) : i \in Link} = 1..used["put"]
    /\ \A i \in Link :
         /\ Came(i) \subseteq UNION {Went(lk[k]) : k \in Link \ {i}}
         /\ Below(lk[i].seen, Carried(net[i]))
         /\ Ascending(net[i])
    /\ \A i, k \in Link : i # k => Came(i) \cap Came(k) = {}
    /\ \A c \in Conn :
         /\ Below(Came(c), Out(lk[Cli]))
         /\ cur = c => Below(Came(Cli), Out(lk[c]))

\* The links handle what they know; at most one of them, s, sends X to p.
LEMMA BooksMove ==
    ASSUME BookInv, \A j \in Link : Handled(lk[j], lk'[j]), used'["put"] = used["put"],
           NEW s \in Link, NEW p \in Link, NEW X, X = {} \/ s # p,
           X \subseteq Out(lk[s]) \cap Went(lk'[s]), Below(X, Out(lk'[s])),
           X = {} \/ (s = Cli /\ p \in Conn) \/ (p = Cli /\ s = cur),
           \A j \in Link : Came(j)' \subseteq Came(j) \cup (IF j = p THEN X ELSE {}),
           \A j \in Link : Below(lk'[j].seen, Carried(net'[j])) /\ Ascending(net'[j]),
           \A c \in Conn : ~lk'[c].conn => lk'[c].outqueue = <<>>,
           cur' \in Conn => (cur' = cur \/ lk'[cur'].outqueue = <<>>)
    PROVE  BookInv'
<1>1. Conn \subseteq Link /\ Cli \in Link /\ Cli \notin Conn
  BY ConnAssumption DEF Link
<1>2. \A j \in Link : /\ BookOf(lk'[j]) /\ Known(lk'[j]) = Known(lk[j])
                      /\ Went(lk[j]) \subseteq Went(lk'[j]) /\ Out(lk'[j]) \subseteq Out(lk[j])
  BY DEF Handled
<1>3. \A i, k \in Link : i # k => Known(lk'[i]) \cap Known(lk'[k]) = {}
  BY <1>2 DEF BookInv
<1>4. UNION {Known(lk'[i]) : i \in Link} = 1..used'["put"]
  <2>1. {Known(lk'[i]) : i \in Link} = {Known(lk[i]) : i \in Link}
    BY <1>2
  <2> QED
    BY <2>1 DEF BookInv
<1>5. ASSUME NEW i \in Link
      PROVE  Came(i)' \subseteq UNION {Went(lk'[k]) : k \in Link \ {i}}
  <2>1. Came(i) \subseteq UNION {Went(lk'[k]) : k \in Link \ {i}}
    BY <1>2 DEF BookInv
  <2>2. i = p => X \subseteq UNION {Went(lk'[k]) : k \in Link \ {i}}
    OBVIOUS
  <2> QED
    BY <2>1, <2>2
<1>6. \A j \in Link : X \cap Came(j) = {}
  <2> SUFFICES ASSUME NEW j \in Link, NEW m, m \in X, m \in Came(j)
               PROVE  FALSE
    OBVIOUS
  <2>1. PICK k \in Link : m \in Went(lk[k])
    BY DEF BookInv
  <2>2. m \in Out(lk[s])
    OBVIOUS
  <2>3. m \in Known(lk[k]) /\ m \in Known(lk[s])
    BY <2>1, <2>2 DEF Known
  <2>4. k = s
    BY <2>3 DEF BookInv
  <2> QED
    BY <2>1, <2>2, <2>4 DEF BookInv, BookOf
<1>7. \A i, k \in Link : i # k => Came(i)' \cap Came(k)' = {}
  <2> SUFFICES ASSUME NEW i \in Link, NEW k \in Link, i # k
               PROVE  Came(i)' \cap Came(k)' = {}
    OBVIOUS
  <2>1. Came(i) \cap Came(k) = {}
    BY DEF BookInv
  <2>2. Came(i)' \subseteq Came(i) \cup (IF i = p THEN X ELSE {})
    OBVIOUS
  <2>3. Came(k)' \subseteq Came(k) \cup (IF k = p THEN X ELSE {})
    OBVIOUS
  <2> QED
    BY <2>1, <2>2, <2>3, <1>6
<1>8. ASSUME NEW c \in Conn
      PROVE  Below(Came(c)', Out(lk'[Cli]))
  <2>1. Below(Came(c), Out(lk'[Cli]))
    BY <1>1, <1>2 DEF BookInv, Below
  <2>2. c = p => Below(X, Out(lk'[Cli]))
    BY <1>1 DEF Below
  <2>3. Came(c)' \subseteq Came(c) \cup (IF c = p THEN X ELSE {})
    BY <1>1
  <2> QED
    BY <2>1, <2>2, <2>3 DEF Below
<1>9. ASSUME NEW c \in Conn, cur' = c
      PROVE  Below(Came(Cli)', Out(lk'[c]))
  <2>1. CASE lk'[c].outqueue = <<>>
    BY <2>1, EmptyNames DEF Below, Out
  <2>2. CASE cur = c
    <3>1. Below(Came(Cli), Out(lk'[c]))
      BY <2>2, <1>1, <1>2 DEF BookInv, Below
    <3>2. Cli = p => Below(X, Out(lk'[c]))
      BY <2>2, <1>1 DEF Below
    <3>3. Came(Cli)' \subseteq Came(Cli) \cup (IF Cli = p THEN X ELSE {})
      BY <1>1
    <3> QED
      BY <3>1, <3>2, <3>3 DEF Below
  <2> QED
    BY <2>1, <2>2, <1>9
<1> QED
  BY <1>2, <1>3, <1>4, <1>5, <1>7, <1>8, <1>9 DEF BookInv

\* Link i becomes l and sends what l wrote, if the other end is there.
Moved(i, l) ==
    /\ lk' = [lk EXCEPT ![i] = [l EXCEPT !.tx = <<>>]]
    /\ \A j \in Link \ {i} :
         net'[j] = IF Together(ConnOf(i)) /\ j = Peer(i) THEN net[j] \o l.tx ELSE net[j]
    /\ cur' = cur \/ cur' = NoConn
    /\ used'["put"] = used["put"]

\* l is what one event made of link i; reading takes a frame from its wire.
Did(i, l) ==
    /\ l \in LinkType
    /\ ~l.conn => l.state = "INIT" /\ (i \in Conn => l.outqueue = <<>>)
    /\ \/ /\ \/ Quiet(lk[i], l)
             \/ Closes(i, lk[i], l) /\ l.state = "INIT"
             \/ \E n \in 0..Len(lk[i].outqueue) : Emits(lk[i], l, n)
          /\ net'[i] = net[i] \/ net'[i] = <<>>
       \/ /\ net[i] # <<>> /\ net'[i] = Tail(net[i])
          /\ HearsFrame(lk[i], l, Head(net[i]))

\* Forgetting what was written changes no book.
LEMMA TxQuiet ==
    ASSUME NEW l \in LinkType
    PROVE  LET r == [l EXCEPT !.tx = <<>>]
           IN  /\ Quiet(l, r) /\ r.state = l.state /\ r.conn = l.conn
               /\ \A x : Handled(x, l) => Handled(x, r)
               /\ Out(r) = Out(l) /\ Wait(r) = Wait(l) /\ Went(r) = Went(l) /\ Known(r) = Known(l)
<1> DEFINE r == [l EXCEPT !.tx = <<>>]
<1>1. /\ r.outqueue = l.outqueue /\ r.ackqueue = l.ackqueue /\ r.acked = l.acked
      /\ r.acklost = l.acklost /\ r.purged = l.purged /\ r.seen = l.seen /\ r.tx = <<>>
      /\ r.state = l.state /\ r.conn = l.conn
  BY DEF LinkType
<1> HIDE DEF r
<1>2. NoMsgs(r.tx)
  BY <1>1, CarriedNothing DEF NoMsgs
<1>3. /\ Out(r) = Out(l) /\ Wait(r) = Wait(l) /\ Went(r) = Went(l) /\ Known(r) = Known(l)
      /\ BookOf(l) => BookOf(r)
  BY <1>1 DEF Out, Wait, Went, Known, BookOf
<1>4. Quiet(l, r)
  BY <1>1, <1>2 DEF Quiet
<1> QED
  BY <1>1, <1>3, <1>4 DEF r, Handled

\* What one event does to the books of a link.
LEMMA DidHandled ==
    ASSUME LinksInv, BookInv, NEW i \in Link, NEW l, Did(i, l)
    PROVE  /\ Handled(lk[i], l) /\ Writes(lk[i], l)
           /\ l.seen \cup Carried(net'[i]) \subseteq Came(i)
           /\ Below(l.seen, Carried(net'[i])) /\ Ascending(net'[i])
<1>1. lk[i] \in LinkType /\ BookOf(lk[i]) /\ net[i] \in Seq(Frame) /\ lk[i].tx = <<>>
      /\ Below(lk[i].seen, Carried(net[i])) /\ Ascending(net[i])
  BY DEF LinksInv, TypeOK, BookInv
<1>2. NoMsgs(lk[i].tx)
  BY <1>1, CarriedNothing DEF NoMsgs
<1>3. l \in LinkType /\ (~l.conn => l.state = "INIT")
  BY DEF Did
<1>4. CASE /\ \/ Quiet(lk[i], l)
              \/ Closes(i, lk[i], l) /\ l.state = "INIT"
              \/ \E n \in 0..Len(lk[i].outqueue) : Emits(lk[i], l, n)
           /\ net'[i] = net[i] \/ net'[i] = <<>>
  <2>1. ASSUME l.seen = lk[i].seen
        PROVE  /\ l.seen \cup Carried(net'[i]) \subseteq Came(i)
               /\ Below(l.seen, Carried(net'[i])) /\ Ascending(net'[i])
    BY <1>1, <1>4, <2>1, CarriedNothing DEF Came, Below
  <2>2. CASE Quiet(lk[i], l)
    <3>1. NoMsgs(l.tx) /\ l.seen = lk[i].seen
      BY <1>2, <2>2 DEF Quiet
    <3> QED
      BY <1>1, <1>3, <2>1, <2>2, <3>1, QuietHandled, NothingWritten
  <2>3. CASE Closes(i, lk[i], l) /\ l.state = "INIT"
    <3>1. NoMsgs(l.tx) /\ l.seen = lk[i].seen
      BY <1>2, <2>3 DEF Closes
    <3> QED
      BY <1>1, <1>3, <2>1, <2>3, <3>1, ClosesHandled, NothingWritten
  <2>4. CASE \E n \in 0..Len(lk[i].outqueue) : Emits(lk[i], l, n)
    <3>1. PICK n : Emits(lk[i], l, n)
      BY <2>4
    <3>2. l.seen = lk[i].seen
      BY <3>1 DEF Emits
    <3> QED
      BY <1>1, <1>3, <2>1, <3>1, <3>2, EmitsHandled
  <2> QED
    BY <1>4, <2>2, <2>3, <2>4
<1>5. CASE net[i] # <<>> /\ net'[i] = Tail(net[i]) /\ HearsFrame(lk[i], l, Head(net[i]))
  <2>1. PICK n \in 0..Len(lk[i].ackqueue), ms \in SUBSET {Head(net[i]).msg} :
           Hears(lk[i], l, n, ms) /\ (ms # {} => Head(net[i]).type = "I")
    BY <1>5 DEF HearsFrame
  <2>2. NoMsgs(l.tx) /\ l.seen = lk[i].seen \cup ms
    BY <1>2, <2>1 DEF Hears
  <2>3. /\ Carried(Tail(net[i])) \subseteq Carried(net[i])
        /\ ms \subseteq Carried(net[i]) /\ Ascending(Tail(net[i]))
        /\ Below(ms, Carried(Tail(net[i])))
    BY <1>1, <1>5, <2>1, CarriedTail DEF Below
  <2>4. /\ l.seen \cup Carried(net'[i]) \subseteq Came(i)
        /\ Below(l.seen, Carried(net'[i])) /\ Ascending(net'[i])
    BY <1>1, <1>5, <2>2, <2>3 DEF Came, Below
  <2> QED
    BY <1>1, <1>3, <2>1, <2>2, <2>4, HearsHandled, NothingWritten
<1> QED
  BY <1>4, <1>5 DEF Did

\* A link moves: what it sent is new at the other end, and comes last there.
LEMMA MovedBooks ==
    ASSUME LinksInv, BookInv, NEW i \in Link, NEW l, Did(i, l), Moved(i, l),
           ConnOf(i) \in Conn, Peer(i) \in Link, Peer(i) # i
    PROVE  BookInv'
<1> DEFINE p == Peer(i)
           t == Together(ConnOf(i))
           X == IF t THEN Carried(l.tx) ELSE {}
           r == [l EXCEPT !.tx = <<>>]
<1>1. /\ l \in LinkType /\ lk \in [Link -> LinkType] /\ net \in [Link -> Seq(Frame)]
      /\ l.tx \in Seq(Frame) /\ Conn \subseteq Link /\ Cli \in Link /\ Cli \notin Conn
      /\ NoConn \notin Conn
      /\ \A j \in Link : BookOf(lk[j]) /\ Below(lk[j].seen, Carried(net[j])) /\ Ascending(net[j])
      /\ \A c \in Conn : ~lk[c].conn => lk[c].outqueue = <<>>
  BY ConnAssumption DEF LinksInv, TypeOK, LinkType, Did, BookInv, Link
<1>2. /\ Handled(lk[i], l) /\ Writes(lk[i], l)
      /\ l.seen \cup Carried(net'[i]) \subseteq Came(i)
      /\ Below(l.seen, Carried(net'[i])) /\ Ascending(net'[i])
  BY DidHandled
<1>3. /\ Handled(lk[i], r) /\ Out(r) = Out(l) /\ Went(r) = Went(l)
      /\ r.seen = l.seen /\ r.conn = l.conn /\ r.outqueue = l.outqueue
  BY <1>1, <1>2, TxQuiet DEF Quiet
<1> HIDE DEF r
<1>4. lk' = [lk EXCEPT ![i] = r]
  BY DEF Moved, r
<1>5. lk'[i] = r /\ \A j \in Link : j # i => lk'[j] = lk[j]
  BY <1>1, <1>4
<1>6. \A j \in Link : j # i => net'[j] = IF t /\ j = p THEN net[j] \o l.tx ELSE net[j]
  BY DEF Moved
<1>7. \A j \in Link : Handled(lk[j], lk'[j])
  <2>1. \A j \in Link : Handled(lk[j], lk[j])
    BY <1>1 DEF Handled
  <2> QED
    BY <1>3, <1>5, <2>1
<1>8. /\ X \subseteq Out(lk[i]) \cap Went(lk'[i]) /\ Below(X, Out(lk'[i]))
      /\ t => Ascending(l.tx)
  BY <1>2, <1>3, <1>5 DEF Writes, Below
<1>9. t => (i = Cli /\ p \in Conn) \/ (p = Cli /\ i = cur)
  BY <1>1 DEF Together, ConnOf, Peer
<1>10. t => Below(Came(p), X)
  <2>1. t => Below(Came(p), Out(lk[i]))
    BY <1>1, <1>9 DEF BookInv, Link
  <2> QED
    BY <1>8, <2>1 DEF Below
<1> HIDE DEF t, p
<1>11. \A j \in Link : j # i => IF t /\ j = p
                                THEN /\ Carried(net'[j]) = Carried(net[j]) \cup X
                                     /\ Below(Carried(net[j]), X) => Ascending(net'[j])
                                ELSE net'[j] = net[j]
  BY <1>1, <1>6, <1>8, CarriedJoined
<1> HIDE DEF X
<1>12. \A j \in Link : Came(j)' \subseteq Came(j) \cup (IF j = p THEN X ELSE {})
  BY <1>2, <1>3, <1>5, <1>11 DEF Came
<1>13. \A j \in Link : Below(lk'[j].seen, Carried(net'[j])) /\ Ascending(net'[j])
  <2> SUFFICES ASSUME NEW j \in Link, j # i
               PROVE  Below(lk'[j].seen, Carried(net'[j])) /\ Ascending(net'[j])
    BY <1>2, <1>3, <1>5
  <2>1. CASE t /\ j = p
    BY <1>1, <1>5, <1>10, <1>11, <2>1 DEF Came, Below
  <2>2. CASE ~(t /\ j = p)
    BY <1>1, <1>5, <1>11, <2>2
  <2> QED
    BY <2>1, <2>2
<1>14. \A c \in Conn : ~lk'[c].conn => lk'[c].outqueue = <<>>
  BY <1>1, <1>3, <1>5 DEF Did
<1>15. cur' \in Conn => cur' = cur
  BY <1>1 DEF Moved
<1>16. X = {} \/ (i = Cli /\ p \in Conn) \/ (p = Cli /\ i = cur)
  BY <1>9 DEF X
<1>17. p \in Link /\ i # p /\ used'["put"] = used["put"]
  BY DEF p, Moved
<1> QED
  BY <1>7, <1>8, <1>12, <1>13, <1>14, <1>15, <1>16, <1>17, BooksMove

-----------------------------------------------------------------------------
(* Every step is one of three kinds *)

\* One link has an event; or nothing is sent or read; or a message is put.
Event(i) ==
    /\ ConnOf(i) \in Conn /\ Peer(i) \in Link /\ Peer(i) # i
    /\ \E l : Did(i, l) /\ Moved(i, l)

Still ==
    /\ \A j \in Link :
         /\ \/ lk'[j] = lk[j] \/ Quiet(lk[j], lk'[j])
            \/ Closes(j, lk[j], lk'[j]) /\ lk'[j].state = "INIT"
         /\ ~lk'[j].conn => lk'[j].state = "INIT"
         /\ net'[j] = net[j] \/ net'[j] = <<>>
    /\ \A c \in Conn : ~lk'[c].conn => lk'[c].outqueue = <<>>
    /\ cur' \in Conn => (cur' = cur \/ lk'[cur'].outqueue = <<>>)
    /\ used'["put"] = used["put"]

\* No link sends anything: the links keep their books or are closed, and
\* what is on a wire stays or is lost.
LEMMA StillBooks ==
    ASSUME LinksInv, BookInv, Still
    PROVE  BookInv'
<1>1. \A j \in Link : lk[j] \in LinkType /\ BookOf(lk[j])
                      /\ Below(lk[j].seen, Carried(net[j])) /\ Ascending(net[j])
  BY DEF LinksInv, TypeOK, BookInv
<1>2. \A j \in Link : Handled(lk[j], lk'[j]) /\ lk'[j].seen = lk[j].seen
  <2> SUFFICES ASSUME NEW j \in Link
               PROVE  Handled(lk[j], lk'[j]) /\ lk'[j].seen = lk[j].seen
    OBVIOUS
  <2>1. CASE lk'[j] = lk[j]
    BY <1>1, <2>1 DEF Handled
  <2>2. CASE Quiet(lk[j], lk'[j])
    <3>1. ~lk'[j].conn => lk'[j].state = "INIT"
      BY DEF Still
    <3> QED
      BY <1>1, <2>2, <3>1, QuietHandled DEF Quiet
  <2>3. CASE Closes(j, lk[j], lk'[j]) /\ lk'[j].state = "INIT"
    BY <1>1, <2>3, ClosesHandled DEF Closes
  <2> QED
    BY <2>1, <2>2, <2>3 DEF Still
<1>3. \A j \in Link : Came(j)' \subseteq Came(j)
  BY <1>2, CarriedNothing DEF Came, Still
<1>4. \A j \in Link : Below(lk'[j].seen, Carried(net'[j])) /\ Ascending(net'[j])
  BY <1>1, <1>2, CarriedNothing DEF Below, Still
<1>5. Cli \in Link
  BY DEF Link
<1>6. {} \subseteq Out(lk[Cli]) \cap Went(lk'[Cli]) /\ Below({}, Out(lk'[Cli]))
  BY DEF Below
<1> QED
  BY <1>2, <1>3, <1>4, <1>5, <1>6, BooksMove DEF Still

\* Requests, disconnections and the like are not puts.
LEMMA OtherSpend ==
    ASSUME LinksInv, NEW b \in Budget, b # "put", Spend(b)
    PROVE  used'["put"] = used["put"]
<1>1. used \in [Budget -> Nat] /\ "put" \in Budget
  BY DEF LinksInv, TypeOK, Budget
<1> QED
  BY <1>1 DEF Spend

\* A link that commits.
LEMMA CommitEvent ==
    ASSUME LinksInv, ConnInv, NEW i \in Link, lk[i].fd, NEW l \in LinkType, Commit(i, l),
           used'["put"] = used["put"],
           ~l.conn => l.state = "INIT" /\ (i \in Conn => l.outqueue = <<>>),
           \/ Quiet(lk[i], l)
           \/ Closes(i, lk[i], l) /\ l.state = "INIT"
           \/ \E n \in 0..Len(lk[i].outqueue) : Emits(lk[i], l, n)
    PROVE  Event(i)
<1>1. /\ ConnOf(i) \in Conn /\ Peer(i) \in Link /\ Peer(i) # i
      /\ PeerThere(i) /\ up[ConnOf(i)] <=> Together(ConnOf(i))
  BY Sends
<1>2. net'[i] = net[i] \/ net'[i] = <<>>
  BY <1>1 DEF Commit
<1>3. Did(i, l)
  BY <1>2 DEF Did
<1>4. Moved(i, l)
  BY <1>1 DEF Commit, Moved
<1> QED
  BY <1>1, <1>3, <1>4 DEF Event

\* A link that closes its connection.
LEMMA ClosingEvent ==
    ASSUME LinksInv, ConnInv, NEW i \in Link, lk[i].fd, used'["put"] = used["put"],
           Commit(i, LapDisconnected(i, lk[i]))
    PROVE  Event(i)
<1>1. lk[i] \in LinkType
  BY DEF LinksInv, TypeOK
<1> DEFINE l == LapDisconnected(i, lk[i])
<1>2. l \in LinkType /\ Closes(i, lk[i], l) /\ l.state = "INIT"
  BY <1>1, DisconnectedInv, DisconnectedCloses DEF LinkInv
<1> HIDE DEF l
<1>3. i \in Conn => l.outqueue = <<>>
  BY <1>2, ConnAssumption DEF Closes
<1>4. Commit(i, l)
  BY DEF l
<1> QED
  BY <1>2, <1>3, <1>4, CommitEvent

LEMMA LinkStepKinds ==
    ASSUME LinksInv, WireInv, BookInv, NEW i \in Link, LinkStep(i)
    PROVE  Event(i) \/ PutOutQueue(i)
<1>1. /\ LinkInv(lk[i]) /\ lk[i] \in LinkType /\ net[i] \in Seq(Frame)
      /\ CountInv(lk[i]) /\ Readable(lk[i], net[i], Seen) /\ ConnInv
      /\ lk[i].conn => lk[i].fd
      /\ BookOf(lk[i]) /\ (i \in Conn /\ ~lk[i].conn => lk[i].outqueue = <<>>)
      /\ lk[i].tx = <<>>
  BY DEF LinksInv, LinkInv, TypeOK, WireInv, WireOf, BookInv
<1>2. CASE Recv(i)
  <2> DEFINE f == Head(net[i])
             l == IncomingFrame(lk[i], f)
  <2>1. lk[i].conn /\ net[i] # <<>> /\ f \in Frame /\ lk[i].fd /\ Tail(net[i]) \in Seq(Frame)
    BY <1>1, <1>2 DEF Recv
  <2>2. Heard(lk[i], net[i], l)
    BY <1>1, <2>1, IncomingFrameMoves
  <2>3. l \in LinkType
    BY <1>1, <2>1, IncomingFrameInv DEF LinkInv
  <2>4. HearsFrame(lk[i], l, f)
    BY <1>1, <2>1, IncomingFrameHears
  <2>5. /\ ConnOf(i) \in Conn /\ Peer(i) \in Link /\ Peer(i) # i
        /\ PeerThere(i) /\ up[ConnOf(i)] <=> Together(ConnOf(i))
    BY <1>1, <2>1, Sends
  <2>6. /\ lk' = [lk EXCEPT ![i] = [l EXCEPT !.tx = <<>>]]
        /\ net'[i] = Tail(net[i])
        /\ \A j \in Link \ {i} :
             net'[j] = IF Together(ConnOf(i)) /\ j = Peer(i) THEN net[j] \o l.tx ELSE net[j]
        /\ cur' = cur /\ used' = used
    BY <1>2, <2>5 DEF Recv
  <2>7. l.conn
    BY <2>1, <2>2 DEF Heard
  <2> HIDE DEF l, f
  <2>8. Did(i, l)
    BY <2>1, <2>3, <2>4, <2>6, <2>7 DEF Did, f
  <2>9. Moved(i, l)
    BY <2>6 DEF Moved
  <2> QED
    BY <2>5, <2>8, <2>9 DEF Event
<1>3. CASE Send(i)
  <2>1. PICK fail \in Nat : Commit(i, LapRunOutQueue(lk[i], fail))
    BY <1>3, WindowAssumption, NAssumption DEF Send
  <2> DEFINE l == LapRunOutQueue(lk[i], fail)
  <2>2. lk[i].conn /\ used' = used /\ lk[i].state = "STARTED"
    BY <1>3 DEF Send, WantsPollOut
  <2>3. l \in LinkType
    BY <1>1, RunOutQueueInv DEF LinkInv
  <2>4. l.conn
    BY <1>1, <2>2, RunOutQueueMoves
  <2>5. \E n \in 0..Len(lk[i].outqueue) : Emits(lk[i], l, n)
    BY <1>1, <2>2, RunOutQueueEmits
  <2> HIDE DEF l
  <2>6. Commit(i, l)
    BY <2>1 DEF l
  <2> QED
    BY <1>1, <2>2, <2>3, <2>4, <2>5, <2>6, CommitEvent
<1>4. CASE ReadEof(i) \/ ReadError(i) \/ Disc(i)
  <2>1. lk[i].fd /\ Commit(i, LapDisconnected(i, lk[i])) /\ (used' = used \/ Spend("disc"))
    BY <1>1, <1>4 DEF ReadEof, ReadError, Disc, AtEof
  <2>2. used'["put"] = used["put"]
    BY <2>1, OtherSpend DEF Budget
  <2> QED
    BY <1>1, <2>1, <2>2, ClosingEvent
<1>5. CASE \E re \in BOOLEAN : ClockSc(i, re)
  <2>1. PICK re \in BOOLEAN : ClockSc(i, re)
    BY <1>5
  <2> DEFINE l == LapDoClockSc(i, lk[i], re)
  <2>2. l \in LinkType
    BY <1>1, ClockInv DEF LinkInv
  <2>3. \/ Quiet(lk[i], l) /\ l.conn = lk[i].conn /\ (~lk[i].conn => l.state = lk[i].state)
        \/ Closes(i, lk[i], l) /\ l.state = "INIT"
    BY <1>1, ClockBooks
  <2>4. lk[i].fd /\ Commit(i, l) /\ used' = used
    BY <2>1 DEF ClockSc
  <2> HIDE DEF l
  <2>5. ~l.conn => l.state = "INIT" /\ (i \in Conn => l.outqueue = <<>>)
    BY <1>1, <2>3, ConnAssumption DEF Quiet, Closes, BookOf
  <2> QED
    BY <1>1, <2>2, <2>3, <2>4, <2>5, CommitEvent
<1>6. CASE \E evt \in {"STARTDTact", "STOPDTact", "TESTFRact"} : Request(i, evt)
  <2>1. PICK evt : Request(i, evt)
    BY <1>6
  <2> DEFINE l == EventRequest(lk[i], evt)
  <2>2. lk[i].conn /\ Commit(i, l) /\ Spend("req")
    BY <2>1 DEF Request
  <2>3. Mute(lk[i], l)
    BY <1>1, EventRequestMute
  <2> HIDE DEF l
  <2>4. Quiet(lk[i], l) /\ l \in LinkType /\ l.conn
    BY <1>1, <2>2, <2>3, MuteQuiet DEF Mute, Calm
  <2>5. used'["put"] = used["put"]
    BY <2>2, OtherSpend DEF Budget
  <2> QED
    BY <1>1, <2>2, <2>4, <2>5, CommitEvent
<1> QED
  BY <1>2, <1>3, <1>4, <1>5, <1>6 DEF LinkStep

\* Connections come and go.
LEMMA ConnStepKinds ==
    ASSUME LinksInv, WireInv, BookInv, NEW c \in Conn, ConnStep(c)
    PROVE  Event(c) \/ Still
<1>1. /\ c \in Link /\ Cli \in Link /\ c # Cli /\ Conn \subseteq Link /\ NoConn \notin Conn
      /\ lk \in [Link -> LinkType] /\ net \in [Link -> Seq(Frame)]
      /\ ConnInv /\ lk[c] \in LinkType /\ lk[c].tx = <<>> /\ CountInv(lk[c])
      /\ \A j \in Link : LinkInv(lk[j]) /\ BookOf(lk[j])
      /\ \A d \in Conn : ~lk[d].conn => lk[d].outqueue = <<>>
  BY ConnAssumption DEF LinksInv, TypeOK, WireInv, WireOf, BookInv, Link
<1>2. ASSUME lk' = lk, \A j \in Link : net'[j] = net[j] \/ net'[j] = <<>>, cur' = cur,
             used'["put"] = used["put"]
      PROVE  Still
  BY <1>1, <1>2 DEF Still, BookOf
<1>3. CASE Handshake(c) \/ AcceptRefused(c) \/ Cut(c)
  <2>1. lk' = lk /\ cur' = cur /\ (used' = used \/ Spend("cut"))
    BY <1>3 DEF Handshake, AcceptRefused, Cut
  <2>2. \A j \in Link : net'[j] = net[j] \/ net'[j] = <<>>
    BY <1>1, <1>3 DEF Handshake, AcceptRefused, Cut
  <2>3. used'["put"] = used["put"]
    BY <2>1, OtherSpend DEF Budget
  <2> QED
    BY <1>2, <2>1, <2>2, <2>3
<1>4. CASE Dial(c)
  <2> DEFINE r == [lk[Cli] EXCEPT !.fd = TRUE, !.progAt = 0]
  <2>1. /\ Quiet(lk[Cli], r) /\ r.conn = lk[Cli].conn /\ r.state = lk[Cli].state
    BY <1>1 DEF LinkType, Quiet
  <2>2. /\ lk' = [lk EXCEPT ![Cli] = r]
        /\ net' = net /\ cur' = c /\ tcp[c] = "free" /\ Spend("dial")
    BY <1>1, <1>4 DEF Dial
  <2> HIDE DEF r
  <2>3. lk'[Cli] = r /\ \A j \in Link : j # Cli => lk'[j] = lk[j]
    BY <1>1, <2>2
  <2>4. lk'[c].outqueue = <<>>
    BY <1>1, <2>2, <2>3 DEF ConnInv, LinkInv
  <2>5. used'["put"] = used["put"]
    BY <2>2, OtherSpend DEF Budget
  <2>6. \A j \in Link : /\ lk'[j] = lk[j] \/ Quiet(lk[j], lk'[j])
                        /\ ~lk'[j].conn => lk'[j].state = "INIT"
    <3>1. \A j \in Link : ~lk[j].conn => lk[j].state = "INIT"
      BY <1>1 DEF BookOf
    <3>2. ~r.conn => r.state = "INIT"
      BY <1>1, <2>1, <3>1
    <3> TAKE j \in Link
    <3>3. CASE j = Cli
      <4>1. lk'[j] = r /\ Quiet(lk[j], lk'[j])
        BY <2>1, <2>3, <3>3
      <4> QED
        BY <3>2, <4>1
    <3>4. CASE j # Cli
      <4>1. lk'[j] = lk[j]
        BY <2>3, <3>4
      <4> QED
        BY <3>1, <4>1
    <3> QED
      BY <3>3, <3>4
  <2>7. \A d \in Conn : ~lk'[d].conn => lk'[d].outqueue = <<>>
    BY <1>1, <2>3, ConnAssumption
  <2> QED
    BY <2>2, <2>4, <2>5, <2>6, <2>7 DEF Still
<1>5. CASE PollMarked(c)
  <2>1. lk[c].fd /\ used' = used /\ Commit(c, LapDisconnected(c, lk[c]))
    BY <1>1, <1>5 DEF PollMarked, ConnInv
  <2> QED
    BY <1>1, <2>1, ClosingEvent
<1>6. CASE Accept(c)
  <2> DEFINE k == LapReset(lk[c], TRUE)
             q == [k EXCEPT !.fd = TRUE, !.conn = TRUE]
             l == EventConnected(c, q)
  <2>1. /\ tcp[c] = "backlog"
        /\ lk' = [lk EXCEPT ![c] = [l EXCEPT !.tx = <<>>]]
        /\ net' = IF cur = c /\ up[c] THEN [net EXCEPT ![Cli] = @ \o l.tx] ELSE net
        /\ cur' = cur /\ used' = used
    BY <1>6 DEF Accept
  <2>2. ~lk[c].conn /\ lk[c].outqueue = <<>> /\ lk[c].ackqueue = <<>>
    <3>1. ~lk[c].conn
      BY <1>1, <2>1 DEF ConnInv, LinkInv
    <3> QED
      BY <1>1, <3>1 DEF CountInv
  <2>3. k \in LinkType /\ Quiet(lk[c], k)
    <3>1. k \in LinkType /\ k.tx = lk[c].tx
      BY <1>1, ResetInv DEF LinkInv
    <3>2. /\ k.outqueue = <<>> /\ k.ackqueue = <<>> /\ k.acked = lk[c].acked
          /\ k.acklost = lk[c].acklost /\ k.seen = lk[c].seen
          /\ k.purged = lk[c].purged \cup Elems(lk[c].outqueue)
      BY DEF LapReset, NewLink
    <3> HIDE DEF k
    <3>3. Elems(lk[c].outqueue) = {}
      BY <2>2, EmptyNames
    <3> QED
      BY <2>2, <3>1, <3>2, <3>3 DEF Quiet
  <2> HIDE DEF k
  <2>4. q \in LinkType /\ Quiet(k, q) /\ q.conn
    BY <2>3 DEF LinkType, Quiet
  <2> HIDE DEF q
  <2>5. Mute(q, l)
    BY <2>4, EventConnectedMute
  <2>6. l \in LinkType /\ Quiet(q, l) /\ l.conn
    BY <2>4, <2>5, MuteQuiet DEF Mute, Calm
  <2> HIDE DEF l
  <2>7. Quiet(lk[c], l)
    BY <2>3, <2>4, <2>6, QuietTwice
  <2>8. ConnOf(c) = c /\ Peer(c) = Cli /\ (Together(c) <=> cur = c /\ up[c])
    BY <1>1, <2>1 DEF ConnOf, Peer, Together
  <2>9. Moved(c, l)
    BY <1>1, <2>1, <2>8 DEF Moved
  <2>10. Did(c, l)
    BY <1>1, <2>1, <2>6, <2>7 DEF Did
  <2> QED
    BY <1>1, <2>8, <2>9, <2>10 DEF Event
<1> QED
  BY <1>3, <1>4, <1>5, <1>6 DEF ConnStep

LEMMA NextKinds ==
    ASSUME LinksInv, WireInv, BookInv, [Next]_vars
    PROVE  (\E i \in Link : Event(i)) \/ Still \/ (\E i \in Link : PutOutQueue(i))
<1>1. /\ Cli \in Link /\ Conn \subseteq Link /\ Cli \notin Conn
      /\ lk \in [Link -> LinkType] /\ net \in [Link -> Seq(Frame)]
      /\ ConnInv /\ \A j \in Link : BookOf(lk[j]) /\ lk[j] \in LinkType
      /\ \A d \in Conn : ~lk[d].conn => lk[d].outqueue = <<>>
  BY ConnAssumption DEF LinksInv, TypeOK, WireInv, BookInv, Link
<1>2. CASE ConnectDone
  <2> DEFINE q == [lk[Cli] EXCEPT !.conn = TRUE, !.progAt = Off]
             l == EventConnected(Cli, q)
  <2>1. lk[Cli].fd /\ Commit(Cli, l) /\ used' = used
    BY <1>2 DEF ConnectDone
  <2>2. q \in LinkType /\ Quiet(lk[Cli], q) /\ q.conn
    <3>1. Off \in Timer(CnxDelay) /\ lk[Cli] \in LinkType
      BY <1>1 DEF Timer, CnxDelay, Off
    <3>2. q \in LinkType /\ q.conn
      BY <3>1 DEF LinkType
    <3>3. Quiet(lk[Cli], q)
      BY <3>1 DEF LinkType, Quiet
    <3> QED
      BY <3>2, <3>3
  <2> HIDE DEF q
  <2>3. Mute(q, l)
    BY <2>2, EventConnectedMute
  <2>4. l \in LinkType /\ Quiet(q, l) /\ l.conn
    BY <2>2, <2>3, MuteQuiet DEF Mute, Calm
  <2> HIDE DEF l
  <2>5. Quiet(lk[Cli], l)
    BY <2>2, <2>4, QuietTwice
  <2> QED
    BY <1>1, <2>1, <2>4, <2>5, CommitEvent
<1>3. CASE ConnectRejected
  <2>1. lk[Cli].fd /\ used' = used /\ Commit(Cli, LapDisconnected(Cli, lk[Cli]))
    BY <1>3 DEF ConnectRejected
  <2> QED
    BY <1>1, <2>1, ClosingEvent
<1>4. CASE \E nice \in BOOLEAN : CloseBind(nice)
  <2>1. PICK nice \in BOOLEAN : CloseBind(nice)
    BY <1>4
  <2>2. /\ cur' = cur /\ Spend("bind")
        /\ \A i \in Link : net'[i] = IF i \in Conn /\ tcp[i] = "backlog" THEN <<>> ELSE net[i]
        /\ \A i \in Link : lk'[i] = IF nice /\ i # Cli /\ lk[i].fd
                                    THEN [lk[i] EXCEPT !.tobedisc = TRUE] ELSE lk[i]
    BY <2>1 DEF CloseBind
  <2>3. \A i \in Link : Quiet(lk[i], lk'[i]) /\ lk'[i].conn = lk[i].conn /\ lk'[i].state = lk[i].state
    <3>1. ASSUME NEW l \in LinkType, NEW r, r = [l EXCEPT !.tobedisc = TRUE]
          PROVE  Quiet(l, r) /\ r.conn = l.conn /\ r.state = l.state
      BY <3>1 DEF LinkType, Quiet
    <3>2. ASSUME NEW i \in Link, NEW l \in LinkType, l = lk[i]
          PROVE  Quiet(l, lk'[i]) /\ lk'[i].conn = l.conn /\ lk'[i].state = l.state
      <4>1. CASE nice /\ i # Cli /\ lk[i].fd
        BY <2>2, <3>1, <3>2, <4>1
      <4>2. CASE ~(nice /\ i # Cli /\ lk[i].fd)
        BY <2>2, <3>2, <4>2 DEF Quiet
      <4> QED
        BY <4>1, <4>2
    <3> QED
      BY <1>1, <3>2
  <2>4. used'["put"] = used["put"]
    BY <2>2, OtherSpend DEF Budget
  <2>5. \A c \in Conn : ~lk'[c].conn => lk'[c].outqueue = <<>>
    BY <1>1, <2>3 DEF Quiet
  <2>6. \A j \in Link : ~lk'[j].conn => lk'[j].state = "INIT"
    BY <1>1, <2>3 DEF BookOf
  <2> QED
    BY <2>2, <2>3, <2>4, <2>5, <2>6 DEF Still
<1>5. CASE CloseBindNow
  <2>1. /\ cur' = cur /\ Spend("bind")
        /\ \A i \in Link : net'[i] = IF i \in Conn THEN <<>> ELSE net[i]
        /\ \A i \in Link : lk'[i] = IF i # Cli /\ lk[i].fd THEN LapDisconnected(i, lk[i]) ELSE lk[i]
    BY <1>5 DEF CloseBindNow
  <2>2. \A i \in Link : /\ \/ lk'[i] = lk[i]
                           \/ Closes(i, lk[i], lk'[i]) /\ lk'[i].state = "INIT"
                        /\ ~lk'[i].conn => lk'[i].state = "INIT"
    <3> TAKE i \in Link
    <3>1. Closes(i, lk[i], LapDisconnected(i, lk[i])) /\ LapDisconnected(i, lk[i]).state = "INIT"
      BY <1>1, DisconnectedCloses
    <3>2. lk'[i] = LapDisconnected(i, lk[i]) \/ lk'[i] = lk[i]
      BY <2>1
    <3>3. lk'[i] = lk[i] => (~lk'[i].conn => lk'[i].state = "INIT")
      BY <1>1 DEF BookOf
    <3>4. CASE lk'[i] = lk[i]
      BY <3>3, <3>4
    <3>5. CASE lk'[i] = LapDisconnected(i, lk[i])
      <4>1. Closes(i, lk[i], lk'[i]) /\ lk'[i].state = "INIT"
        BY <3>1, <3>5
      <4> QED
        BY <4>1
    <3> QED
      BY <3>2, <3>4, <3>5
  <2>3. \A c \in Conn : ~lk'[c].conn => lk'[c].outqueue = <<>>
    <3> SUFFICES ASSUME NEW c \in Conn, ~lk'[c].conn
                 PROVE  lk'[c].outqueue = <<>>
      OBVIOUS
    <3>1. c \in Link /\ c # Cli
      BY <1>1
    <3>2. lk'[c] = lk[c] \/ Closes(c, lk[c], lk'[c])
      BY <2>2, <3>1
    <3> QED
      BY <1>1, <3>1, <3>2 DEF Closes
  <2>4. used'["put"] = used["put"]
    BY <2>1, OtherSpend DEF Budget
  <2> QED
    BY <2>1, <2>2, <2>3, <2>4 DEF Still
<1>6. CASE OpenBind \/ UNCHANGED vars
  <2>1. lk' = lk /\ net' = net /\ cur' = cur /\ used' = used
    BY <1>6 DEF OpenBind, vars
  <2> QED
    BY <1>1, <2>1 DEF Still, BookOf
<1>7. CASE \E c \in Conn : ConnStep(c)
  BY <1>1, <1>7, ConnStepKinds
<1>8. CASE \E i \in Link : LinkStep(i)
  BY <1>8, LinkStepKinds
<1> QED
  BY <1>2, <1>3, <1>4, <1>5, <1>6, <1>7, <1>8 DEF Next

\* rtl_LapPutOutQueue: the new message is the last one put.
LEMMA PutBooks ==
    ASSUME LinksInv, LinksInv', WireInv, BookInv, NEW i \in Link, PutOutQueue(i)
    PROVE  BookInv'
<1> DEFINE m == used["put"] + 1
           r == [lk[i] EXCEPT !.outqueue = Append(lk[i].outqueue, m)]
<1>1. /\ lk \in [Link -> LinkType] /\ lk[i] \in LinkType /\ used \in [Budget -> Nat]
      /\ Conn \subseteq Link /\ Cli \in Link /\ Cli \notin Conn /\ "put" \in Budget
      /\ BookOf(lk[i]) /\ \A j \in Link : BookOf(lk[j])
  BY ConnAssumption DEF LinksInv, TypeOK, BookInv, Budget, Link
<1>2. PICK u \in Nat : u = used["put"]
  BY <1>1
<1>3. m = u + 1 /\ m \in Msg
  <2>1. Left("put")
    BY DEF PutOutQueue
  <2> QED
    BY <1>2, <2>1, PutMsg DEF LinksInv
<1>4. /\ lk[i].state = "STARTED" /\ lk' = [lk EXCEPT ![i] = r]
      /\ net' = net /\ cur' = cur /\ used' = [used EXCEPT !["put"] = used["put"] + 1]
  BY <1>1 DEF PutOutQueue, Spend
<1>5. used'["put"] = m /\ 1..m = (1..u) \cup {m} /\ m \notin 1..u /\ \A x \in 1..u : x < m
  <2>1. used'["put"] = m
    BY <1>1, <1>4
  <2> QED
    BY <1>2, <1>3, <2>1
<1>6. PICK o \in Seq(Msg) : o = lk[i].outqueue
  BY <1>1, BookTypes
<1>7. PICK p \in Seq(Msg) : p = <<m>> /\ Append(o, m) = o \o p
  <2>1. Append(o, m) = o \o <<m>> /\ <<m>> \in Seq(Msg)
    BY <1>3, <1>6
  <2> QED
    BY <2>1
<1>8. Elems(p) = {m} /\ Rising(p)
  BY <1>7 DEF Elems, Rising
<1> HIDE DEF m
<1>9. /\ r.outqueue = o \o p /\ r.ackqueue = lk[i].ackqueue /\ r.acked = lk[i].acked
      /\ r.acklost = lk[i].acklost /\ r.purged = lk[i].purged /\ r.seen = lk[i].seen
      /\ r.conn = lk[i].conn /\ r.state = lk[i].state
  BY <1>1, <1>6, <1>7 DEF LinkType
<1> HIDE DEF r
<1>10. lk'[i] = r /\ \A j \in Link : j # i => lk'[j] = lk[j]
  BY <1>1, <1>4
<1>11. \A j \in Link : Known(lk[j]) \subseteq 1..u
  BY <1>2 DEF BookInv
<1>12. \A j \in Link : /\ Out(lk[j]) \subseteq 1..u /\ Went(lk[j]) \subseteq 1..u
                       /\ Wait(lk[j]) \subseteq 1..u /\ lk[j].purged \subseteq 1..u
                       /\ Came(j) \subseteq 1..u
  <2>1. \A j \in Link : Went(lk[j]) \subseteq 1..u
    BY <1>11 DEF Known
  <2>2. \A j \in Link : Came(j) \subseteq 1..u
    BY <2>1 DEF BookInv
  <2> QED
    BY <1>11, <2>1, <2>2 DEF Known, Went
<1>13. Rising(o \o p) /\ Elems(o \o p) = Elems(o) \cup {m}
  <2>1. Below(Elems(o), Elems(p))
    BY <1>5, <1>6, <1>8, <1>12 DEF Below, Out
  <2> QED
    BY <1>1, <1>6, <1>8, <2>1, JoinRising DEF BookOf
<1>14. /\ Out(r) = Out(lk[i]) \cup {m} /\ Wait(r) = Wait(lk[i]) /\ Went(r) = Went(lk[i])
       /\ Known(r) = Known(lk[i]) \cup {m}
  BY <1>6, <1>9, <1>13 DEF Out, Wait, Went, Known
<1>15. BookOf(r)
  <2>1. Out(r) \cap Went(r) = {} /\ Out(r) \cap r.purged = {} /\ Went(r) \cap r.purged = {}
    BY <1>1, <1>5, <1>9, <1>12, <1>14 DEF BookOf
  <2>2. Below(Wait(r), Out(r))
    BY <1>1, <1>5, <1>12, <1>14 DEF BookOf, Below
  <2> QED
    BY <1>1, <1>9, <1>13, <1>14, <2>1, <2>2 DEF BookOf
<1>16. \A j \in Link : BookOf(lk'[j])
  BY <1>1, <1>10, <1>15
<1>17. \A c \in Conn : ~lk'[c].conn => lk'[c].outqueue = <<>>
  <2>1. lk[i].conn
    BY <1>1, <1>4 DEF BookOf
  <2> QED
    BY <1>1, <1>9, <1>10, <2>1 DEF BookInv
<1>18. \A j, k \in Link : j # k => Known(lk'[j]) \cap Known(lk'[k]) = {}
  BY <1>5, <1>10, <1>11, <1>14 DEF BookInv
<1>19. UNION {Known(lk'[j]) : j \in Link} = 1..used'["put"]
  <2>1. UNION {Known(lk'[j]) : j \in Link} = (UNION {Known(lk[j]) : j \in Link}) \cup {m}
    BY <1>10, <1>14
  <2> QED
    BY <1>2, <1>5, <2>1 DEF BookInv
<1>20. \A j \in Link : Came(j)' = Came(j) /\ Went(lk'[j]) = Went(lk[j]) /\ lk'[j].seen = lk[j].seen
  BY <1>4, <1>9, <1>10, <1>14 DEF Came
<1>21. \A j \in Link : /\ Came(j)' \subseteq UNION {Went(lk'[k]) : k \in Link \ {j}}
                       /\ Below(lk'[j].seen, Carried(net'[j]))
                       /\ Ascending(net'[j])
  BY <1>4, <1>20 DEF BookInv
<1>22. \A j, k \in Link : j # k => Came(j)' \cap Came(k)' = {}
  BY <1>20 DEF BookInv
<1>23. \A j \in Link, k \in Link : Below(Came(j), Out(lk[k])) => Below(Came(j)', Out(lk'[k]))
  <2> TAKE j \in Link, k \in Link
  <2>1. Out(lk'[k]) \subseteq Out(lk[k]) \cup {m}
    BY <1>10, <1>14
  <2> QED
    BY <2>1, <1>5, <1>12, <1>20 DEF Below
<1>24. \A c \in Conn : /\ Below(Came(c)', Out(lk'[Cli]))
                       /\ cur' = c => Below(Came(Cli)', Out(lk'[c]))
  BY <1>1, <1>4, <1>23 DEF BookInv
<1> QED
  BY <1>16, <1>17, <1>18, <1>19, <1>21, <1>22, <1>24 DEF BookInv

LEMMA NextBooks ==
    ASSUME LinksInv, LinksInv', WireInv, BookInv, [Next]_vars
    PROVE  BookInv'
<1>1. CASE \E i \in Link : Event(i)
  <2>1. PICK i \in Link : Event(i)
    BY <1>1
  <2> QED
    BY <2>1, MovedBooks DEF Event
<1> QED
  BY <1>1, NextKinds, StillBooks, PutBooks

LEMMA InitBooks ==
    ASSUME Init
    PROVE  BookInv
<1>1. /\ \A j \in Link : lk[j] = NewLink /\ net[j] = <<>>
      /\ used["put"] = 0 /\ Cli \in Link
  BY DEF Init, Budget, Link
<1>2. /\ NewLink.outqueue = <<>> /\ NewLink.ackqueue = <<>> /\ NewLink.acked = {}
      /\ NewLink.acklost = {} /\ NewLink.purged = {} /\ NewLink.seen = {}
      /\ NewLink.state = "INIT" /\ ~NewLink.conn
  BY DEF NewLink
<1>3. Out(NewLink) = {} /\ Wait(NewLink) = {} /\ Went(NewLink) = {} /\ Known(NewLink) = {}
  BY <1>2, EmptyNames DEF Out, Wait, Went, Known
<1>4. BookOf(NewLink)
  BY <1>2, <1>3, EmptyNames DEF BookOf, Below
<1>5. \A j \in Link : Came(j) = {}
  BY <1>1, <1>2, CarriedNothing DEF Came
<1>6. UNION {Known(lk[j]) : j \in Link} = 1..used["put"]
  <2>1. 1..0 = {}
    OBVIOUS
  <2> QED
    BY <1>1, <1>3, <2>1
<1> QED
  BY <1>1, <1>2, <1>3, <1>4, <1>5, <1>6, CarriedNothing DEF BookInv, Below, Link

-----------------------------------------------------------------------------
(* What the books say of the runs' properties *)

\* The books of the links, for every number of connections, messages and
\* disconnections (BookInv).
THEOREM BookInvariance == Spec => [](LinksInv /\ WireInv /\ BookInv)
<1>1. Init => LinksInv /\ WireInv /\ BookInv
  BY InitInv, InitWire, InitBooks
<1>2. LinksInv /\ WireInv /\ BookInv /\ [Next]_vars => (LinksInv /\ WireInv /\ BookInv)'
  BY NextInv, NextWire, NextBooks
<1> QED
  BY <1>1, <1>2, PTL DEF Spec

\* The books have a message that was put in one place.
LEMMA OnePlace ==
    ASSUME LinksInv, BookInv, NEW m \in 1..used["put"]
    PROVE  Cardinality(Places(m)) = 1
<1>1. PICK i \in Link : m \in Known(lk[i])
  BY DEF BookInv
<1>2. \A k \in Link : k # i => m \notin Known(lk[k])
  BY <1>1 DEF BookInv
<1>3. \A k \in Link : AckMsgs(lk[k].ackqueue) = Wait(lk[k])
  BY NamesType DEF LinksInv, TypeOK, LinkType, Wait
<1>4. \A k \in Link : \/ m \in Elems(lk[k].outqueue) \/ m \in AckMsgs(lk[k].ackqueue)
                      \/ m \in lk[k].acked \/ m \in lk[k].acklost \/ m \in lk[k].purged
                      => k = i
  BY <1>2, <1>3 DEF Known, Went, Out
<1>5. BookOf(lk[i])
  BY DEF BookInv
<1>6. \E tag : Places(m) = {<<i, tag>>}
  <2>1. CASE m \in Out(lk[i])
    <3>1. m \notin Wait(lk[i]) /\ m \notin lk[i].acked /\ m \notin lk[i].acklost
          /\ m \notin lk[i].purged
      BY <1>5, <2>1 DEF BookOf, Went
    <3>2. Places(m) = {<<i, "out">>}
      BY <1>3, <1>4, <2>1, <3>1 DEF Places, Out
    <3> QED
      BY <3>2
  <2>2. CASE m \in Wait(lk[i])
    <3>1. m \notin Out(lk[i]) /\ m \notin lk[i].acked /\ m \notin lk[i].acklost
          /\ m \notin lk[i].purged
      BY <1>5, <2>2 DEF BookOf, Went
    <3>2. Places(m) = {<<i, "ack">>}
      BY <1>3, <1>4, <2>2, <3>1 DEF Places, Out
    <3> QED
      BY <3>2
  <2>3. CASE m \in lk[i].acked
    <3>1. m \notin Out(lk[i]) /\ m \notin Wait(lk[i]) /\ m \notin lk[i].acklost
          /\ m \notin lk[i].purged
      BY <1>5, <2>3 DEF BookOf, Went
    <3>2. Places(m) = {<<i, "acked">>}
      BY <1>3, <1>4, <2>3, <3>1 DEF Places, Out
    <3> QED
      BY <3>2
  <2>4. CASE m \in lk[i].acklost
    <3>1. m \notin Out(lk[i]) /\ m \notin Wait(lk[i]) /\ m \notin lk[i].acked
          /\ m \notin lk[i].purged
      BY <1>5, <2>4 DEF BookOf, Went
    <3>2. Places(m) = {<<i, "lost">>}
      BY <1>3, <1>4, <2>4, <3>1 DEF Places, Out
    <3> QED
      BY <3>2
  <2>5. CASE m \in lk[i].purged
    <3>1. m \notin Out(lk[i]) /\ m \notin Wait(lk[i]) /\ m \notin lk[i].acked
          /\ m \notin lk[i].acklost
      BY <1>5, <2>5 DEF BookOf, Went
    <3>2. Places(m) = {<<i, "purged">>}
      BY <1>3, <1>4, <2>5, <3>1 DEF Places, Out
    <3> QED
      BY <3>2
  <2> QED
    BY <1>1, <2>1, <2>2, <2>3, <2>4, <2>5 DEF Known, Went
<1> QED
  BY <1>6, FS_Singleton

\* A message that was put is in exactly one place (Accounted).
THEOREM AccountedCorrect == Spec => []Accounted
<1>1. LinksInv /\ BookInv => Accounted
  BY OnePlace DEF Accounted
<1> QED
  BY <1>1, BookInvariance, PTL

-----------------------------------------------------------------------------
(* The links keep what Delivery promises *)

LEMMA ToSetIs == \A s \in Seq(Msg) : Promise!ToSet(s) = Elems(s)
<1> TAKE s \in Seq(Msg)
<1>1. DOMAIN s = 1..Len(s)
  OBVIOUS
<1> QED
  BY <1>1 DEF Promise!ToSet, Elems

LEMMA HoldsType ==
    ASSUME LinksInv, NEW i \in Link
    PROVE  /\ Holds(i) \in Seq(Msg) /\ Len(Holds(i)) \in Nat
           /\ Names(lk[i].ackqueue) \in Seq(Msg) /\ lk[i].outqueue \in Seq(Msg)
           /\ Len(Names(lk[i].ackqueue)) = Len(lk[i].ackqueue)
           /\ Elems(Holds(i)) = Wait(lk[i]) \cup Out(lk[i])
<1>1. /\ Names(lk[i].ackqueue) \in Seq(Msg) /\ lk[i].outqueue \in Seq(Msg)
      /\ Len(Names(lk[i].ackqueue)) = Len(lk[i].ackqueue)
  BY BookTypes DEF LinksInv, TypeOK
<1>2. Holds(i) \in Seq(Msg) /\ Elems(Holds(i)) = Wait(lk[i]) \cup Out(lk[i])
  BY <1>1, JoinRising DEF Holds, Wait, Out
<1> QED
  BY <1>1, <1>2, LenProperties

\* Cutting a queue inside the first of two that are joined.
LEMMA CutJoined ==
    ASSUME NEW q \in Seq(Msg), NEW o \in Seq(Msg), NEW n \in 0..Len(q)
    PROVE  /\ n \in 0..Len(q \o o)
           /\ SubSeq(q \o o, 1, n) = SubSeq(q, 1, n)
           /\ SubSeq(q \o o, n+1, Len(q \o o)) = SubSeq(q, n+1, Len(q)) \o o
<1>1. PICK k \in Nat : k = Len(q)
  BY LenProperties
<1>2. PICK d \in Nat : d = Len(o)
  BY LenProperties
<1>3. PICK j \in Seq(Msg) : j = q \o o
  BY JoinedMsgs
<1>4. Len(j) = k + d /\ \A a \in 1..(k + d) : j[a] = IF a <= k THEN q[a] ELSE o[a - k]
  BY <1>1, <1>2, <1>3, JoinedMsgs
<1>5. n \in 0..k /\ n \in 0..(k + d)
  BY <1>1
<1>6. PICK c \in Nat : c = k - n
  BY <1>5
<1>7. c + d = (k + d) - n
  BY <1>5, <1>6
<1>8. n \in 0..Len(j)
  BY <1>4, <1>5
<1>9. PICK x \in Seq(Msg) : x = SubSeq(j, 1, n)
  BY <1>8, CutMsgs
<1>10. Len(x) = n /\ \A a \in 1..n : x[a] = j[a]
  BY <1>8, <1>9, CutMsgs
<1>11. PICK y \in Seq(Msg) : y = SubSeq(q, 1, n)
  BY CutMsgs
<1>12. Len(y) = n /\ \A a \in 1..n : y[a] = q[a]
  BY <1>11, CutMsgs
<1>13. x = y
  <2>1. \A a \in 1..n : a \in 1..(k + d) /\ a <= k
    BY <1>5
  <2>2. \A a \in 1..n : x[a] = y[a]
    BY <2>1, <1>4, <1>10, <1>12
  <2> QED
    BY <2>2, <1>10, <1>12, SameMsgs
<1>14. PICK s \in Seq(Msg) : s = SubSeq(j, n+1, Len(j))
  BY <1>8, CutMsgs
<1>15. Len(s) = c + d /\ \A a \in 1..(c + d) : s[a] = j[n + a]
  <2>1. Len(s) = Len(j) - n /\ \A a \in 1..(Len(j) - n) : s[a] = j[n + a]
    BY <1>8, <1>14, CutMsgs
  <2> QED
    BY <2>1, <1>4, <1>7
<1>16. PICK t \in Seq(Msg) : t = SubSeq(q, n+1, Len(q))
  BY CutMsgs
<1>17. Len(t) = c /\ \A a \in 1..c : t[a] = q[n + a]
  <2>1. Len(t) = Len(q) - n /\ \A a \in 1..(Len(q) - n) : t[a] = q[n + a]
    BY <1>16, CutMsgs
  <2> QED
    BY <2>1, <1>1, <1>6
<1>18. PICK u \in Seq(Msg) : u = t \o o
  BY JoinedMsgs
<1>19. Len(u) = c + d /\ \A a \in 1..(c + d) : u[a] = IF a <= c THEN t[a] ELSE o[a - c]
  BY <1>2, <1>17, <1>18, JoinedMsgs
<1>20. ASSUME NEW a \in 1..(c + d)
       PROVE  s[a] = u[a]
  <2>1. PICK b \in 1..(k + d) : b = n + a
    BY <1>5, <1>6
  <2>2. s[a] = j[b]
    BY <1>15, <2>1
  <2>3. CASE a <= c
    <3>1. a \in 1..c /\ b <= k
      BY <1>5, <1>6, <2>1, <2>3
    <3> QED
      BY <2>1, <2>2, <2>3, <3>1, <1>4, <1>17, <1>19
  <2>4. CASE ~(a <= c)
    <3>1. ~(b <= k) /\ b - k = a - c
      BY <1>5, <1>6, <2>1, <2>4
    <3> QED
      BY <2>2, <2>4, <3>1, <1>4, <1>19
  <2> QED
    BY <2>3, <2>4
<1>21. s = u
  BY <1>15, <1>19, <1>20, SameMsgs
<1> QED
  BY <1>3, <1>8, <1>9, <1>11, <1>13, <1>14, <1>16, <1>18, <1>21

\* Moving messages from the front of the second queue to the back of the
\* first leaves the two joined as they were.
LEMMA MoveJoined ==
    ASSUME NEW q \in Seq(Msg), NEW o \in Seq(Msg), NEW n \in 0..Len(o)
    PROVE  (q \o SubSeq(o, 1, n)) \o SubSeq(o, n+1, Len(o)) = q \o o
<1>1. PICK k \in Nat : k = Len(q)
  BY LenProperties
<1>2. PICK d \in Nat : d = Len(o)
  BY LenProperties
<1>3. n \in 0..d
  BY <1>2
<1>4. PICK c \in Nat : c = d - n
  BY <1>3
<1>5. PICK e \in Nat : e = k + n
  BY <1>3
<1>6. e + c = k + d
  BY <1>3, <1>4, <1>5
<1>7. PICK x \in Seq(Msg) : x = SubSeq(o, 1, n)
  BY CutMsgs
<1>8. Len(x) = n /\ \A a \in 1..n : x[a] = o[a]
  BY <1>7, CutMsgs
<1>9. PICK y \in Seq(Msg) : y = SubSeq(o, n+1, Len(o))
  BY CutMsgs
<1>10. Len(y) = c /\ \A a \in 1..c : y[a] = o[n + a]
  <2>1. Len(y) = Len(o) - n /\ \A a \in 1..(Len(o) - n) : y[a] = o[n + a]
    BY <1>9, CutMsgs
  <2> QED
    BY <2>1, <1>2, <1>4
<1>11. PICK t \in Seq(Msg) : t = q \o x
  BY JoinedMsgs
<1>12. Len(t) = e /\ \A a \in 1..e : t[a] = IF a <= k THEN q[a] ELSE x[a - k]
  <2>1. /\ Len(t) = Len(q) + Len(x)
        /\ \A a \in 1..(Len(q) + Len(x)) : t[a] = IF a <= Len(q) THEN q[a] ELSE x[a - Len(q)]
    BY <1>11, JoinedMsgs
  <2>2. Len(q) + Len(x) = e
    BY <1>1, <1>5, <1>8
  <2> QED
    BY <2>1, <2>2, <1>1
<1>13. PICK s \in Seq(Msg) : s = t \o y
  BY JoinedMsgs
<1>14. Len(s) = e + c /\ \A a \in 1..(e + c) : s[a] = IF a <= e THEN t[a] ELSE y[a - e]
  BY <1>10, <1>12, <1>13, JoinedMsgs
<1>15. PICK u \in Seq(Msg) : u = q \o o
  BY JoinedMsgs
<1>16. Len(u) = k + d /\ \A a \in 1..(k + d) : u[a] = IF a <= k THEN q[a] ELSE o[a - k]
  BY <1>1, <1>2, <1>15, JoinedMsgs
<1>17. ASSUME NEW a \in 1..(k + d)
       PROVE  s[a] = u[a]
  <2>1. a \in 1..(e + c)
    BY <1>6
  <2>2. CASE a <= k
    <3>1. a \in 1..e /\ a <= e
      BY <1>3, <1>5, <2>2
    <3> QED
      BY <2>1, <2>2, <3>1, <1>12, <1>14, <1>16
  <2>3. CASE ~(a <= k) /\ a <= e
    <3>1. PICK b \in 1..n : b = a - k
      BY <1>3, <1>5, <2>3
    <3>2. a \in 1..e
      BY <2>3
    <3> QED
      BY <2>1, <2>3, <3>1, <3>2, <1>8, <1>12, <1>14, <1>16
  <2>4. CASE ~(a <= e)
    <3>1. PICK b \in 1..c : b = a - e
      BY <1>6, <2>4
    <3>2. ~(a <= k) /\ n + b = a - k
      BY <1>3, <1>5, <2>4, <3>1
    <3> QED
      BY <2>1, <2>4, <3>1, <3>2, <1>10, <1>14, <1>16
  <2> QED
    BY <2>2, <2>3, <2>4
<1>18. s = u
  BY <1>6, <1>14, <1>16, <1>17, SameMsgs
<1> QED
  BY <1>7, <1>9, <1>11, <1>13, <1>15, <1>18

\* Messages in rising order are no more than there are messages.
LEMMA RisingLength ==
    ASSUME NEW q \in Seq(Msg), Rising(q)
    PROVE  Len(q) \in 0..Cardinality(Msg)
<1>1. PICK k \in Nat : k = Len(q)
  BY LenProperties
<1>2. q \in [1..k -> Msg]
  BY <1>1
<1>3. ASSUME NEW a \in 1..k, NEW b \in 1..k, q[a] = q[b]
      PROVE  a = b
  <2>1. q[a] \in Nat
    BY <1>2, BoundAssumption DEF Msg
  <2>2. ~(a < b) /\ ~(b < a)
    BY <1>1, <1>3, <2>1 DEF Rising
  <2> QED
    BY <2>2
<1>4. q \in Injection(1..k, Msg)
  BY <1>2, <1>3, Fun_IsInj
<1>5. IsFiniteSet(Msg) /\ Cardinality(Msg) \in Nat
  BY BoundAssumption, FS_Interval, FS_CardinalityType DEF Msg
<1>6. Cardinality(1..k) <= Cardinality(Msg)
  BY <1>4, <1>5, FS_Injection
<1>7. Cardinality(1..k) = k
  BY FS_Interval
<1> QED
  BY <1>1, <1>5, <1>6, <1>7

\* What a link holds is in the order of the puts.
LEMMA HoldsRising ==
    ASSUME LinksInv, BookInv, NEW i \in Link
    PROVE  Rising(Holds(i)) /\ Len(Holds(i)) \in 0..Cardinality(Msg)
<1>1. BookOf(lk[i])
  BY DEF BookInv
<1>2. Rising(Holds(i)) /\ Holds(i) \in Seq(Msg)
  BY <1>1, HoldsType, JoinRising DEF BookOf, Wait, Out, Holds
<1> QED
  BY <1>2, RisingLength

\* Delivery's operators, of the links.
LEMMA PromiseIs ==
    ASSUME LinksInv
    PROVE  /\ Promise!Given = Seen
           /\ \A i \in Link, n \in Nat :
                 n <= Len(Holds(i)) =>
                    /\ Promise!First(i, n) = Elems(SubSeq(Holds(i), 1, n))
                    /\ Promise!After(i, n) = SubSeq(Holds(i), n+1, Len(Holds(i)))
                    /\ Promise!ToSet(Promise!After(i, n)) = Elems(Promise!After(i, n))
<1>1. Promise!Given = Seen
  BY DEF Promise!Given, Seen
<1>2. ASSUME NEW i \in Link, NEW n \in Nat, n <= Len(Holds(i))
      PROVE  /\ Promise!First(i, n) = Elems(SubSeq(Holds(i), 1, n))
             /\ Promise!After(i, n) = SubSeq(Holds(i), n+1, Len(Holds(i)))
             /\ Promise!ToSet(Promise!After(i, n)) = Elems(Promise!After(i, n))
  <2>1. PICK h \in Seq(Msg) : h = Holds(i)
    BY HoldsType
  <2>2. n \in 0..Len(h)
    BY <1>2, <2>1, LenProperties
  <2>3. SubSeq(h, 1, n) \in Seq(Msg) /\ SubSeq(h, n+1, Len(h)) \in Seq(Msg)
    BY <2>2, CutMsgs
  <2>4. Promise!First(i, n) = Promise!ToSet(SubSeq(h, 1, n))
    BY <2>1 DEF Promise!First
  <2>5. Promise!After(i, n) = SubSeq(h, n+1, Len(h))
    BY <2>1 DEF Promise!After
  <2>6. Promise!ToSet(SubSeq(h, 1, n)) = Elems(SubSeq(h, 1, n))
    BY <2>3, ToSetIs
  <2>7. Promise!ToSet(SubSeq(h, n+1, Len(h))) = Elems(SubSeq(h, n+1, Len(h)))
    BY <2>3, ToSetIs
  <2> QED
    BY <2>1, <2>4, <2>5, <2>6, <2>7
<1> QED
  BY <1>1, <1>2

\* What Delivery sees of link j.
Held(j) == <<Holds(j), lk[j].seen, lk[j].acked, lk[j].acklost, lk[j].purged>>

\* A frame that acknowledges the first n messages of link i and gives ms.
LEMMA AsExchange ==
    ASSUME LinksInv, NEW i \in Link, NEW n \in 0..Len(Holds(i)),
           NEW ms \in {{}} \cup {{m} : m \in Msg},
           Elems(SubSeq(Holds(i), 1, n)) \subseteq Seen,
           \A m \in ms : /\ \/ \E k \in Link : m \in lk[k].acklost
                            \/ \E k \in Link \ {i} : m \in Elems(Holds(k))
                         /\ m \notin Seen
                         /\ \A x \in lk[i].seen : x < m,
           \A j \in Link \ {i} : Held(j)' = Held(j),
           Holds(i)' = SubSeq(Holds(i), n+1, Len(Holds(i))),
           lk'[i].acked = lk[i].acked \cup Elems(SubSeq(Holds(i), 1, n)),
           lk'[i].seen = lk[i].seen \cup ms,
           lk'[i].acklost = lk[i].acklost, lk'[i].purged = lk[i].purged
    PROVE  Promise!Next
<1>1. /\ Promise!First(i, n) = Elems(SubSeq(Holds(i), 1, n))
      /\ Promise!After(i, n) = SubSeq(Holds(i), n+1, Len(Holds(i)))
      /\ Promise!Given = Seen
  BY PromiseIs
<1>2. \A j \in Link : /\ lk'[j].acklost = lk[j].acklost /\ lk'[j].purged = lk[j].purged
                      /\ j # i => /\ Holds(j)' = Holds(j) /\ lk'[j].seen = lk[j].seen
                                  /\ lk'[j].acked = lk[j].acked
  BY DEF Held
<1>3. \A k \in Link : Promise!ToSet(Holds(k)) = Elems(Holds(k))
  BY HoldsType, ToSetIs
<1>4. ASSUME NEW m \in ms
      PROVE  Promise!MayGive(i, m)
  <2>1. \/ m \in UNION {lk[k].acklost : k \in Link}
        \/ \E k \in Link \ {i} : m \in Promise!ToSet([j \in Link |-> Holds(j)][k])
    BY <1>3
  <2>2. \A x \in [j \in Link |-> lk[j].seen][i] : x < m
    OBVIOUS
  <2> QED
    BY <1>1, <2>1, <2>2 DEF Promise!MayGive
<1>5. [j \in Link |-> Holds(j)]' = [[j \in Link |-> Holds(j)] EXCEPT ![i] = Promise!After(i, n)]
  BY <1>1, <1>2
<1>6. [j \in Link |-> lk[j].seen]'
         = [[j \in Link |-> lk[j].seen] EXCEPT ![i] = [j \in Link |-> lk[j].seen][i] \cup ms]
  BY <1>2
<1>7. (UNION {lk[j].acked : j \in Link})' = (UNION {lk[j].acked : j \in Link}) \cup Promise!First(i, n)
  BY <1>1, <1>2
<1>8. /\ (UNION {lk[j].acklost : j \in Link})' = UNION {lk[j].acklost : j \in Link}
      /\ (UNION {lk[j].purged : j \in Link})' = UNION {lk[j].purged : j \in Link}
  BY <1>2
<1>9. Promise!Exchange(i, n, ms)
  BY <1>1, <1>4, <1>5, <1>6, <1>7, <1>8 DEF Promise!Exchange
<1>10. n \in 0..Len([j \in Link |-> Holds(j)][i])
  OBVIOUS
<1> QED
  BY <1>9, <1>10 DEF Promise!Next

\* Cutting a queue at its ends.
LEMMA CutAtEnds ==
    ASSUME NEW q \in Seq(Msg)
    PROVE  /\ SubSeq(q, 1, Len(q)) = q /\ SubSeq(q, Len(q)+1, Len(q)) = <<>>
           /\ SubSeq(q, 1, 0) = <<>> /\ SubSeq(q, 0+1, Len(q)) = q
           /\ <<>> \o q = q
<1>1. PICK k \in Nat : k = Len(q)
  BY LenProperties
<1>2. SubSeq(q, 1, k) = q
  BY <1>1
<1>3. SubSeq(q, k+1, k) = <<>> /\ SubSeq(q, 1, 0) = <<>>
  BY <1>1
<1>4. <<>> \o q = q
  OBVIOUS
<1> QED
  BY <1>1, <1>2, <1>3, <1>4

\* What was given was sent, so it is in no out queue.
LEMMA SeenWasSent ==
    ASSUME BookInv, NEW i \in Link
    PROVE  Out(lk[i]) \cap Seen = {}
<1> SUFFICES ASSUME NEW m \in Out(lk[i]), NEW j \in Link, m \in lk[j].seen
             PROVE  FALSE
  BY DEF Seen
<1>1. PICK k \in Link : m \in Went(lk[k])
  BY DEF BookInv, Came
<1>2. m \in Known(lk[k]) /\ m \in Known(lk[i])
  BY <1>1 DEF Known
<1>3. k = i
  BY <1>2 DEF BookInv
<1> QED
  BY <1>1, <1>3 DEF BookInv, BookOf

LEMMA SameCount == Promise!Cardinality(Msg) = Cardinality(Msg)
BY DEF Promise!Cardinality, Cardinality

\* The links in C are closed.
LEMMA AsDisconnect ==
    ASSUME LinksInv, BookInv, NEW C \in SUBSET Link,
           \A j \in Link \ C : Held(j)' = Held(j),
           \A j \in C : Closes(j, lk[j], lk'[j])
    PROVE  Promise!Next
<1> DEFINE n    == [j \in Link |-> IF j \in C THEN Len(lk[j].ackqueue) ELSE 0]
           Keeps(j) == j = Cli /\ KeepOutq
           drop == {j \in C : ~Keeps(j) /\ Holds(j) # <<>>}
           held == [j \in Link |-> Holds(j)]
<1>1. ASSUME NEW j \in Link
      PROVE  /\ n[j] \in 0..Len(Holds(j)) /\ n[j] \in Nat
             /\ Promise!First(j, n[j]) = IF j \in C THEN Wait(lk[j]) ELSE {}
             /\ Promise!After(j, n[j]) = IF j \in C THEN lk[j].outqueue ELSE Holds(j)
             /\ Promise!ToSet(Promise!After(j, n[j])) = Elems(Promise!After(j, n[j]))
  <2>1. PICK q \in Seq(Msg) : q = Names(lk[j].ackqueue) /\ Len(q) = Len(lk[j].ackqueue)
    BY HoldsType
  <2>2. PICK o \in Seq(Msg) : o = lk[j].outqueue
    BY HoldsType
  <2>3. PICK h \in Seq(Msg) : h = Holds(j) /\ h = q \o o
    BY <2>1, <2>2, HoldsType DEF Holds
  <2>4. CASE j \in C
    <3>1. n[j] = Len(q) /\ n[j] \in 0..Len(q)
      BY <2>1, <2>4, LenProperties
    <3>2. /\ n[j] \in 0..Len(h) /\ SubSeq(h, 1, n[j]) = SubSeq(q, 1, n[j])
          /\ SubSeq(h, n[j]+1, Len(h)) = SubSeq(q, n[j]+1, Len(q)) \o o
      <4> HIDE DEF n
      <4> QED
        BY <2>3, <3>1, CutJoined
    <3>3. SubSeq(h, 1, n[j]) = q /\ SubSeq(h, n[j]+1, Len(h)) = o
      BY <3>1, <3>2, CutAtEnds
    <3> HIDE DEF n
    <3>4. n[j] \in Nat /\ n[j] <= Len(h)
      BY <3>2, LenProperties
    <3> QED
      BY <2>1, <2>2, <2>3, <2>4, <3>2, <3>3, <3>4, PromiseIs DEF Wait
  <2>5. CASE j \notin C
    <3>1. n[j] = 0
      BY <2>5
    <3>2. Len(h) \in Nat
      BY LenProperties
    <3>3. n[j] \in 0..Len(h) /\ n[j] \in Nat /\ n[j] <= Len(h)
      BY <3>1, <3>2
    <3>4. SubSeq(h, 1, n[j]) = <<>> /\ SubSeq(h, n[j]+1, Len(h)) = h
      BY <3>1, CutAtEnds
    <3> HIDE DEF n
    <3> QED
      BY <2>3, <2>5, <3>3, <3>4, PromiseIs, EmptyNames
  <2> QED
    BY <2>4, <2>5
<1>2. n \in Promise!Losses
  <2>1. \A j \in Link : Len(Holds(j)) \in 0..Cardinality(Msg)
    BY HoldsRising
  <2>2. Cardinality(Msg) \in Nat
    BY BoundAssumption, FS_Interval, FS_CardinalityType DEF Msg
  <2>3. ASSUME NEW j \in Link
        PROVE  n[j] \in 0..Cardinality(Msg) /\ n[j] <= Len(Holds(j))
    <3> HIDE DEF n
    <3> QED
      BY <1>1, <2>1, <2>2
  <2>4. n \in [Link -> 0..Cardinality(Msg)]
    BY <2>3
  <2> HIDE DEF n
  <2>5. \A j \in Link : n[j] <= Len([k \in Link |-> Holds(k)][j])
    BY <2>3
  <2> QED
    BY <2>4, <2>5, SameCount DEF Promise!Losses
<1>3. drop \in SUBSET Promise!Holders
  BY DEF Promise!Holders
<1>4. PICK ns \in Promise!Losses : ns = n
  BY <1>2
<1>5. PICK ds \in SUBSET Promise!Holders : ds = drop
  BY <1>3
<1>6. ASSUME NEW j \in Link
       PROVE  /\ Promise!First(j, ns[j]) = IF j \in C THEN Wait(lk[j]) ELSE {}
              /\ Promise!After(j, ns[j]) = IF j \in C THEN lk[j].outqueue ELSE Holds(j)
              /\ Promise!ToSet(Promise!After(j, ns[j])) = Elems(Promise!After(j, ns[j]))
  <2>1. PICK d \in Nat : d = n[j] /\ d = ns[j]
    <3> HIDE DEF n
    <3> QED
      BY <1>1, <1>4
  <2> HIDE DEF n
  <2> QED
    BY <1>1, <2>1
<1>7. \A j \in ds : Promise!ToSet(Promise!After(j, ns[j])) \cap Promise!Given = {}
  <2> TAKE j \in ds
  <2>1. j \in Link /\ j \in C
    BY <1>5
  <2>2. Promise!ToSet(Promise!After(j, ns[j])) = Out(lk[j])
    BY <1>6, <2>1 DEF Out
  <2> QED
    BY <2>1, <2>2, SeenWasSent, PromiseIs
<1>8. ASSUME NEW j \in C, ~Keeps(j)
      PROVE  /\ Holds(j)' = <<>> /\ lk'[j].purged = lk[j].purged \cup Out(lk[j])
             /\ Holds(j) = <<>> => lk[j].outqueue = <<>>
  <2>1. Names(lk'[j].ackqueue) = <<>> /\ lk'[j].outqueue = <<>>
        /\ lk'[j].purged = lk[j].purged \cup Out(lk[j])
    BY <1>8 DEF Closes
  <2>2. Holds(j)' = <<>>
    BY <2>1, EmptyNames, CutAtEnds DEF Holds
  <2>3. PICK q \in Seq(Msg) : q = Names(lk[j].ackqueue)
    BY HoldsType
  <2>4. PICK o \in Seq(Msg) : o = lk[j].outqueue
    BY HoldsType
  <2>5. q \o o = <<>> => o = <<>>
    OBVIOUS
  <2> QED
    BY <2>1, <2>2, <2>3, <2>4, <2>5 DEF Holds
<1>9. ASSUME NEW j \in C, Keeps(j)
      PROVE  Holds(j)' = lk[j].outqueue /\ lk'[j].purged = lk[j].purged
  <2>1. Names(lk'[j].ackqueue) = <<>> /\ lk'[j].outqueue = lk[j].outqueue
        /\ lk'[j].purged = lk[j].purged
    BY <1>9 DEF Closes
  <2>2. lk[j].outqueue \in Seq(Msg)
    BY HoldsType
  <2> QED
    BY <2>1, <2>2, CutAtEnds DEF Holds
<1>10. \A j \in Link : /\ lk'[j].seen = lk[j].seen /\ lk'[j].acked = lk[j].acked
                       /\ lk'[j].acklost = IF j \in C THEN lk[j].acklost \cup Wait(lk[j])
                                           ELSE lk[j].acklost
                       /\ j \notin C => Holds(j)' = Holds(j) /\ lk'[j].purged = lk[j].purged
  <2>1. ASSUME NEW j \in C
        PROVE  /\ lk'[j].seen = lk[j].seen /\ lk'[j].acked = lk[j].acked
               /\ lk'[j].acklost = lk[j].acklost \cup Wait(lk[j])
    <3>1. Closes(j, lk[j], lk'[j])
      OBVIOUS
    <3> QED
      BY <3>1 DEF Closes
  <2>2. ASSUME NEW j \in Link \ C
        PROVE  /\ lk'[j].seen = lk[j].seen /\ lk'[j].acked = lk[j].acked
               /\ lk'[j].acklost = lk[j].acklost /\ Holds(j)' = Holds(j)
               /\ lk'[j].purged = lk[j].purged
    <3>1. Held(j)' = Held(j)
      OBVIOUS
    <3> QED
      BY <3>1 DEF Held
  <2> QED
    BY <2>1, <2>2
<1> HIDE DEF n, drop
<1>11. held' = [j \in Link |-> IF j \in ds THEN <<>> ELSE Promise!After(j, ns[j])]
  <2>1. ASSUME NEW j \in Link
        PROVE  Holds(j)' = IF j \in ds THEN <<>> ELSE Promise!After(j, ns[j])
    <3>1. Promise!After(j, ns[j]) = IF j \in C THEN lk[j].outqueue ELSE Holds(j)
      BY <1>6
    <3>2. j \in ds <=> (j \in C /\ ~Keeps(j) /\ Holds(j) # <<>>)
      BY <1>5 DEF drop
    <3>3. CASE j \notin C
      BY <3>1, <3>2, <3>3, <1>10
    <3>4. CASE j \in C /\ Keeps(j)
      BY <3>1, <3>2, <3>4, <1>9
    <3>5. CASE j \in C /\ ~Keeps(j)
      BY <3>1, <3>2, <3>5, <1>8
    <3> QED
      BY <3>3, <3>4, <3>5
  <2> QED
    BY <2>1
<1> HIDE DEF held, Keeps
<1>12. [j \in Link |-> lk[j].seen]' = [j \in Link |-> lk[j].seen]
  BY <1>10
<1>13. (UNION {lk[j].acked : j \in Link})' = UNION {lk[j].acked : j \in Link}
  BY <1>10
<1>14. (UNION {lk[j].acklost : j \in Link})'
          = (UNION {lk[j].acklost : j \in Link}) \cup UNION {Promise!First(j, ns[j]) : j \in Link}
  <2> DEFINE first(j) == Promise!First(j, ns[j])
  <2>1. \A j \in Link : lk'[j].acklost = lk[j].acklost \cup first(j)
    <3> TAKE j \in Link
    <3>1. first(j) = IF j \in C THEN Wait(lk[j]) ELSE {}
      BY <1>6
    <3> HIDE DEF first
    <3> QED
      BY <3>1, <1>10
  <2> HIDE DEF first
  <2>2. (UNION {lk[j].acklost : j \in Link})'
           = (UNION {lk[j].acklost : j \in Link}) \cup UNION {first(j) : j \in Link}
    BY <2>1
  <2> QED
    BY <2>2 DEF first
<1>15. (UNION {lk[j].purged : j \in Link})'
          = (UNION {lk[j].purged : j \in Link})
               \cup UNION {Promise!ToSet(Promise!After(j, ns[j])) : j \in ds}
  <2>1. \A j \in ds : j \in Link /\ Promise!ToSet(Promise!After(j, ns[j])) = Out(lk[j])
    BY <1>5, <1>6 DEF Out, drop
  <2>2. \A j \in Link : lk'[j].purged = lk[j].purged \cup (IF j \in ds THEN Out(lk[j]) ELSE {})
    <3> TAKE j \in Link
    <3>1. lk[j].outqueue = <<>> => Out(lk[j]) = {}
      BY EmptyNames DEF Out
    <3>2. j \in ds <=> (j \in C /\ ~Keeps(j) /\ Holds(j) # <<>>)
      BY <1>5 DEF drop, Keeps
    <3>3. CASE j \notin C
      BY <3>2, <3>3, <1>10
    <3>4. CASE j \in C /\ Keeps(j)
      BY <3>2, <3>4, <1>9
    <3>5. CASE j \in C /\ ~Keeps(j)
      BY <3>1, <3>2, <3>5, <1>8
    <3> QED
      BY <3>3, <3>4, <3>5
  <2> QED
    BY <2>1, <2>2
<1>16. Promise!Disconnect(ns, ds)
  BY <1>7, <1>11, <1>12, <1>13, <1>14, <1>15 DEF Promise!Disconnect, held
<1> QED
  BY <1>16 DEF Promise!Next

\* What came to a link may be given there, once.
LEMMA MayCome ==
    ASSUME LinksInv, WireInv, BookInv, NEW i \in Link, NEW m \in Carried(net[i])
    PROVE  /\ \/ \E k \in Link : m \in lk[k].acklost
              \/ \E k \in Link \ {i} : m \in Elems(Holds(k))
           /\ m \notin Seen
           /\ \A x \in lk[i].seen : x < m
           /\ m \notin Wait(lk[i])
<1>1. m \in Came(i) /\ m \in Msg
  BY DEF Came, Carried
<1>2. PICK k \in Link \ {i} : m \in Went(lk[k])
  BY <1>1 DEF BookInv
<1>3. \A x \in lk[i].seen : x < m
  BY DEF BookInv, Below
<1>4. m \notin Seen
  <2> SUFFICES ASSUME NEW j \in Link, m \in lk[j].seen
               PROVE  FALSE
    BY DEF Seen
  <2>1. j = i
    BY <1>1 DEF BookInv, Came
  <2>2. m < m /\ m \in Nat
    BY <2>1, <1>1, <1>3, BoundAssumption DEF Msg
  <2> QED
    BY <2>2
<1>5. m \notin lk[k].acked
  BY <1>4 DEF WireInv, WireOf
<1>6. m \in lk[k].acklost \/ m \in Elems(Holds(k))
  BY <1>2, <1>5, HoldsType DEF Went
<1>7. m \notin Wait(lk[i])
  <2>1. m \in Known(lk[k])
    BY <1>2 DEF Known
  <2>2. m \notin Known(lk[i])
    BY <1>2, <2>1 DEF BookInv
  <2> QED
    BY <2>2 DEF Known, Went
<1> QED
  BY <1>2, <1>3, <1>4, <1>6, <1>7

\* Link i reads a frame.
LEMMA HearsPromise ==
    ASSUME LinksInv, WireInv, WireInv', BookInv, NEW i \in Link,
           \A j \in Link \ {i} : lk'[j] = lk[j],
           NEW n, NEW ms \in {{}} \cup {{m} : m \in Msg}, ms \subseteq Carried(net[i]),
           Hears(lk[i], lk'[i], n, ms)
    PROVE  Promise!Next
<1>1. PICK q \in Seq(Msg) : q = Names(lk[i].ackqueue) /\ Len(q) = Len(lk[i].ackqueue)
  BY HoldsType
<1>2. PICK o \in Seq(Msg) : o = lk[i].outqueue
  BY HoldsType
<1>3. PICK h \in Seq(Msg) : h = Holds(i) /\ h = q \o o
  BY <1>1, <1>2, HoldsType DEF Holds
<1>4. n \in 0..Len(q)
  BY <1>1 DEF Hears
<1>5. PICK x \in Seq(Msg) : x = SubSeq(q, 1, n)
  BY <1>4, CutMsgs
<1>6. /\ n \in 0..Len(h) /\ SubSeq(h, 1, n) = x
      /\ SubSeq(h, n+1, Len(h)) = SubSeq(q, n+1, Len(q)) \o o
  <2>1. /\ n \in 0..Len(q \o o) /\ SubSeq(q \o o, 1, n) = SubSeq(q, 1, n)
        /\ SubSeq(q \o o, n+1, Len(q \o o)) = SubSeq(q, n+1, Len(q)) \o o
    BY <1>4, CutJoined
  <2> QED
    BY <2>1, <1>3, <1>5
<1>7. /\ Names(lk'[i].ackqueue) = SubSeq(q, n+1, Len(q)) /\ lk'[i].outqueue = o
      /\ lk'[i].acked = lk[i].acked \cup Elems(x) /\ lk'[i].seen = lk[i].seen \cup ms
      /\ lk'[i].acklost = lk[i].acklost /\ lk'[i].purged = lk[i].purged
  BY <1>1, <1>2, <1>5 DEF Hears
<1>8. Holds(i)' = SubSeq(h, n+1, Len(h))
  BY <1>6, <1>7 DEF Holds
<1>9. \A j \in Link \ {i} : Held(j)' = Held(j)
  BY DEF Held, Holds
<1>10. Elems(x) \subseteq Wait(lk[i])
  BY <1>1, <1>4, <1>5, CutMsgs DEF Wait
<1>11. Elems(x) \subseteq Seen
  <2>1. lk'[i].acked \subseteq Seen'
    BY DEF WireInv, WireOf
  <2>2. Seen' \subseteq Seen \cup ms
    BY <1>7 DEF Seen
  <2>3. Elems(x) \cap ms = {}
    BY <1>10, MayCome
  <2> QED
    BY <1>7, <2>1, <2>2, <2>3
<1>12. \A m \in ms : /\ \/ \E k \in Link : m \in lk[k].acklost
                        \/ \E k \in Link \ {i} : m \in Elems(Holds(k))
                     /\ m \notin Seen
                     /\ \A s \in lk[i].seen : s < m
  BY MayCome
<1> QED
  BY <1>3, <1>6, <1>7, <1>8, <1>9, <1>11, <1>12, AsExchange

\* One link has an event.
LEMMA EventPromise ==
    ASSUME LinksInv, WireInv, WireInv', BookInv, NEW i \in Link, Event(i)
    PROVE  Promise!Next
<1>1. PICK l : Did(i, l) /\ Moved(i, l)
  BY DEF Event
<1>2. l \in LinkType /\ lk \in [Link -> LinkType] /\ lk[i] \in LinkType /\ net[i] \in Seq(Frame)
  BY <1>1 DEF Did, LinksInv, TypeOK
<1> DEFINE r == [l EXCEPT !.tx = <<>>]
<1>3. Quiet(l, r)
  BY <1>2, TxQuiet
<1>4. lk'[i] = r /\ \A j \in Link \ {i} : lk'[j] = lk[j]
  BY <1>1, <1>2 DEF Moved
<1> HIDE DEF r
<1>5. \A j \in Link \ {i} : Held(j)' = Held(j)
  BY <1>4 DEF Held, Holds
<1>6. \A j \in Link \ {} : j # i => Held(j)' = Held(j)
  BY <1>5
<1>7. CASE Quiet(lk[i], l)
  <2>1. Quiet(lk[i], r)
    BY <1>3, <1>7, QuietTwice
  <2>2. Held(i)' = Held(i)
    BY <1>4, <2>1 DEF Held, Holds, Quiet
  <2>3. \A j \in Link \ {} : Held(j)' = Held(j)
    BY <1>6, <2>2
  <2>4. PICK C \in SUBSET Link : C = {}
    OBVIOUS
  <2> QED
    BY <2>3, <2>4, AsDisconnect
<1>8. CASE Closes(i, lk[i], l)
  <2>1. Closes(i, lk[i], lk'[i])
    BY <1>3, <1>4, <1>8 DEF Quiet, Closes
  <2>2. PICK C \in SUBSET Link : C = {i}
    OBVIOUS
  <2> QED
    BY <1>5, <2>1, <2>2, AsDisconnect
<1>9. CASE \E n \in 0..Len(lk[i].outqueue) : Emits(lk[i], l, n)
  <2>1. PICK n : Emits(lk[i], l, n)
    BY <1>9
  <2>2. PICK q \in Seq(Msg) : q = Names(lk[i].ackqueue)
    BY HoldsType
  <2>3. PICK o \in Seq(Msg) : o = lk[i].outqueue
    BY HoldsType
  <2>4. /\ n \in 0..Len(o) /\ r.outqueue = SubSeq(o, n+1, Len(o))
        /\ Names(r.ackqueue) = q \o SubSeq(o, 1, n)
        /\ r.acked = lk[i].acked /\ r.acklost = lk[i].acklost /\ r.purged = lk[i].purged
        /\ r.seen = lk[i].seen
    BY <1>3, <2>1, <2>2, <2>3 DEF Emits, Quiet
  <2>5. Holds(i)' = q \o o
    BY <1>4, <2>4, MoveJoined DEF Holds
  <2>6. Held(i)' = Held(i)
    BY <1>4, <2>2, <2>3, <2>4, <2>5 DEF Held, Holds
  <2>7. \A j \in Link \ {} : Held(j)' = Held(j)
    BY <1>6, <2>6
  <2>8. PICK C \in SUBSET Link : C = {}
    OBVIOUS
  <2> QED
    BY <2>7, <2>8, AsDisconnect
<1>10. CASE net[i] # <<>> /\ HearsFrame(lk[i], l, Head(net[i]))
  <2>1. PICK f \in Frame : f = Head(net[i])
    BY <1>2, <1>10, HeadTailProperties
  <2>2. PICK n \in 0..Len(lk[i].ackqueue), ms \in SUBSET {f.msg} :
           Hears(lk[i], l, n, ms) /\ (ms # {} => f.type = "I")
    BY <1>10, <2>1 DEF HearsFrame
  <2>3. Hears(lk[i], lk'[i], n, ms)
    BY <1>3, <1>4, <2>2 DEF Quiet, Hears
  <2>4. ms \subseteq Carried(net[i])
    BY <1>2, <1>10, <2>1, <2>2, CarriedTail
  <2>5. ms \in {{}} \cup {{m} : m \in Msg}
    <3>1. CASE ms = {}
      BY <3>1
    <3>2. CASE ms # {}
      <4>1. ms = {f.msg} /\ f.msg \in Msg
        BY <3>2, <2>2, <2>4 DEF Carried
      <4> QED
        BY <4>1
    <3> QED
      BY <3>1, <3>2
  <2> QED
    BY <1>4, <2>3, <2>4, <2>5, HearsPromise
<1> QED
  BY <1>1, <1>7, <1>8, <1>9, <1>10 DEF Did

\* Connections are lost, or nothing happens to the messages.
LEMMA StillPromise ==
    ASSUME LinksInv, BookInv, Still
    PROVE  Promise!Next
<1>1. PICK C \in SUBSET Link : C = {j \in Link : Closes(j, lk[j], lk'[j])}
  OBVIOUS
<1>2. \A j \in C : Closes(j, lk[j], lk'[j])
  BY <1>1
<1>3. \A j \in Link \ C : Held(j)' = Held(j)
  <2> TAKE j \in Link \ C
  <2>1. lk'[j] = lk[j] \/ Quiet(lk[j], lk'[j])
    BY <1>1 DEF Still
  <2> QED
    BY <2>1 DEF Quiet, Held, Holds
<1> QED
  BY <1>2, <1>3, AsDisconnect

\* A message is put.
LEMMA PutPromise ==
    ASSUME LinksInv, BookInv, NEW i \in Link, PutOutQueue(i)
    PROVE  Promise!Next
<1>1. /\ lk \in [Link -> LinkType] /\ lk[i] \in LinkType /\ used \in [Budget -> Nat]
      /\ "put" \in Budget
  BY DEF LinksInv, TypeOK, Budget
<1>2. PICK m \in Msg : m = used["put"] + 1
  BY PutMsg DEF PutOutQueue, LinksInv
<1>3. PICK o \in Seq(Msg) : o = lk[i].outqueue
  BY HoldsType
<1>4. PICK q \in Seq(Msg) : q = Names(lk[i].ackqueue)
  BY HoldsType
<1> DEFINE r == [lk[i] EXCEPT !.outqueue = Append(o, m)]
<1>5. /\ r.outqueue = Append(o, m) /\ r.ackqueue = lk[i].ackqueue /\ r.acked = lk[i].acked
      /\ r.acklost = lk[i].acklost /\ r.purged = lk[i].purged /\ r.seen = lk[i].seen
  BY <1>1 DEF LinkType
<1>6. lk' = [lk EXCEPT ![i] = r]
  BY <1>1, <1>2, <1>3 DEF PutOutQueue
<1> HIDE DEF r
<1>7. lk'[i] = r /\ \A j \in Link : j # i => lk'[j] = lk[j]
  BY <1>1, <1>6
<1>8. Holds(i)' = Append(Holds(i), m)
  <2>1. q \o Append(o, m) = Append(q \o o, m)
    OBVIOUS
  <2> QED
    BY <1>3, <1>4, <1>5, <1>7, <2>1 DEF Holds
<1>9. \A j \in Link : m \notin Known(lk[j])
  <2>1. \A j \in Link : Known(lk[j]) \subseteq 1..used["put"]
    BY DEF BookInv
  <2>2. m \notin 1..used["put"]
    BY <1>1, <1>2
  <2> QED
    BY <2>1, <2>2
<1>10. \A j \in Link : m \notin Promise!ToSet([k \in Link |-> Holds(k)][j])
  <2>1. \A j \in Link : Promise!ToSet(Holds(j)) = Wait(lk[j]) \cup Out(lk[j])
    BY HoldsType, ToSetIs
  <2> QED
    BY <1>9, <2>1 DEF Known, Went
<1>11. /\ m \notin UNION {lk[j].acked : j \in Link} /\ m \notin UNION {lk[j].acklost : j \in Link}
       /\ m \notin UNION {lk[j].purged : j \in Link}
  BY <1>9 DEF Known, Went
<1>12. \A j \in Link : /\ lk'[j].acked = lk[j].acked /\ lk'[j].acklost = lk[j].acklost
                       /\ lk'[j].purged = lk[j].purged /\ lk'[j].seen = lk[j].seen
                       /\ j # i => Holds(j)' = Holds(j)
  BY <1>5, <1>7 DEF Holds
<1>13. [j \in Link |-> Holds(j)]'
          = [[j \in Link |-> Holds(j)] EXCEPT ![i] = Append([j \in Link |-> Holds(j)][i], m)]
  BY <1>8, <1>12
<1>14. /\ [j \in Link |-> lk[j].seen]' = [j \in Link |-> lk[j].seen]
       /\ (UNION {lk[j].acked : j \in Link})' = UNION {lk[j].acked : j \in Link}
       /\ (UNION {lk[j].acklost : j \in Link})' = UNION {lk[j].acklost : j \in Link}
       /\ (UNION {lk[j].purged : j \in Link})' = UNION {lk[j].purged : j \in Link}
  BY <1>12
<1>15. Promise!Put(i, m)
  BY <1>10, <1>11, <1>13, <1>14 DEF Promise!Put
<1> QED
  BY <1>15 DEF Promise!Next

LEMMA InitPromise ==
    ASSUME Init
    PROVE  Promise!Init
<1>1. \A j \in Link : lk[j] = NewLink
  BY DEF Init, Link
<1>2. /\ NewLink.outqueue = <<>> /\ NewLink.ackqueue = <<>> /\ NewLink.acked = {}
      /\ NewLink.acklost = {} /\ NewLink.purged = {} /\ NewLink.seen = {}
  BY DEF NewLink
<1>3. \A j \in Link : Holds(j) = <<>>
  BY <1>1, <1>2, EmptyNames, CutAtEnds DEF Holds
<1> QED
  BY <1>1, <1>2, <1>3 DEF Promise!Init

\* The links of xlap implement Delivery: whatever connections are lost and
\* made again, a message is given once at most, in the order of the puts, and
\* not after it was dropped; acknowledged means given (KeepsPromise).
THEOREM DeliveryCorrect == Spec => KeepsPromise
<1>1. Init => Promise!Init
  BY InitPromise
<1>2. LinksInv /\ WireInv /\ BookInv /\ (LinksInv /\ WireInv /\ BookInv)' /\ [Next]_vars
         => Promise!Next
  BY NextKinds, EventPromise, StillPromise, PutPromise
<1>3. LinksInv /\ WireInv /\ BookInv /\ (LinksInv /\ WireInv /\ BookInv)' /\ [Next]_vars
         => [Promise!Next]_(Promise!dvars)
  BY <1>2
<1> QED
  BY <1>1, <1>3, BookInvariance, PTL DEF KeepsPromise, Promise!Spec, Spec


-----------------------------------------------------------------------------
(***************************************************************************)
(* The start/stop procedure at both ends of a connection: the ends agree   *)
(* whether data transfer is started whenever neither waits for the other,  *)
(* and a stop is confirmed only when nothing is left unacknowledged.       *)
(*                                                                         *)
(* The states of two ends say little without the U frames between them.    *)
(* An end that asks to start or stop waits in a PENDING state for the      *)
(* confirmation, so at most two such frames are ever on a wire, and the    *)
(* invariant lists what they can be.                                       *)
(***************************************************************************)

(* Orders on a wire *)

\* The U frames of the start/stop procedure.
Order == {"STARTDTact", "STARTDTcon", "STOPDTact", "STOPDTcon"}

\* Wire w has no order on it, only t, or s and after it t.
NoOrder(w) == \A p \in 1..Len(w) : w[p].type \notin Order

OneOrder(w, t) ==
    \E p \in 1..Len(w) :
        /\ w[p].type = t
        /\ \A q \in 1..Len(w) : w[q].type \in Order => q = p

TwoOrders(w, s, t) ==
    \E p, q \in 1..Len(w) :
        /\ p < q /\ w[p].type = s /\ w[q].type = t
        /\ \A r \in 1..Len(w) : w[r].type \in Order => r \in {p, q}

\* Nothing but acknowledgements and tests.
Chat(w) == NoOrder(w) /\ NoMsgs(w)

\* No message follows the order to stop.
Hushed(w) ==
    \A p, q \in 1..Len(w) : (p < q /\ w[p].type = "STOPDTact") => w[q].type # "I"

\* The places of two wires in a row: x is v, of m frames, and after it u.
InARow(x, v, u, m, n) ==
    /\ m = Len(v) /\ n = Len(u) /\ Len(x) = m + n
    /\ \A p \in 1..m : x[p] = v[p]
    /\ \A p \in 1..n : x[m + p] = u[p]
    /\ \A p \in 1..(m + n) : p \in 1..m \/ \E q \in 1..n : p = m + q

LEMMA PlacesJoined ==
    ASSUME NEW v \in Seq(Frame), NEW u \in Seq(Frame), NEW x, x = v \o u
    PROVE  \E m, n \in Nat : InARow(x, v, u, m, n)
<1>1. PICK m, n \in Nat : m = Len(v) /\ n = Len(u)
  BY LenProperties
<1>2. /\ Len(x) = m + n
      /\ \A p \in 1..(m + n) : x[p] = IF p <= m THEN v[p] ELSE u[p - m]
  BY <1>1, ConcatProperties
<1>3. \A p \in 1..m : x[p] = v[p]
  BY <1>2
<1>4. \A p \in 1..n : x[m + p] = u[p]
  <2>1. \A p \in 1..n : m + p \in 1..(m + n) /\ ~(m + p <= m) /\ (m + p) - m = p
    OBVIOUS
  <2>2. QED
    BY <1>2, <2>1
<1>5. \A p \in 1..(m + n) : p \in 1..m \/ \E q \in 1..n : p = m + q
  <2>1. \A p \in 1..(m + n) : p \notin 1..m => p - m \in 1..n /\ p = m + (p - m)
    OBVIOUS
  <2>2. QED
    BY <2>1
<1>6. QED
  BY <1>1, <1>2, <1>3, <1>4, <1>5 DEF InARow

\* Orders add up.
LEMMA OrdersJoined ==
    ASSUME NEW v \in Seq(Frame), NEW u \in Seq(Frame)
    PROVE  /\ NoOrder(v) /\ NoOrder(u) => NoOrder(v \o u)
           /\ \A t : NoOrder(v) /\ OneOrder(u, t) => OneOrder(v \o u, t)
           /\ \A t : OneOrder(v, t) /\ NoOrder(u) => OneOrder(v \o u, t)
           /\ \A s, t : OneOrder(v, s) /\ OneOrder(u, t) => TwoOrders(v \o u, s, t)
           /\ \A s, t : TwoOrders(v, s, t) /\ NoOrder(u) => TwoOrders(v \o u, s, t)
<1>1. PICK x : x = v \o u
  OBVIOUS
<1>2. PICK m, n \in Nat :
        /\ m = Len(v) /\ n = Len(u) /\ Len(x) = m + n
        /\ \A p \in 1..m : x[p] = v[p]
        /\ \A p \in 1..n : x[m + p] = u[p]
        /\ \A p \in 1..(m + n) : p \in 1..m \/ \E q \in 1..n : p = m + q
  <2>1. \E m, n \in Nat : InARow(x, v, u, m, n)
    BY <1>1, PlacesJoined
  <2>2. QED
    BY <2>1, Zenon DEF InARow
<1>3. /\ \A p \in 1..m : p \in 1..(m + n)
      /\ \A p \in 1..n : m + p \in 1..(m + n)
      /\ \A p \in 1..m, q \in 1..n : p < m + q
  OBVIOUS
<1>4. NoOrder(v) => \A p \in 1..m : x[p].type \notin Order
  BY <1>2 DEF NoOrder
<1>5. NoOrder(u) => \A q \in 1..n : x[m + q].type \notin Order
  BY <1>2 DEF NoOrder
<1>6. ASSUME NEW t, OneOrder(v, t)
      PROVE  \E p \in 1..m : x[p].type = t /\ \A r \in 1..m : x[r].type \in Order => r = p
  BY <1>2, <1>6 DEF OneOrder
<1>7. NoOrder(v) /\ NoOrder(u) => NoOrder(x)
  <2>1. SUFFICES ASSUME NoOrder(v), NoOrder(u), NEW p \in 1..(m + n)
                 PROVE  x[p].type \notin Order
    BY <1>2 DEF NoOrder
  <2>2. QED
    BY <1>2, <1>4, <1>5, <2>1
<1>8. ASSUME NEW t, NoOrder(v), OneOrder(u, t)
      PROVE  OneOrder(x, t)
  <2>1. PICK p \in 1..n : u[p].type = t /\ \A r \in 1..n : u[r].type \in Order => r = p
    BY <1>2, <1>8 DEF OneOrder
  <2>2. x[m + p].type = t /\ \A r \in 1..n : x[m + r].type \in Order => r = p
    BY <1>2, <2>1
  <2>3. ASSUME NEW r \in 1..(m + n), x[r].type \in Order
        PROVE  r = m + p
    <3>1. r \notin 1..m
      BY <1>4, <1>8, <2>3
    <3>2. PICK q \in 1..n : r = m + q
      BY <1>2, <3>1
    <3>3. QED
      BY <2>2, <2>3, <3>2
  <2>4. QED
    BY <1>2, <1>3, <2>2, <2>3 DEF OneOrder
<1>9. ASSUME NEW t, OneOrder(v, t), NoOrder(u)
       PROVE  OneOrder(x, t)
  <2>1. PICK p \in 1..m : x[p].type = t /\ \A r \in 1..m : x[r].type \in Order => r = p
    BY <1>6, <1>9
  <2>2. \A r \in 1..(m + n) : x[r].type \in Order => r = p
    BY <1>2, <1>5, <1>9, <2>1
  <2>3. QED
    BY <1>2, <1>3, <2>1, <2>2 DEF OneOrder
<1>10. ASSUME NEW s, NEW t, OneOrder(v, s), OneOrder(u, t)
       PROVE  TwoOrders(x, s, t)
  <2>1. PICK p \in 1..m : x[p].type = s /\ \A r \in 1..m : x[r].type \in Order => r = p
    BY <1>6, <1>10
  <2>2. PICK q \in 1..n : u[q].type = t /\ \A r \in 1..n : u[r].type \in Order => r = q
    BY <1>2, <1>10 DEF OneOrder
  <2>3. x[m + q].type = t /\ \A r \in 1..n : x[m + r].type \in Order => r = q
    BY <1>2, <2>2
  <2>4. ASSUME NEW r \in 1..(m + n), x[r].type \in Order
        PROVE  r \in {p, m + q}
    <3>1. CASE r \in 1..m
      BY <2>1, <2>4, <3>1
    <3>2. CASE r \notin 1..m
      <4>1. PICK a \in 1..n : r = m + a
        BY <1>2, <3>2
      <4>2. QED
        BY <2>3, <2>4, <4>1
    <3>3. QED
      BY <3>1, <3>2
  <2>5. QED
    BY <1>2, <1>3, <2>1, <2>3, <2>4 DEF TwoOrders
<1>11. ASSUME NEW s, NEW t, TwoOrders(v, s, t), NoOrder(u)
       PROVE  TwoOrders(x, s, t)
  <2>1. PICK p, q \in 1..m : /\ p < q /\ x[p].type = s /\ x[q].type = t
                             /\ \A r \in 1..m : x[r].type \in Order => r \in {p, q}
    BY <1>2, <1>11 DEF TwoOrders
  <2>2. \A r \in 1..(m + n) : x[r].type \in Order => r \in {p, q}
    BY <1>2, <1>5, <1>11, <2>1
  <2>3. QED
    BY <1>2, <1>3, <2>1, <2>2 DEF TwoOrders
<1>12. QED
  BY <1>1, <1>7, <1>8, <1>9, <1>10, <1>11

\* The places of a wire after its first frame was read.
LEMMA PlacesTail ==
    ASSUME NEW w \in Seq(Frame), w # <<>>
    PROVE  \E n \in Nat : /\ Len(w) = n + 1 /\ Len(Tail(w)) = n /\ w[1] = Head(w)
                          /\ \A p \in 1..n : Tail(w)[p] = w[p + 1]
                          /\ \A p \in 1..(n + 1) : p = 1 \/ \E q \in 1..n : p = q + 1
<1>1. PICK k \in Nat \ {0} : k = Len(w)
  BY EmptySeq, LenProperties
<1>2. /\ Tail(w) \in Seq(Frame) /\ Len(Tail(w)) = k - 1 /\ Head(w) = w[1]
      /\ \A p \in 1..(k - 1) : Tail(w)[p] = w[p + 1]
  BY <1>1, HeadTailProperties
<1>3. PICK n \in Nat : n = k - 1
  BY <1>1
<1>4. \A p \in 1..(n + 1) : p = 1 \/ (p - 1 \in 1..n /\ p = (p - 1) + 1)
  OBVIOUS
<1>5. \A p \in 1..(n + 1) : p = 1 \/ \E q \in 1..n : p = q + 1
  BY <1>4
<1>6. k = n + 1
  BY <1>1, <1>3
<1>7. QED
  BY <1>1, <1>2, <1>3, <1>5, <1>6

\* Reading the first frame, which is an order or is not.
LEMMA OrdersRead ==
    ASSUME NEW w \in Seq(Frame), w # <<>>, NEW f, f = Head(w).type
    PROVE  /\ NoOrder(w) => f \notin Order /\ NoOrder(Tail(w))
           /\ \A t \in Order : OneOrder(w, t) =>
                 \/ f = t /\ NoOrder(Tail(w))
                 \/ f \notin Order /\ OneOrder(Tail(w), t)
           /\ \A s, t \in Order : TwoOrders(w, s, t) =>
                 \/ f = s /\ OneOrder(Tail(w), t)
                 \/ f \notin Order /\ TwoOrders(Tail(w), s, t)
<1>1. PICK x : x = Tail(w)
  OBVIOUS
<1>2. PICK n \in Nat : /\ Len(w) = n + 1 /\ Len(x) = n /\ w[1].type = f
                       /\ \A p \in 1..n : x[p] = w[p + 1]
                       /\ \A p \in 1..(n + 1) : p = 1 \/ \E q \in 1..n : p = q + 1
  BY <1>1, PlacesTail
<1>3. /\ 1 \in 1..(n + 1)
      /\ \A p \in 1..n : p + 1 \in 1..(n + 1) /\ p + 1 # 1
      /\ \A p, q \in 1..n : (p + 1 = q + 1 => p = q) /\ (p + 1 < q + 1 => p < q)
  OBVIOUS
<1>4. NoOrder(w) => f \notin Order /\ NoOrder(x)
  BY <1>2, <1>3 DEF NoOrder
<1>5. ASSUME NEW t \in Order, OneOrder(w, t)
      PROVE  (f = t /\ NoOrder(x)) \/ (f \notin Order /\ OneOrder(x, t))
  <2>1. PICK p \in 1..(n + 1) : /\ w[p].type = t
                                /\ \A q \in 1..(n + 1) : w[q].type \in Order => q = p
    BY <1>2, <1>5 DEF OneOrder
  <2>2. CASE p = 1
    <3>1. f = t
      BY <1>2, <2>1, <2>2
    <3>2. NoOrder(x)
      BY <1>2, <1>3, <2>1, <2>2 DEF NoOrder
    <3>3. QED
      BY <3>1, <3>2
  <2>3. CASE p # 1
    <3>1. PICK q \in 1..n : p = q + 1
      BY <1>2, <2>3
    <3>2. f \notin Order
      BY <1>2, <1>3, <2>1, <2>3
    <3>3. x[q].type = t /\ \A r \in 1..n : x[r].type \in Order => r = q
      BY <1>2, <1>3, <2>1, <3>1
    <3>4. OneOrder(x, t)
      BY <1>2, <3>3 DEF OneOrder
    <3>5. QED
      BY <3>2, <3>4
  <2>4. QED
    BY <2>2, <2>3
<1>6. ASSUME NEW s \in Order, NEW t \in Order, TwoOrders(w, s, t)
      PROVE  (f = s /\ OneOrder(x, t)) \/ (f \notin Order /\ TwoOrders(x, s, t))
  <2>1. PICK p, q \in 1..(n + 1) :
           /\ p < q /\ w[p].type = s /\ w[q].type = t
           /\ \A r \in 1..(n + 1) : w[r].type \in Order => r \in {p, q}
    BY <1>2, <1>6 DEF TwoOrders
  <2>2. PICK b \in 1..n : q = b + 1
    BY <1>2, <2>1
  <2>3. CASE p = 1
    <3>1. \A r \in 1..n : x[r].type \in Order => r = b
      BY <1>2, <1>3, <2>1, <2>2, <2>3
    <3>2. x[b].type = t
      BY <1>2, <2>1, <2>2
    <3>3. QED
      BY <1>2, <2>1, <2>3, <3>1, <3>2 DEF OneOrder
  <2>4. CASE p # 1
    <3>1. PICK a \in 1..n : p = a + 1
      BY <1>2, <2>4
    <3>2. f \notin Order
      BY <1>2, <1>3, <2>1, <2>2, <2>4
    <3>3. a < b /\ x[a].type = s /\ x[b].type = t
      BY <1>2, <1>3, <2>1, <2>2, <3>1
    <3>4. \A r \in 1..n : x[r].type \in Order => r \in {a, b}
      BY <1>2, <1>3, <2>1, <2>2, <3>1
    <3>5. TwoOrders(x, s, t)
      BY <1>2, <3>3, <3>4 DEF TwoOrders
    <3>6. QED
      BY <3>2, <3>5
  <2>5. QED
    BY <2>3, <2>4
<1>7. QED
  BY <1>1, <1>4, <1>5, <1>6

\* Messages and the order to stop.
LEMMA HushedJoined ==
    ASSUME NEW v \in Seq(Frame), NEW u \in Seq(Frame)
    PROVE  /\ Hushed(v) /\ NoMsgs(u) => Hushed(v \o u)
           /\ (NoOrder(v) \/ OneOrder(v, "STARTDTcon")) /\ NoOrder(u) => Hushed(v \o u)
           /\ NoMsgs(v) /\ NoMsgs(u) => NoMsgs(v \o u)
<1>1. PICK x : x = v \o u
  OBVIOUS
<1>2. PICK m, n \in Nat :
        /\ m = Len(v) /\ n = Len(u) /\ Len(x) = m + n
        /\ \A p \in 1..m : x[p] = v[p]
        /\ \A p \in 1..n : x[m + p] = u[p]
        /\ \A p \in 1..(m + n) : p \in 1..m \/ \E q \in 1..n : p = m + q
  <2>1. \E m, n \in Nat : InARow(x, v, u, m, n)
    BY <1>1, PlacesJoined
  <2>2. QED
    BY <2>1, Zenon DEF InARow
<1>3. ASSUME NoMsgs(u)
      PROVE  \A p \in 1..(m + n) : x[p].type = "I" => p \in 1..m
  BY <1>2, <1>3 DEF NoMsgs
<1>4. ASSUME Hushed(v), NoMsgs(u)
      PROVE  Hushed(x)
  <2>1. SUFFICES ASSUME NEW p \in 1..(m + n), NEW q \in 1..(m + n), p < q,
                        x[p].type = "STOPDTact", x[q].type = "I"
                 PROVE  FALSE
    BY <1>2 DEF Hushed
  <2>2. q \in 1..m
    BY <1>3, <1>4, <2>1
  <2>3. p \in 1..m
    BY <2>1, <2>2
  <2>4. QED
    BY <1>2, <1>4, <2>1, <2>2, <2>3 DEF Hushed
<1>5. ASSUME NoOrder(v) \/ OneOrder(v, "STARTDTcon"), NoOrder(u)
      PROVE  Hushed(x)
  <2>1. NoOrder(x) \/ OneOrder(x, "STARTDTcon")
    BY <1>1, <1>5, OrdersJoined
  <2>2. \A p \in 1..(m + n) : x[p].type # "STOPDTact"
    <3>1. "STOPDTact" \in Order /\ "STOPDTact" # "STARTDTcon"
      BY DEF Order
    <3>2. NoOrder(x) => \A p \in 1..(m + n) : x[p].type # "STOPDTact"
      BY <1>2, <3>1 DEF NoOrder
    <3>3. OneOrder(x, "STARTDTcon") => \A p \in 1..(m + n) : x[p].type # "STOPDTact"
      BY <1>2, <3>1 DEF OneOrder
    <3>4. QED
      BY <2>1, <3>2, <3>3
  <2>3. QED
    BY <1>2, <2>2 DEF Hushed
<1>6. ASSUME NoMsgs(v), NoMsgs(u)
      PROVE  NoMsgs(x)
  BY <1>2, <1>3, <1>6 DEF NoMsgs
<1>7. QED
  BY <1>1, <1>4, <1>5, <1>6

LEMMA HushedRead ==
    ASSUME NEW w \in Seq(Frame), w # <<>>
    PROVE  /\ Hushed(w) => Hushed(Tail(w))
           /\ Hushed(w) /\ Head(w).type = "STOPDTact" => NoMsgs(Tail(w))
           /\ NoMsgs(w) => Head(w).type # "I" /\ NoMsgs(Tail(w))
<1>1. PICK x : x = Tail(w)
  OBVIOUS
<1>2. PICK n \in Nat : /\ Len(w) = n + 1 /\ Len(x) = n /\ w[1] = Head(w)
                       /\ \A p \in 1..n : x[p] = w[p + 1]
  BY <1>1, PlacesTail
<1>3. /\ 1 \in 1..(n + 1)
      /\ \A p \in 1..n : p + 1 \in 1..(n + 1) /\ 1 < p + 1
      /\ \A p, q \in 1..n : p < q => p + 1 < q + 1
  OBVIOUS
<1>4. Hushed(w) => Hushed(x)
  BY <1>2, <1>3 DEF Hushed
<1>5. Hushed(w) /\ Head(w).type = "STOPDTact" => NoMsgs(x)
  BY <1>2, <1>3 DEF Hushed, NoMsgs
<1>6. NoMsgs(w) => Head(w).type # "I" /\ NoMsgs(x)
  BY <1>2, <1>3 DEF NoMsgs
<1>7. QED
  BY <1>1, <1>4, <1>5, <1>6

-----------------------------------------------------------------------------
(* The states of two ends *)

\* A link that is not connected, or not yet, is stopped for the other end.
Phase(l) == IF l.state = "INIT" THEN "STOPPED" ELSE l.state

AtMost(w, t) == NoOrder(w) \/ OneOrder(w, t)

\* End a waits for the answer of end b; v is on the way to a, and w to b.
\* Two requests that cross are both ignored.  An end that has answered may
\* ask in its turn before its answer is read.
Asked(a, b, v, w) ==
    \/ /\ a = "PENDING_STARTED"
       /\ \/ b = "STOPPED" /\ NoOrder(v) /\ OneOrder(w, "STARTDTact")
          \/ b = "STARTED" /\ OneOrder(v, "STARTDTcon") /\ NoOrder(w)
          \/ b = "PENDING_STOPPED" /\ TwoOrders(v, "STARTDTcon", "STOPDTact") /\ NoOrder(w)
          \/ b = "PENDING_STARTED" /\ AtMost(v, "STARTDTact") /\ AtMost(w, "STARTDTact")
    \/ /\ a = "PENDING_STOPPED"
       /\ \/ b = "STARTED" /\ NoOrder(v) /\ OneOrder(w, "STOPDTact")
          \/ b = "PENDING_UNCONFD" /\ NoOrder(v) /\ NoOrder(w)
          \/ b = "STOPPED" /\ OneOrder(v, "STOPDTcon") /\ NoOrder(w)
          \/ b = "PENDING_STARTED" /\ TwoOrders(v, "STOPDTcon", "STARTDTact") /\ NoOrder(w)
          \/ b = "PENDING_STOPPED" /\ AtMost(v, "STOPDTact") /\ AtMost(w, "STOPDTact")

\* Neither end waits for the other.
AtRest(a, b, v, w) ==
    a = b /\ a \in {"STOPPED", "STARTED"} /\ NoOrder(v) /\ NoOrder(w)

Agree(a, b, v, w) == AtRest(a, b, v, w) \/ Asked(a, b, v, w) \/ Asked(b, a, w, v)

\* An end in state s becomes t and writes u, of itself: only a started one
\* sends messages, and an order goes with a new state.
Turn(s, t, u) ==
    \/ t = s /\ NoOrder(u) /\ (s # "STARTED" => NoMsgs(u))
    \/ s = "STOPPED" /\ t = "PENDING_STARTED" /\ OneOrder(u, "STARTDTact") /\ NoMsgs(u)
    \/ s = "STARTED" /\ t = "PENDING_STOPPED" /\ OneOrder(u, "STOPDTact") /\ NoMsgs(u)

\* The same when it reads a frame of type f.
Answer(s, f, t, u) ==
    /\ NoMsgs(u)
    /\ \/ f # "STARTDTact" /\ t = s /\ NoOrder(u)
       \/ f = "STARTDTact" /\ s \in {"STOPPED", "STARTED"}
                           /\ t = "STARTED" /\ OneOrder(u, "STARTDTcon")
       \/ f = "STARTDTact" /\ s \notin {"STOPPED", "STARTED"} /\ t = s /\ NoOrder(u)
       \/ f = "STARTDTcon" /\ s = "PENDING_STARTED" /\ t = "STARTED" /\ NoOrder(u)
       \/ f = "STOPDTact" /\ s = "STARTED" /\ t = "STOPPED" /\ OneOrder(u, "STOPDTcon")
       \/ f = "STOPDTact" /\ s = "STARTED" /\ t = "PENDING_UNCONFD" /\ NoOrder(u)
       \/ f = "STOPDTcon" /\ s = "PENDING_STOPPED" /\ t = "STOPPED" /\ NoOrder(u)
       \/ f \notin Order /\ s = "PENDING_UNCONFD" /\ t = "STOPPED" /\ OneOrder(u, "STOPDTcon")
    /\ f = "STARTDTcon" => s # "PENDING_STARTED" \/ t = "STARTED"
    /\ f = "STOPDTact" => s # "STARTED" \/ t # "STARTED"
    /\ f = "STOPDTcon" => s # "PENDING_STOPPED" \/ t = "STOPPED"

LEMMA TurnAgrees ==
    ASSUME NEW a, NEW b, NEW c, NEW u \in Seq(Frame), NEW v \in Seq(Frame), NEW w,
           Agree(a, b, v, w), Turn(b, c, u)
    PROVE  Agree(a, c, v \o u, w)
<1>1. PICK x : x = v \o u
  OBVIOUS
<1>2. /\ NoOrder(v) /\ NoOrder(u) => NoOrder(x)
      /\ \A t : NoOrder(v) /\ OneOrder(u, t) => OneOrder(x, t)
      /\ \A t : OneOrder(v, t) /\ NoOrder(u) => OneOrder(x, t)
      /\ \A s, t : OneOrder(v, s) /\ OneOrder(u, t) => TwoOrders(x, s, t)
      /\ \A s, t : TwoOrders(v, s, t) /\ NoOrder(u) => TwoOrders(x, s, t)
  BY <1>1, OrdersJoined
<1>3. CASE c = b /\ NoOrder(u)
  <2>1. AtRest(a, b, v, w) => AtRest(a, b, x, w)
    BY <1>2, <1>3 DEF AtRest
  <2>2. Asked(a, b, v, w) => Asked(a, b, x, w)
    BY <1>2, <1>3 DEF Asked, AtMost
  <2>3. Asked(b, a, w, v) => Asked(b, a, w, x)
    BY <1>2, <1>3 DEF Asked, AtMost
  <2>4. QED
    BY <1>1, <1>3, <2>1, <2>2, <2>3 DEF Agree
<1>4. CASE b = "STOPPED" /\ c = "PENDING_STARTED" /\ OneOrder(u, "STARTDTact")
  <2>1. ~Asked(b, a, w, v)
    BY <1>4 DEF Asked
  <2>2. AtRest(a, b, v, w) => Asked(c, a, w, x)
    BY <1>2, <1>4 DEF AtRest, Asked
  <2>3. Asked(a, b, v, w) => Asked(a, c, x, w)
    BY <1>2, <1>4 DEF Asked, AtMost
  <2>4. QED
    BY <1>1, <2>1, <2>2, <2>3 DEF Agree
<1>5. CASE b = "STARTED" /\ c = "PENDING_STOPPED" /\ OneOrder(u, "STOPDTact")
  <2>1. ~Asked(b, a, w, v)
    BY <1>5 DEF Asked
  <2>2. AtRest(a, b, v, w) => Asked(c, a, w, x)
    BY <1>2, <1>5 DEF AtRest, Asked
  <2>3. Asked(a, b, v, w) => Asked(a, c, x, w)
    BY <1>2, <1>5 DEF Asked, AtMost
  <2>4. QED
    BY <1>1, <2>1, <2>2, <2>3 DEF Agree
<1>6. QED
  BY <1>3, <1>4, <1>5 DEF Turn

LEMMA AnswerAgrees ==
    ASSUME NEW a, NEW b, NEW c, NEW u \in Seq(Frame), NEW v \in Seq(Frame),
           NEW w \in Seq(Frame), w # <<>>, Agree(a, b, v, w), Answer(b, Head(w).type, c, u)
    PROVE  Agree(a, c, v \o u, Tail(w))
<1>1. PICK x, y, f : x = v \o u /\ y = Tail(w) /\ f = Head(w).type
  OBVIOUS
<1>2. /\ NoOrder(v) /\ NoOrder(u) => NoOrder(x)
      /\ \A t : NoOrder(v) /\ OneOrder(u, t) => OneOrder(x, t)
      /\ \A t : OneOrder(v, t) /\ NoOrder(u) => OneOrder(x, t)
      /\ \A s, t : OneOrder(v, s) /\ OneOrder(u, t) => TwoOrders(x, s, t)
      /\ \A s, t : TwoOrders(v, s, t) /\ NoOrder(u) => TwoOrders(x, s, t)
  BY <1>1, OrdersJoined
<1>3. /\ NoOrder(w) => f \notin Order /\ NoOrder(y)
      /\ \A t \in Order : OneOrder(w, t) =>
            (f = t /\ NoOrder(y)) \/ (f \notin Order /\ OneOrder(y, t))
      /\ \A s, t \in Order : TwoOrders(w, s, t) =>
            (f = s /\ OneOrder(y, t)) \/ (f \notin Order /\ TwoOrders(y, s, t))
  BY <1>1, OrdersRead
<1>4. Answer(b, f, c, u)
  BY <1>1
<1>5. AtRest(a, b, v, w) => Agree(a, c, x, y)
  BY <1>2, <1>3, <1>4 DEF AtRest, Answer, Agree, Order
<1>6. Asked(a, b, v, w) => Agree(a, c, x, y)
  BY <1>2, <1>3, <1>4 DEF Asked, AtMost, Answer, Agree, AtRest, Order
<1>7. Asked(b, a, w, v) => Agree(a, c, x, y)
  BY <1>2, <1>3, <1>4 DEF Asked, AtMost, Answer, Agree, AtRest, Order
<1>8. QED
  BY <1>1, <1>5, <1>6, <1>7 DEF Agree

-----------------------------------------------------------------------------
(* What the operators of a link do to its state and to the orders it sends *)

\* r is l in another respect than its state, and has no order more to send.
Keeps(l, r) ==
    /\ r.state = l.state /\ r.conn = l.conn
    /\ Chat(l.tx) => Chat(r.tx)

\* r waits no more for the acknowledgements of its messages: all are there.
StopRule(l, r) == l.state = "PENDING_UNCONFD" /\ r.state = "STOPPED" => r.ackqueue = <<>>

LEMMA NothingSent == Chat(<<>>) /\ Hushed(<<>>)
<1>1. Len(<<>>) = 0 /\ \A p : p \notin 1..0
  OBVIOUS
<1>2. QED
  BY <1>1 DEF Chat, NoOrder, NoMsgs, Hushed

\* One more frame that is not an I frame.
LEMMA ChatAppend ==
    ASSUME NEW w \in Seq(Frame), NEW f \in Frame, f.type # "I", Chat(w)
    PROVE  /\ NoMsgs(Append(w, f))
           /\ f.type \notin Order => Chat(Append(w, f))
           /\ f.type \in Order => OneOrder(Append(w, f), f.type)
<1>0. <<f>> \in Seq(Frame)
  OBVIOUS
<1>1. PICK u \in Seq(Frame) : u = <<f>>
  BY <1>0
<1>2. /\ Len(u) = 1 /\ u[1] = f /\ Append(w, f) = w \o u
      /\ \A p \in 1..1 : p = 1
  BY <1>1, AppendIsConcat
<1>3. f.type \notin Order => NoOrder(u)
  BY <1>1, <1>2 DEF NoOrder
<1>4. f.type \in Order => OneOrder(u, f.type)
  BY <1>1, <1>2 DEF OneOrder
<1>5. NoMsgs(u)
  BY <1>1, <1>2 DEF NoMsgs
<1>6. PICK x : x = w \o u
  OBVIOUS
<1>7. NoMsgs(x)
  BY <1>5, <1>6, HushedJoined DEF Chat
<1>8. /\ f.type \notin Order => NoOrder(x)
      /\ f.type \in Order => OneOrder(x, f.type)
  BY <1>3, <1>4, <1>6, OrdersJoined DEF Chat
<1>9. QED
  BY <1>2, <1>6, <1>7, <1>8 DEF Chat

\* An U frame is sent, with or without a new state.
LEMMA SendUOrders ==
    ASSUME NEW l \in LinkType, l.conn, Chat(l.tx), NEW t \in UType, NEW r,
           \/ r = LapSendFrameU(l, t)
           \/ \E s \in SSP : r = LapSetState(LapSendFrameU(l, t), s)
    PROVE  /\ r.conn = l.conn
           /\ NoMsgs(r.tx)
           /\ t \notin Order => NoOrder(r.tx)
           /\ t \in Order => OneOrder(r.tx, t)
           /\ r = LapSendFrameU(l, t) => r.state = l.state
           /\ \A s \in SSP : r = LapSetState(LapSendFrameU(l, t), s) => r.state = s
<1>1. PICK f \in Frame : f = UFrame(t) /\ f.type = t
  BY UFrameType DEF UFrame
<1>2. l.tx \in Seq(Frame) /\ t # "I"
  BY DEF LinkType, UType
<1>3. PICK x : x = Append(l.tx, f)
  OBVIOUS
<1>4. NoMsgs(x) /\ (t \notin Order => NoOrder(x)) /\ (t \in Order => OneOrder(x, t))
  BY <1>1, <1>2, <1>3, ChatAppend DEF Chat
<1>5. /\ LapSendFrameU(l, t).tx = x
      /\ LapSendFrameU(l, t).state = l.state
      /\ LapSendFrameU(l, t).conn = l.conn
      /\ LapSendFrameU(l, t) \in LinkType
  <2>1. LapSendFrameU(l, t) \in LinkType
    BY SendUCalm DEF Calm
  <2>2. QED
    BY <1>1, <1>3, <2>1 DEF LapSendFrameU, Write, LinkType
<1>6. PICK q \in LinkType : q = LapSendFrameU(l, t)
  BY <1>5
<1>7. \A s \in SSP : /\ LapSetState(q, s).tx = x /\ LapSetState(q, s).state = s
                     /\ LapSetState(q, s).conn = l.conn
  BY <1>5, <1>6 DEF LapSetState, LinkType
<1>8. r.tx = x /\ r.conn = l.conn
  BY <1>5, <1>6, <1>7
<1>9. QED
  BY <1>4, <1>5, <1>6, <1>7, <1>8

\* Only the state is set, or a field the procedure does not look at.
LEMMA SetStateOrders ==
    ASSUME NEW l \in LinkType, NEW s
    PROVE  /\ LapSetState(l, s).state = s
           /\ LapSetState(l, s).tx = l.tx
           /\ LapSetState(l, s).conn = l.conn
           /\ LapSetState(l, s).ackqueue = l.ackqueue
BY DEF LapSetState, LinkType

\* STOPDTact is confirmed.
LEMMA ConfirmStopOrders ==
    ASSUME NEW l \in LinkType, l.conn, Chat(l.tx), NEW r, r = ConfirmStop(l)
    PROVE  r.state = "STOPPED" /\ NoMsgs(r.tx) /\ OneOrder(r.tx, "STOPDTcon")
<1>1. "STOPDTcon" \in UType /\ "STOPDTcon" \in Order /\ "STOPPED" \in SSP
  BY DEF UType, Order, SSP
<1>2. QED
  BY <1>1, SendUOrders DEF ConfirmStop

\* EventMasterSlave on an indication, f being the type of the frame.
LEMMA IndicationAnswers ==
    ASSUME NEW l \in LinkType, l.conn, Chat(l.tx), NEW evt, NEW f,
           \/ f \in UType /\ evt = f
           \/ f \notin Order /\ evt \in {"FRAMES", "FRAMEI"},
           NEW r, r = EventIndication(l, evt)
    PROVE  Answer(l.state, f, r.state, r.tx)
<1>1. NoOrder(l.tx) /\ NoMsgs(l.tx)
  BY DEF Chat
<1>2. CASE evt = "TESTFRact"
  <2>1. r = LapSendFrameU(l, "TESTFRcon") /\ f = "TESTFRact"
    BY <1>2 DEF EventIndication
  <2>2. "TESTFRcon" \in UType /\ "TESTFRcon" \notin Order
    BY DEF UType, Order
  <2>3. NoMsgs(r.tx) /\ NoOrder(r.tx) /\ r.state = l.state
    BY <2>1, <2>2, SendUOrders
  <2>4. QED
    BY <2>1, <2>3 DEF Answer
<1>3. CASE evt = "TESTFRcon"
  <2>1. r = [l EXCEPT !.tFrmSndAt = FALSE] /\ f = "TESTFRcon"
    BY <1>3 DEF EventIndication
  <2>2. r.tx = l.tx /\ r.state = l.state
    BY <2>1 DEF LinkType
  <2>3. QED
    BY <1>1, <2>1, <2>2 DEF Answer
<1>4. CASE evt = "STARTDTact"
  <2>1. "STARTDTcon" \in UType /\ "STARTDTcon" \in Order /\ "STARTED" \in SSP /\ f = "STARTDTact"
    BY <1>4 DEF UType, Order, SSP
  <2>2. CASE l.state \in {"STOPPED", "STARTED"}
    <3>1. \/ r = LapSetState(LapSendFrameU(l, "STARTDTcon"), "STARTED")
          \/ r = LapSendFrameU(l, "STARTDTcon") /\ l.state = "STARTED"
      BY <1>4, <2>2 DEF EventIndication
    <3>2. NoMsgs(r.tx) /\ OneOrder(r.tx, "STARTDTcon") /\ r.state = "STARTED"
      BY <2>1, <3>1, SendUOrders
    <3>3. QED
      BY <2>1, <2>2, <3>2 DEF Answer
  <2>3. CASE l.state \notin {"STOPPED", "STARTED"}
    <3>1. r = l
      BY <1>4, <2>3 DEF EventIndication
    <3>2. QED
      BY <1>1, <2>1, <2>3, <3>1 DEF Answer
  <2>4. QED
    BY <2>2, <2>3
<1>5. CASE evt = "STARTDTcon"
  <2>1. r = IF l.state = "PENDING_STARTED" THEN LapSetState(l, "STARTED") ELSE l
    BY <1>5 DEF EventIndication
  <2>2. f = "STARTDTcon"
    BY <1>5
  <2>3. QED
    BY <1>1, <2>1, <2>2, SetStateOrders DEF Answer
<1>6. CASE evt = "STOPDTact"
  <2>1. r = IF l.state # "STARTED" THEN l
            ELSE IF l.vs = l.va THEN ConfirmStop(l) ELSE LapSetState(l, "PENDING_UNCONFD")
    BY <1>6 DEF EventIndication
  <2>2. f = "STOPDTact"
    BY <1>6
  <2>3. QED
    BY <1>1, <2>1, <2>2, SetStateOrders, ConfirmStopOrders DEF Answer
<1>7. CASE evt = "STOPDTcon"
  <2>1. r = IF l.state = "PENDING_STOPPED" THEN LapSetState(l, "STOPPED") ELSE l
    BY <1>7 DEF EventIndication
  <2>2. f = "STOPDTcon"
    BY <1>7
  <2>3. QED
    BY <1>1, <2>1, <2>2, SetStateOrders DEF Answer
<1>8. CASE evt \in {"FRAMES", "FRAMEI"}
  <2>1. \/ r = l
        \/ r = ConfirmStop(l) /\ l.state = "PENDING_UNCONFD"
    BY <1>8 DEF EventIndication, StopIfAcked
  <2>2. f \notin Order
    BY <1>8 DEF UType
  <2>3. f \notin {"STARTDTact", "STARTDTcon", "STOPDTact", "STOPDTcon"}
    BY <2>2 DEF Order
  <2>4. QED
    BY <1>1, <2>1, <2>2, <2>3, ConfirmStopOrders DEF Answer
<1>9. QED
  BY <1>2, <1>3, <1>4, <1>5, <1>6, <1>7, <1>8 DEF UType

\* EventMasterSlave on a request.
LEMMA RequestTurns ==
    ASSUME NEW l \in LinkType, l.conn, Chat(l.tx), NEW evt, NEW r, r = EventRequest(l, evt)
    PROVE  Turn(l.state, r.state, r.tx)
<1>1. NoOrder(l.tx) /\ NoMsgs(l.tx)
  BY DEF Chat
<1>2. /\ "TESTFRact" \in UType /\ "TESTFRact" \notin Order
      /\ "STARTDTact" \in UType /\ "STARTDTact" \in Order /\ "PENDING_STARTED" \in SSP
      /\ "STOPDTact" \in UType /\ "STOPDTact" \in Order /\ "PENDING_STOPPED" \in SSP
  BY DEF UType, Order, SSP
<1>3. CASE r = LapSendFrameU(l, "TESTFRact")
  <2>1. NoMsgs(r.tx) /\ NoOrder(r.tx) /\ r.state = l.state
    BY <1>2, <1>3, SendUOrders
  <2>2. QED
    BY <2>1 DEF Turn
<1>4. CASE l.state = "STOPPED" /\ r = LapSetState(LapSendFrameU(l, "STARTDTact"), "PENDING_STARTED")
  <2>1. NoMsgs(r.tx) /\ OneOrder(r.tx, "STARTDTact") /\ r.state = "PENDING_STARTED"
    BY <1>2, <1>4, SendUOrders
  <2>2. QED
    BY <1>4, <2>1 DEF Turn
<1>5. CASE l.state = "STARTED" /\ r = LapSetState(LapSendFrameU(l, "STOPDTact"), "PENDING_STOPPED")
  <2>1. NoMsgs(r.tx) /\ OneOrder(r.tx, "STOPDTact") /\ r.state = "PENDING_STOPPED"
    BY <1>2, <1>5, SendUOrders
  <2>2. QED
    BY <1>5, <2>1 DEF Turn
<1>6. CASE r = l
  BY <1>1, <1>6 DEF Turn
<1>7. QED
  BY <1>3, <1>4, <1>5, <1>6 DEF EventRequest

\* A link that was not connected is, and may ask to start.
LEMMA ConnectedTurns ==
    ASSUME NEW i, NEW l \in LinkType, l.conn, l.state = "INIT", Chat(l.tx),
           NEW r, r = EventConnected(i, l)
    PROVE  Turn("STOPPED", r.state, r.tx) /\ r.state # "INIT" /\ r.conn
<1>1. NoOrder(l.tx) /\ NoMsgs(l.tx)
  BY DEF Chat
<1>2. CASE r = LapSetState(l, "STOPPED")
  <2>1. r.state = "STOPPED" /\ r.tx = l.tx /\ r.conn
    BY <1>2, SetStateOrders
  <2>2. QED
    BY <1>1, <2>1 DEF Turn
<1>3. CASE r = LapSetState(LapSendFrameU(l, "STARTDTact"), "PENDING_STARTED")
  <2>1. "STARTDTact" \in UType /\ "STARTDTact" \in Order /\ "PENDING_STARTED" \in SSP
    BY DEF UType, Order, SSP
  <2>2. NoMsgs(r.tx) /\ OneOrder(r.tx, "STARTDTact") /\ r.state = "PENDING_STARTED" /\ r.conn
    BY <1>3, <2>1, SendUOrders
  <2>3. QED
    BY <2>2 DEF Turn
<1>4. QED
  BY <1>2, <1>3 DEF EventConnected

\* An S frame is sent.
LEMMA SendSKeeps ==
    ASSUME NEW l \in LinkType
    PROVE  Keeps(l, LapSendFrameS(l))
<1>1. CASE ~l.fd \/ ~l.conn
  BY <1>1 DEF LapSendFrameS, Keeps
<1>2. CASE l.fd /\ l.conn
  <2>1. l.tx \in Seq(Frame) /\ l.vr \in SeqNo
    BY DEF LinkType
  <2>2. PICK f \in Frame : f = SFrame(l.vr) /\ f.type = "S" /\ f.type \notin Order
    BY <2>1, SFrameType DEF SFrame, Order
  <2>3. Chat(l.tx) => Chat(Append(l.tx, f))
    BY <2>1, <2>2, ChatAppend
  <2>4. LapSendFrameS(l) = [l EXCEPT !.vapeer = l.vr, !.tx = Append(l.tx, f)]
    BY <1>2, <2>2 DEF LapSendFrameS, Write, LinkType
  <2>5. QED
    BY <2>3, <2>4 DEF Keeps, LinkType
<1>3. QED
  BY <1>1, <1>2

\* A frame is refused.
LEMMA SeqErrorKeeps ==
    ASSUME NEW l \in LinkType
    PROVE  Keeps(l, SeqError(l))
<1>1. PICK r : r = [l EXCEPT !.nberr = TRUE]
  OBVIOUS
<1>2. r \in LinkType /\ r.state = l.state /\ r.conn = l.conn /\ r.tx = l.tx
  BY <1>1 DEF LinkType
<1>3. SeqError(l) = LapSendFrameS(r)
  BY <1>1 DEF SeqError
<1>4. QED
  BY <1>2, <1>3, SendSKeeps DEF Keeps

\* Messages are acknowledged.
LEMMA AcknowledgeKeeps ==
    ASSUME NEW l \in LinkType, NEW nr
    PROVE  Keeps(l, Acknowledge(l, nr)) /\ Acknowledge(l, nr).tx = l.tx
BY DEF Acknowledge, LapRunAckQueue, Keeps, LinkType

\* A link that answers nothing keeps its state, whatever was read.
LEMMA KeepsAnswers ==
    ASSUME NEW l, NEW r, Keeps(l, r), Chat(l.tx), NEW f, f \notin Order
    PROVE  Answer(l.state, f, r.state, r.tx) /\ StopRule(l, r)
<1>1. f \notin {"STARTDTact", "STARTDTcon", "STOPDTact", "STOPDTcon"}
  BY DEF Order
<1>2. QED
  BY <1>1 DEF Answer, StopRule, Keeps, Chat

\* An indication changes neither queue.
LEMMA IndicationStops ==
    ASSUME NEW l \in LinkType, WindowOf(l), NEW f \in UType \cup {"FRAMES"},
           NEW r, r = EventIndication(l, f)
    PROVE  StopRule(l, r)
<1>1. r.ackqueue = l.ackqueue
  BY EventIndicationCalm DEF Calm
<1>2. SUFFICES ASSUME l.state = "PENDING_UNCONFD", r.state = "STOPPED"
               PROVE  r.ackqueue = <<>>
  BY DEF StopRule
<1>3. /\ LapSendFrameU(l, "TESTFRcon").state = l.state
      /\ [l EXCEPT !.tFrmSndAt = FALSE].state = l.state
  BY DEF LapSendFrameU, Write, LinkType
<1>4. l.vs = l.va
  BY <1>2, <1>3 DEF EventIndication, StopIfAcked, UType
<1>5. Len(l.ackqueue) = 0
  <2>1. l.va \in SeqNo
    BY DEF LinkType
  <2>2. QED
    BY <1>4, <2>1, DistSelf DEF WindowOf
<1>6. l.ackqueue \in Seq(Unacked)
  BY DEF LinkType
<1>7. QED
  BY <1>1, <1>5, <1>6, EmptySeq

\* The link that AcceptFrameI gives to EventMasterSlave.
LEMMA AcceptAnswers ==
    ASSUME NEW l, LinkInv(l), l.conn, Chat(l.tx), NEW f \in Frame, f.type = "I"
    PROVE  LET r == AcceptFrameI(l, f) IN Answer(l.state, "I", r.state, r.tx)
<1> DEFINE v == NextNo(l.vr)
           t == IF l.iFrmRcvAt = Off THEN 0 ELSE l.iFrmRcvAt
           d == Append(l.rcvd, f.msg)
           e == l.seen \cup {f.msg}
           r == [l EXCEPT !.vr = v, !.iFrmRcvAt = t, !.rcvd = d, !.seen = e]
           s == IF AckDue(r) THEN LapSendFrameS(r) ELSE r
<1>1. /\ l \in LinkType /\ l.vr \in SeqNo /\ l.iFrmRcvAt \in Timer(T2)
      /\ l.rcvd \in Seq(Msg) /\ l.seen \in SUBSET Msg /\ f.msg \in Msg
  BY DEF LinkInv, LinkType, Frame, UType
<1>2. v \in SeqNo /\ t \in Timer(T2) /\ d \in Seq(Msg) /\ e \in SUBSET Msg
  BY <1>1, NextNoCases, TimerAssumption DEF Timer, Off
<1>3. AcceptFrameI(l, f) = EventIndication(s, "FRAMEI")
  BY DEF AcceptFrameI
<1> HIDE DEF v, t, d, e
<1>4. r \in LinkType /\ r.state = l.state /\ r.conn = l.conn /\ r.fd = l.fd /\ r.tx = l.tx
  BY <1>1, <1>2 DEF LinkType
<1> HIDE DEF r
<1>5. Keeps(r, LapSendFrameS(r)) /\ LapSendFrameS(r) \in LinkType
  <2>1. LapSendFrameS(r) \in LinkType
    <3>1. r.vr \in SeqNo /\ r.tx \in Seq(Frame)
      BY <1>4 DEF LinkType
    <3>2. Append(r.tx, SFrame(r.vr)) \in Seq(Frame)
      BY <3>1, SFrameType
    <3>3. PICK x \in Seq(Frame) : x = Append(r.tx, SFrame(r.vr))
      BY <3>2
    <3>4. LapSendFrameS(r) = r \/ LapSendFrameS(r) = [r EXCEPT !.vapeer = r.vr, !.tx = x]
      BY <1>4, <3>3 DEF LapSendFrameS, Write, LinkType
    <3>5. [r EXCEPT !.vapeer = r.vr, !.tx = x] \in LinkType
      BY <1>4, <3>1 DEF LinkType
    <3>6. QED
      BY <1>4, <3>4, <3>5
  <2>2. QED
    BY <1>4, <2>1, SendSKeeps
<1>6. s \in LinkType /\ s.state = l.state /\ s.conn /\ Chat(s.tx)
  BY <1>4, <1>5 DEF Keeps
<1> HIDE DEF s
<1>7. Answer(s.state, "I", EventIndication(s, "FRAMEI").state, EventIndication(s, "FRAMEI").tx)
  <2>1. "I" \notin Order
    BY DEF Order
  <2>2. QED
    BY <1>6, <2>1, IndicationAnswers
<1>8. QED
  BY <1>3, <1>6, <1>7

\* A frame is read.
LEMMA IncomingAnswers ==
    ASSUME NEW l0, LinkInv(l0), l0.conn, Chat(l0.tx), NEW f \in Frame,
           NEW r, r = IncomingFrame(l0, f)
    PROVE  /\ Answer(l0.state, f.type, r.state, r.tx)
           /\ f.type # "I" => StopRule(l0, r)
<1> DEFINE l == [l0 EXCEPT !.xFrmRcvAt = 0]
           u == [l EXCEPT !.uFrmSndAt = Off]
<1>1. /\ 0 \in Timer(T3) /\ Off \in Timer(T1) /\ l0 \in LinkType
  BY TimerAssumption DEF Timer, Off, LinkInv
<1>2. Calm(l0, l) /\ Calm(l, u)
  BY <1>1 DEF Calm, LinkType
<1>3. /\ LinkInv(l) /\ LinkInv(u) /\ l.conn /\ u.conn /\ l \in LinkType /\ u \in LinkType
      /\ l.state = l0.state /\ u.state = l0.state /\ l.tx = l0.tx /\ u.tx = l0.tx
  <2>1. LinkInv(l)
    BY <1>2, CalmKeepsInv DEF Calm
  <2>2. LinkInv(u)
    BY <1>2, <2>1, CalmKeepsInv
  <2>3. QED
    BY <1>1, <1>2, <2>1, <2>2 DEF Calm, LinkType
<1>4. f.nr \in SeqNo /\ f.type \in UType \cup {"S", "I"} /\ "S" \notin Order /\ "I" \notin Order
  BY DEF Frame, Order
<1>5. r = CASE f.type \in {"TESTFRcon", "STOPDTcon", "STARTDTcon"} ->
                EventIndication(u, f.type)
          [] f.type \in {"TESTFRact", "STOPDTact", "STARTDTact"} ->
                EventIndication(l, f.type)
          [] f.type = "S" ->
                IF OKNR(l.va, l.vs, f.nr)
                THEN EventIndication(Acknowledge(l, f.nr), "FRAMES")
                ELSE SeqError(l)
          [] f.type = "I" ->
                IF ~OKNR(l.va, l.vs, f.nr) THEN SeqError(l)
                ELSE IF ~OKNS(l.vr, f.ns) THEN SeqError(Acknowledge(l, f.nr))
                ELSE AcceptFrameI(Acknowledge(l, f.nr), f)
  BY DEF IncomingFrame
<1> HIDE DEF l, u
<1>6. StopRule(l, r) \/ StopRule(u, r) => StopRule(l0, r)
  BY <1>3 DEF StopRule
<1>7. CASE f.type \in UType
  <2>1. r = EventIndication(u, f.type) \/ r = EventIndication(l, f.type)
    BY <1>5, <1>7 DEF UType
  <2>2. Answer(l.state, f.type, r.state, r.tx)
    BY <1>3, <1>7, <2>1, IndicationAnswers
  <2>3. StopRule(l, r) \/ StopRule(u, r)
    BY <1>3, <1>7, <2>1, IndicationStops DEF LinkInv
  <2>4. QED
    BY <1>3, <1>6, <2>2, <2>3
<1>8. ASSUME OKNR(l.va, l.vs, f.nr)
      PROVE  LET a == Acknowledge(l, f.nr)
             IN  /\ LinkInv(a) /\ a \in LinkType /\ a.conn
                 /\ Keeps(l, a) /\ Chat(a.tx) /\ a.state = l.state
  <2>1. LinkInv(Acknowledge(l, f.nr)) /\ Acknowledge(l, f.nr).conn
    BY <1>3, <1>4, <1>8, AcknowledgeInv
  <2>2. Keeps(l, Acknowledge(l, f.nr))
    BY <1>3, AcknowledgeKeeps
  <2>3. QED
    BY <1>3, <2>1, <2>2 DEF Keeps, LinkInv
<1>9. \/ Answer(l.state, f.type, SeqError(l).state, SeqError(l).tx) /\ StopRule(l, SeqError(l))
      \/ f.type \in UType
  BY <1>3, <1>4, SeqErrorKeeps, KeepsAnswers
<1>10. CASE f.type = "S"
  <2>1. CASE ~OKNR(l.va, l.vs, f.nr)
    <3>1. r = SeqError(l)
      BY <1>5, <1>10, <2>1
    <3>2. QED
      BY <1>3, <1>6, <1>9, <1>10, <3>1 DEF UType
  <2>2. CASE OKNR(l.va, l.vs, f.nr)
    <3>1. PICK a : a = Acknowledge(l, f.nr)
      OBVIOUS
    <3>2. LinkInv(a) /\ a \in LinkType /\ a.conn /\ Chat(a.tx) /\ a.state = l.state
      BY <1>8, <2>2, <3>1
    <3>3. r = EventIndication(a, "FRAMES")
      BY <1>5, <1>10, <2>2, <3>1
    <3>4. Answer(a.state, f.type, r.state, r.tx)
      BY <1>4, <1>10, <3>2, <3>3, IndicationAnswers
    <3>5. StopRule(a, r)
      BY <3>2, <3>3, IndicationStops DEF LinkInv
    <3>6. QED
      BY <1>3, <3>2, <3>4, <3>5 DEF StopRule
  <2>3. QED
    BY <2>1, <2>2
<1>11. CASE f.type = "I"
  <2>1. CASE ~OKNR(l.va, l.vs, f.nr)
    <3>1. r = SeqError(l)
      BY <1>5, <1>11, <2>1
    <3>2. QED
      BY <1>3, <1>6, <1>9, <1>11, <3>1 DEF UType
  <2>2. CASE OKNR(l.va, l.vs, f.nr)
    <3>1. PICK a : a = Acknowledge(l, f.nr)
      OBVIOUS
    <3>2. LinkInv(a) /\ a \in LinkType /\ a.conn /\ Chat(a.tx) /\ a.state = l.state
      BY <1>8, <2>2, <3>1
    <3>3. r = SeqError(a) \/ r = AcceptFrameI(a, f)
      BY <1>5, <1>11, <2>2, <3>1
    <3>4. Answer(a.state, f.type, SeqError(a).state, SeqError(a).tx)
      BY <1>4, <1>11, <3>2, SeqErrorKeeps, KeepsAnswers
    <3>5. Answer(a.state, f.type, AcceptFrameI(a, f).state, AcceptFrameI(a, f).tx)
      BY <1>11, <3>2, AcceptAnswers
    <3>6. QED
      BY <1>3, <1>11, <3>2, <3>3, <3>4, <3>5
  <2>3. QED
    BY <2>1, <2>2
<1>12. QED
  BY <1>4, <1>7, <1>10, <1>11

\* The connection is given up: what was written before is no order.
LEMMA DisconnectedRests ==
    ASSUME NEW i, NEW l \in LinkType
    PROVE  LET r == LapDisconnected(i, l)
           IN  r.state = "INIT" /\ ~r.conn /\ ~r.fd /\ r.tx = l.tx
BY DisconnectedInv, DisconnectedWire, DisconnectedCloses

\* r is l after it sent no order, or what is left of it when it was closed.
Rests(l, r) ==
    /\ Chat(r.tx)
    /\ \/ r.state = l.state /\ r.conn = l.conn
       \/ r.state = "INIT" /\ ~r.conn /\ ~r.fd

\* The timers.
LEMMA ClockRests ==
    ASSUME NEW i, NEW l, LinkInv(l), Chat(l.tx), NEW re \in BOOLEAN
    PROVE  Rests(l, LapDoClockSc(i, l, re))
<1> DEFINE a == Aged(l)
           r == IF re THEN LapReConnect(i, a) ELSE a
           s == LapTimerT1T2T3(i, r)
           e == LapTimerAckQueue(i, s)
<1>1. LinkInv(a) /\ a \in LinkType /\ a.state = l.state /\ a.conn = l.conn /\ a.tx = l.tx
  <2>1. l \in LinkType
    BY DEF LinkInv
  <2>2. a.tx = l.tx
    BY <2>1 DEF Aged, LinkType
  <2>3. LinkInv(a) /\ a.state = l.state /\ a.conn = l.conn
    BY AgedInv, AgedQuiet
  <2>4. QED
    BY <2>2, <2>3 DEF LinkInv
<1> HIDE DEF a
<1>2. \A x \in LinkType : Chat(x.tx) => Rests(l, LapDisconnected(i, x))
  BY DisconnectedRests DEF Rests
<1>3. LinkInv(r) /\ Rests(l, r) /\ r \in LinkType
  <2>1. LinkInv(LapDisconnected(i, a))
    BY <1>1, DisconnectedKeeps
  <2>2. r = a \/ r = LapDisconnected(i, a)
    BY DEF LapReConnect
  <2>3. LinkInv(a) /\ Rests(l, a)
    BY <1>1 DEF Rests
  <2>4. QED
    BY <1>1, <1>2, <2>1, <2>2, <2>3 DEF LinkInv
<1> HIDE DEF r
<1>4. LinkInv(s) /\ s \in LinkType
  BY <1>3, TimerT1T2T3Inv DEF LinkInv
<1>5. Rests(l, s)
  <2>1. PICK o : o = [r EXCEPT !.iFrmRcvAt = Off]
    OBVIOUS
  <2>2. \/ s = r \/ s = LapDisconnected(i, r)
        \/ s = LapSendFrameS(o) /\ r.conn
        \/ s = LapSendFrameU(r, "TESTFRact") /\ r.conn
    BY <2>1 DEF LapTimerT1T2T3
  <2>3. o \in LinkType /\ o.state = r.state /\ o.conn = r.conn /\ o.tx = r.tx
    <3>1. Off \in Timer(T2)
      BY TimerAssumption DEF Timer, Off
    <3>2. QED
      BY <1>3, <2>1, <3>1 DEF LinkType
  <2>4. r.conn => Rests(l, LapSendFrameS(o))
    BY <1>3, <2>3, SendSKeeps DEF Keeps, Rests
  <2>5. r.conn => Rests(l, LapSendFrameU(r, "TESTFRact"))
    <3>1. "TESTFRact" \in UType /\ "TESTFRact" \notin Order
      BY DEF UType, Order
    <3>2. r.conn => LET q == LapSendFrameU(r, "TESTFRact")
                    IN  q.conn = r.conn /\ q.state = r.state /\ Chat(q.tx)
      BY <1>3, <3>1, SendUOrders DEF Chat, Rests
    <3>3. QED
      BY <1>3, <3>2 DEF Rests
  <2> HIDE DEF s
  <2>6. QED
    BY <1>2, <1>3, <2>2, <2>4, <2>5 DEF Rests
<1> HIDE DEF s
<1>6. Rests(l, e)
  <2>1. e = s \/ e = LapDisconnected(i, s)
    BY DEF LapTimerAckQueue
  <2>2. Chat(s.tx)
    BY <1>5 DEF Rests
  <2>3. QED
    BY <1>2, <1>4, <1>5, <2>1, <2>2
<1>7. LapDoClockSc(i, l, re) = e
  BY DEF LapDoClockSc, e, s, r, a
<1>8. QED
  BY <1>6, <1>7

\* The out queue is sent by a started link only, and holds no order.
LEMMA RunOutQueueTurns ==
    ASSUME NEW l, LinkInv(l), l.conn, l.state = "STARTED", l.tx = <<>>, NEW fail \in Nat,
           NEW r, r = LapRunOutQueue(l, fail)
    PROVE  Turn(l.state, r.state, r.tx)
<1>1. PICK n \in 0..Len(l.outqueue) : Emits(l, r, n)
  BY RunOutQueueEmits
<1>2. \A p \in 1..Len(r.tx) : r.tx[p].type = "I"
  BY <1>1 DEF Emits
<1>3. NoOrder(r.tx)
  BY <1>2 DEF NoOrder, Order
<1>4. r.state = l.state
  <2>1. l \in LinkType
    BY DEF LinkInv
  <2>2. QED
    BY <2>1 DEF LapRunOutQueue, SendFirst, LinkType
<1>5. QED
  BY <1>3, <1>4 DEF Turn

-----------------------------------------------------------------------------
(* The invariant of the start/stop procedure *)

\* A link is in a state of the procedure while it is connected; nothing to
\* number comes after the order to stop, nor while its confirmation waits;
\* and the ends of a connection agree.
StartInv ==
    /\ \A i \in Link : lk[i].state = "INIT" <=> ~lk[i].conn
    /\ \A i \in Link : /\ Hushed(net[i])
                       /\ lk[i].state = "PENDING_UNCONFD" => NoMsgs(net[i])
    /\ \A c \in Conn :
         Together(c) => Agree(Phase(lk[Cli]), Phase(lk[c]), net[Cli], net[c])

\* Both ends say the same of their agreement.
LEMMA AgreeBoth == \A a, b, v, w : Agree(a, b, v, w) <=> Agree(b, a, w, v)
BY DEF Agree, AtRest

\* The agreement of link i and the link at the other end.
LEMMA OwnAgreement ==
    ASSUME StartInv, NEW i \in Link, ConnOf(i) \in Conn, Together(ConnOf(i))
    PROVE  Agree(Phase(lk[Peer(i)]), Phase(lk[i]), net[Peer(i)], net[i])
<1>1. PICK c \in Conn : c = ConnOf(i) /\ cur = c
  BY DEF Together
<1>2. Agree(Phase(lk[Cli]), Phase(lk[c]), net[Cli], net[c])
  BY <1>1 DEF StartInv
<1>3. (i = Cli /\ Peer(i) = c) \/ (i = c /\ Peer(i) = Cli)
  BY <1>1 DEF ConnOf, Peer
<1>4. QED
  BY <1>2, <1>3, AgreeBoth

\* What an end sends of itself keeps the other wire hushed.
LEMMA TurnHushes ==
    ASSUME NEW a, NEW b, NEW c, NEW u \in Seq(Frame), NEW v \in Seq(Frame), NEW w,
           Agree(a, b, v, w), Turn(b, c, u), Hushed(v), a = "PENDING_UNCONFD" => NoMsgs(v)
    PROVE  Hushed(v \o u) /\ (a = "PENDING_UNCONFD" => NoMsgs(v \o u))
<1>1. CASE NoMsgs(u)
  BY <1>1, HushedJoined
<1>2. CASE ~NoMsgs(u)
  <2>1. b = "STARTED" /\ NoOrder(u)
    BY <1>2 DEF Turn
  <2>2. /\ a # "PENDING_UNCONFD"
        /\ NoOrder(v) \/ OneOrder(v, "STARTDTcon")
    <3>1. ~Asked(b, a, w, v)
      BY <2>1 DEF Asked
    <3>2. QED
      BY <2>1, <3>1 DEF Agree, AtRest, Asked
  <2>3. QED
    BY <2>1, <2>2, HushedJoined
<1>3. QED
  BY <1>1, <1>2

-----------------------------------------------------------------------------
(* Every step is one of two kinds *)

\* l is what one event made of link i: it turned, it answered a frame it
\* read, or it was closed.
Swayed(i, l) ==
    /\ l \in LinkType
    /\ l.state = "INIT" <=> ~l.conn
    /\ \/ net'[i] = net[i] /\ Turn(Phase(lk[i]), Phase(l), l.tx)
       \/ /\ net[i] # <<>> /\ net'[i] = Tail(net[i])
          /\ Answer(Phase(lk[i]), Head(net[i]).type, Phase(l), l.tx)
          /\ StopRule(lk[i], l)
       \/ /\ l.state = "INIT" /\ net'[i] = <<>> /\ NoMsgs(l.tx)
          /\ \A c \in Conn : Together(c)' => c # ConnOf(i)

\* Link i becomes l and sends what l wrote, if the other end is there.
Sways(i) ==
    /\ ConnOf(i) \in Conn /\ Peer(i) \in Link /\ Peer(i) # i
    /\ \A c \in Conn : Together(c)' => Together(c)
    /\ \E l : /\ Swayed(i, l)
              /\ lk' = [lk EXCEPT ![i] = [l EXCEPT !.tx = <<>>]]
              /\ \A j \in Link \ {i} :
                   net'[j] = IF Together(ConnOf(i)) /\ j = Peer(i) THEN net[j] \o l.tx
                             ELSE net[j]

\* The state of every link stays, or the link is closed; two ends come
\* together anew only when neither is connected.
Rested ==
    /\ \A j \in Link :
         /\ \/ lk'[j].state = lk[j].state /\ lk'[j].conn = lk[j].conn
            \/ lk'[j].state = "INIT" /\ ~lk'[j].conn
         /\ net'[j] = net[j] \/ net'[j] = <<>>
    /\ \A c \in Conn : Together(c)' =>
         \/ /\ Together(c) /\ net'[c] = net[c] /\ net'[Cli] = net[Cli]
            /\ lk'[c].state = lk[c].state /\ lk'[Cli].state = lk[Cli].state
         \/ /\ net'[c] = <<>> /\ net'[Cli] = <<>>
            /\ lk'[c].state = "INIT" /\ lk'[Cli].state = "INIT"

LEMMA RestedStart ==
    ASSUME StartInv, Rested
    PROVE  StartInv' /\ \A j \in Link : StopRule(lk[j], lk'[j])
<1>1. \A j \in Link : lk'[j].state = "INIT" <=> ~lk'[j].conn
  BY DEF StartInv, Rested
<1>2. \A j \in Link : /\ Hushed(net'[j])
                      /\ lk'[j].state = "PENDING_UNCONFD" => NoMsgs(net'[j])
  BY NothingSent DEF StartInv, Rested, Chat
<1>3. ASSUME NEW c \in Conn, Together(c)'
      PROVE  Agree(Phase(lk'[Cli]), Phase(lk'[c]), net'[Cli], net'[c])
  <2>1. CASE /\ Together(c) /\ net'[c] = net[c] /\ net'[Cli] = net[Cli]
             /\ lk'[c].state = lk[c].state /\ lk'[Cli].state = lk[Cli].state
    <3>1. Phase(lk'[c]) = Phase(lk[c]) /\ Phase(lk'[Cli]) = Phase(lk[Cli])
      BY <2>1 DEF Phase
    <3>2. Agree(Phase(lk[Cli]), Phase(lk[c]), net[Cli], net[c])
      BY <2>1 DEF StartInv
    <3>3. QED
      BY <2>1, <3>1, <3>2
  <2>2. CASE /\ net'[c] = <<>> /\ net'[Cli] = <<>>
             /\ lk'[c].state = "INIT" /\ lk'[Cli].state = "INIT"
    <3>1. Phase(lk'[c]) = "STOPPED" /\ Phase(lk'[Cli]) = "STOPPED"
      BY <2>2 DEF Phase
    <3>2. NoOrder(net'[c]) /\ NoOrder(net'[Cli])
      BY <2>2, NothingSent DEF Chat
    <3>3. QED
      BY <3>1, <3>2 DEF Agree, AtRest
  <2>3. QED
    BY <1>3, <2>1, <2>2 DEF Rested
<1>4. \A j \in Link : StopRule(lk[j], lk'[j])
  <2>1. \A j \in Link : lk'[j].state = lk[j].state \/ lk'[j].state = "INIT"
    BY DEF Rested
  <2>2. QED
    BY <2>1 DEF StopRule
<1>5. QED
  BY <1>1, <1>2, <1>3, <1>4 DEF StartInv

LEMMA SwaysStart ==
    ASSUME LinksInv, StartInv, NEW i \in Link, Sways(i)
    PROVE  StartInv' /\ \A j \in Link : StopRule(lk[j], lk'[j])
<1>1. PICK l : /\ Swayed(i, l)
               /\ lk' = [lk EXCEPT ![i] = [l EXCEPT !.tx = <<>>]]
               /\ \A j \in Link \ {i} :
                    net'[j] = IF Together(ConnOf(i)) /\ j = Peer(i) THEN net[j] \o l.tx
                              ELSE net[j]
  BY DEF Sways
<1>2. PICK r : r = [l EXCEPT !.tx = <<>>]
  OBVIOUS
<1>3. /\ l \in LinkType /\ l.tx \in Seq(Frame) /\ lk \in [Link -> LinkType]
      /\ net \in [Link -> Seq(Frame)]
      /\ r.state = l.state /\ r.conn = l.conn /\ r.ackqueue = l.ackqueue
  BY <1>1, <1>2 DEF Swayed, LinkType, LinksInv, TypeOK
<1>4. lk'[i] = r /\ \A j \in Link : j # i => lk'[j] = lk[j]
  BY <1>1, <1>2, <1>3
<1>5. PICK p \in Link : p = Peer(i) /\ p # i /\ ConnOf(i) \in Conn
  BY DEF Sways
<1>6. net'[p] = (IF Together(ConnOf(i)) THEN net[p] \o l.tx ELSE net[p])
      /\ \A j \in Link : j # i /\ j # p => net'[j] = net[j]
  BY <1>1, <1>5
<1>7. Phase(r) = Phase(l)
  BY <1>3 DEF Phase
<1>8. Together(ConnOf(i)) => Agree(Phase(lk[p]), Phase(lk[i]), net[p], net[i])
  BY <1>5, OwnAgreement
<1>9. \A j \in Link : lk'[j].state = "INIT" <=> ~lk'[j].conn
  BY <1>1, <1>3, <1>4 DEF Swayed, StartInv
<1>10. Hushed(net[i]) /\ Hushed(net[p]) /\ net[i] \in Seq(Frame) /\ net[p] \in Seq(Frame)
       /\ (lk[i].state = "PENDING_UNCONFD" => NoMsgs(net[i]))
       /\ (lk[p].state = "PENDING_UNCONFD" => NoMsgs(net[p]))
  BY <1>3 DEF StartInv
<1>11. Hushed(net'[i]) /\ (lk'[i].state = "PENDING_UNCONFD" => NoMsgs(net'[i]))
  <2>1. CASE net'[i] = net[i] /\ Turn(Phase(lk[i]), Phase(l), l.tx)
    <3>1. l.state = "PENDING_UNCONFD" => lk[i].state = "PENDING_UNCONFD"
      BY <2>1 DEF Turn, Phase
    <3>2. QED
      BY <1>3, <1>4, <1>10, <2>1, <3>1
  <2>2. CASE /\ net[i] # <<>> /\ net'[i] = Tail(net[i])
             /\ Answer(Phase(lk[i]), Head(net[i]).type, Phase(l), l.tx)
    <3>1. l.state = "PENDING_UNCONFD" =>
             lk[i].state = "PENDING_UNCONFD" \/ Head(net[i]).type = "STOPDTact"
      BY <2>2 DEF Answer, Phase
    <3>2. /\ Hushed(Tail(net[i]))
          /\ Head(net[i]).type = "STOPDTact" => NoMsgs(Tail(net[i]))
          /\ NoMsgs(net[i]) => NoMsgs(Tail(net[i]))
      BY <1>10, <2>2, HushedRead
    <3>3. QED
      BY <1>3, <1>4, <1>10, <2>2, <3>1, <3>2
  <2>3. CASE l.state = "INIT" /\ net'[i] = <<>>
    BY <1>3, <1>4, <2>3, NothingSent
  <2>4. QED
    BY <1>1, <2>1, <2>2, <2>3 DEF Swayed
<1>12. Hushed(net'[p]) /\ (lk'[p].state = "PENDING_UNCONFD" => NoMsgs(net'[p]))
  <2>1. lk'[p] = lk[p]
    BY <1>4, <1>5
  <2>2. CASE ~Together(ConnOf(i))
    BY <1>6, <1>10, <2>1, <2>2
  <2>3. CASE Together(ConnOf(i)) /\ NoMsgs(l.tx)
    BY <1>3, <1>6, <1>10, <2>1, <2>3, HushedJoined
  <2>4. CASE Together(ConnOf(i)) /\ ~NoMsgs(l.tx)
    <3>1. Turn(Phase(lk[i]), Phase(l), l.tx)
      BY <1>1, <2>4 DEF Swayed, Answer
    <3>2. Phase(lk[p]) = "PENDING_UNCONFD" <=> lk[p].state = "PENDING_UNCONFD"
      BY DEF Phase
    <3>3. QED
      BY <1>3, <1>6, <1>8, <1>10, <2>1, <2>4, <3>1, <3>2, TurnHushes
  <2>5. QED
    BY <2>2, <2>3, <2>4
<1>13. \A j \in Link : /\ Hushed(net'[j])
                       /\ lk'[j].state = "PENDING_UNCONFD" => NoMsgs(net'[j])
  BY <1>4, <1>6, <1>11, <1>12 DEF StartInv
<1>14. ASSUME NEW c \in Conn, Together(c)'
       PROVE  Agree(Phase(lk'[Cli]), Phase(lk'[c]), net'[Cli], net'[c])
  <2>1. Together(c) /\ Cli \in Link /\ c \in Link /\ c # Cli
    BY <1>14, ConnAssumption DEF Sways, Link
  <2>2. CASE c = ConnOf(i)
    <3>1. Agree(Phase(lk[p]), Phase(lk[i]), net[p], net[i]) /\ net'[p] = net[p] \o l.tx
      BY <1>6, <1>8, <2>1, <2>2
    <3>2. Agree(Phase(lk[p]), Phase(l), net[p] \o l.tx, net'[i])
      <4>1. CASE net'[i] = net[i] /\ Turn(Phase(lk[i]), Phase(l), l.tx)
        BY <1>3, <1>10, <3>1, <4>1, TurnAgrees
      <4>2. CASE /\ net[i] # <<>> /\ net'[i] = Tail(net[i])
                 /\ Answer(Phase(lk[i]), Head(net[i]).type, Phase(l), l.tx)
        BY <1>3, <1>10, <3>1, <4>2, AnswerAgrees
      <4>3. QED
        BY <1>1, <1>14, <2>2, <4>1, <4>2 DEF Swayed
    <3>3. Agree(Phase(lk'[p]), Phase(lk'[i]), net'[p], net'[i])
      BY <1>4, <1>5, <1>7, <3>1, <3>2
    <3>4. (i = Cli /\ p = c) \/ (i = c /\ p = Cli)
      BY <1>5, <2>1, <2>2 DEF ConnOf, Peer, Together
    <3>5. QED
      BY <3>3, <3>4, AgreeBoth
  <2>3. CASE c # ConnOf(i)
    <3>1. cur = c
      BY <2>1 DEF Together
    <3>2. i # Cli /\ i # c /\ p = Cli /\ ~Together(ConnOf(i))
      BY <1>5, <2>3, <3>1 DEF ConnOf, Peer, Together
    <3>3. lk'[Cli] = lk[Cli] /\ lk'[c] = lk[c] /\ net'[Cli] = net[Cli] /\ net'[c] = net[c]
      BY <1>4, <1>6, <2>1, <3>2
    <3>4. Agree(Phase(lk[Cli]), Phase(lk[c]), net[Cli], net[c])
      BY <2>1 DEF StartInv
    <3>5. QED
      BY <3>3, <3>4
  <2>4. QED
    BY <2>2, <2>3
<1>15. \A j \in Link : StopRule(lk[j], lk'[j])
  <2>1. \A j \in Link : j # i => StopRule(lk[j], lk'[j])
    BY <1>4 DEF StopRule
  <2>2. StopRule(lk[i], l)
    <3>1. Turn(Phase(lk[i]), Phase(l), l.tx) => StopRule(lk[i], l)
      BY DEF Turn, Phase, StopRule
    <3>2. l.state = "INIT" => StopRule(lk[i], l)
      BY DEF StopRule
    <3>3. QED
      BY <1>1, <3>1, <3>2 DEF Swayed
  <2>3. StopRule(lk[i], lk'[i])
    BY <1>3, <1>4, <2>2 DEF StopRule
  <2>4. QED
    BY <2>1, <2>3
<1>16. QED
  BY <1>9, <1>13, <1>14, <1>15 DEF StartInv

\* A link that commits.
LEMMA CommitSways ==
    ASSUME LinksInv, ConnInv, NEW i \in Link, lk[i].fd, NEW l \in LinkType, Commit(i, l),
           up' = up, l.state = "INIT" <=> ~l.conn,
           l.fd => Turn(Phase(lk[i]), Phase(l), l.tx),
           ~l.fd => l.state = "INIT" /\ NoMsgs(l.tx)
    PROVE  Sways(i)
<1>1. /\ ConnOf(i) \in Conn /\ Peer(i) \in Link /\ Peer(i) # i
      /\ PeerThere(i) /\ up[ConnOf(i)] <=> Together(ConnOf(i))
  BY Sends
<1>2. /\ lk' = [lk EXCEPT ![i] = [l EXCEPT !.tx = <<>>]]
      /\ net'[i] = (IF ~l.fd THEN <<>> ELSE net[i])
      /\ \A j \in Link \ {i} :
           net'[j] = IF Together(ConnOf(i)) /\ j = Peer(i) THEN net[j] \o l.tx ELSE net[j]
      /\ cur' = IF ~l.fd /\ i = Cli THEN NoConn ELSE cur
      /\ tcp' = IF l.fd THEN tcp
                ELSE IF i = Cli
                     THEN [tcp EXCEPT ![ConnOf(i)] = IF @ \in {"syn", "shut"} THEN "free" ELSE @]
                     ELSE [tcp EXCEPT ![ConnOf(i)] = IF cur = ConnOf(i) THEN "shut" ELSE "free"]
  BY <1>1 DEF Commit
<1>3. tcp \in [Conn -> {"free", "syn", "backlog", "open", "shut"}]
  BY DEF LinksInv, TypeOK
<1>4. CASE l.fd
  <2>1. \A c \in Conn : Together(c)' => Together(c)
    BY <1>2, <1>4 DEF Together
  <2>2. Swayed(i, l)
    BY <1>2, <1>4 DEF Swayed
  <2>3. QED
    BY <1>1, <1>2, <2>1, <2>2 DEF Sways
<1>5. CASE ~l.fd
  <2>1. \A c \in Conn : Together(c)' => Together(c) /\ c # ConnOf(i)
    <3>1. CASE i = Cli
      BY <1>2, <1>5, <3>1, ConnAssumption DEF Together
    <3>2. CASE i # Cli
      <4>1. ConnOf(i) = i /\ cur' = cur
        BY <1>2, <3>2 DEF ConnOf
      <4>2. /\ tcp'[i] \in {"shut", "free"}
            /\ \A c \in Conn : c # i => tcp'[c] = tcp[c]
        BY <1>1, <1>2, <1>3, <1>5, <3>2, <4>1
      <4>3. QED
        BY <4>1, <4>2 DEF Together
    <3>3. QED
      BY <3>1, <3>2
  <2>2. Swayed(i, l)
    BY <1>2, <1>5, <2>1 DEF Swayed
  <2>3. QED
    BY <1>1, <1>2, <2>1, <2>2 DEF Sways
<1>6. QED
  BY <1>4, <1>5 DEF LinkType

\* A link that closes its connection.
LEMMA ClosingSways ==
    ASSUME LinksInv, ConnInv, NEW i \in Link, lk[i].fd, up' = up,
           Commit(i, LapDisconnected(i, lk[i]))
    PROVE  Sways(i)
<1>1. PICK l : l = LapDisconnected(i, lk[i])
  OBVIOUS
<1>2. lk[i] \in LinkType /\ lk[i].tx = <<>>
  BY DEF LinksInv, TypeOK
<1>3. l \in LinkType
  BY <1>1, <1>2, DisconnectedInv DEF LinkInv
<1>4. l.state = "INIT" /\ ~l.conn /\ ~l.fd /\ l.tx = <<>>
  BY <1>1, <1>2, DisconnectedRests
<1>5. NoMsgs(l.tx)
  BY <1>4, NothingSent DEF Chat
<1>6. QED
  BY <1>1, <1>3, <1>4, <1>5, CommitSways

LEMMA LinkStepSways ==
    ASSUME LinksInv, WireInv, StartInv, NEW i \in Link, LinkStep(i)
    PROVE  Sways(i) \/ Rested
<1>1. /\ LinkInv(lk[i]) /\ lk[i] \in LinkType /\ net[i] \in Seq(Frame)
      /\ CountInv(lk[i]) /\ Readable(lk[i], net[i], Seen) /\ ConnInv
      /\ lk[i].conn => lk[i].fd
      /\ lk[i].tx = <<>> /\ Chat(lk[i].tx) /\ NoMsgs(lk[i].tx)
      /\ lk[i].state = "INIT" <=> ~lk[i].conn
  BY NothingSent DEF LinksInv, LinkInv, TypeOK, WireInv, WireOf, StartInv, Chat
<1>2. CASE Recv(i)
  <2>1. PICK f \in Frame : f = Head(net[i]) /\ net[i] # <<>> /\ lk[i].conn
    BY <1>1, <1>2 DEF Recv
  <2>2. PICK l : l = IncomingFrame(lk[i], f)
    OBVIOUS
  <2>3. LinkInv(l) /\ l \in LinkType /\ l.conn
    <3>1. LinkInv(l)
      BY <1>1, <2>1, <2>2, IncomingFrameInv
    <3>2. Heard(lk[i], net[i], l)
      BY <1>1, <2>1, <2>2, IncomingFrameMoves
    <3>3. QED
      BY <2>1, <3>1, <3>2 DEF LinkInv, Heard
  <2>4. Answer(lk[i].state, f.type, l.state, l.tx) /\ (f.type # "I" => StopRule(lk[i], l))
    BY <1>1, <2>1, <2>2, IncomingAnswers
  <2>5. lk[i].state # "INIT"
    BY <1>1, <2>1
  <2>6. l.state # "INIT"
    BY <2>4, <2>5 DEF Answer
  <2>7. Answer(Phase(lk[i]), f.type, Phase(l), l.tx)
    BY <2>4, <2>5, <2>6 DEF Phase
  <2>8. StopRule(lk[i], l)
    <3>1. lk[i].state = "PENDING_UNCONFD" => f.type # "I"
      BY <1>1, <2>1, HushedRead DEF StartInv
    <3>2. QED
      BY <2>4, <3>1 DEF StopRule
  <2>9. /\ ConnOf(i) \in Conn /\ Peer(i) \in Link /\ Peer(i) # i
        /\ PeerThere(i) /\ up[ConnOf(i)] <=> Together(ConnOf(i))
    BY <1>1, <2>1, Sends
  <2>10. /\ lk' = [lk EXCEPT ![i] = [l EXCEPT !.tx = <<>>]]
         /\ net'[i] = Tail(net[i])
         /\ \A j \in Link \ {i} :
              net'[j] = IF Together(ConnOf(i)) /\ j = Peer(i) THEN net[j] \o l.tx ELSE net[j]
         /\ tcp' = tcp /\ cur' = cur /\ up' = up
    BY <1>2, <2>1, <2>2, <2>9 DEF Recv
  <2>11. Swayed(i, l)
    BY <2>1, <2>3, <2>6, <2>7, <2>8, <2>10 DEF Swayed
  <2>12. \A c \in Conn : Together(c)' => Together(c)
    BY <2>10 DEF Together
  <2>13. QED
    BY <2>9, <2>10, <2>11, <2>12 DEF Sways
<1>3. CASE Send(i)
  <2>1. PICK fail \in Nat : Commit(i, LapRunOutQueue(lk[i], fail))
    BY <1>3, WindowAssumption, NAssumption DEF Send
  <2>2. PICK l : l = LapRunOutQueue(lk[i], fail)
    OBVIOUS
  <2>3. lk[i].conn /\ up' = up /\ lk[i].state = "STARTED"
    BY <1>3 DEF Send, WantsPollOut
  <2>4. LinkInv(l) /\ l \in LinkType
    BY <1>1, <2>2, RunOutQueueInv DEF LinkInv
  <2>5. l.conn /\ l.fd
    <3>1. l.conn
      BY <1>1, <2>2, <2>3, RunOutQueueMoves
    <3>2. QED
      BY <2>4, <3>1 DEF LinkInv
  <2>6. Turn(lk[i].state, l.state, l.tx)
    BY <1>1, <2>2, <2>3, RunOutQueueTurns
  <2>7. l.state # "INIT"
    BY <2>3, <2>6 DEF Turn
  <2>8. Turn(Phase(lk[i]), Phase(l), l.tx)
    BY <2>3, <2>6, <2>7 DEF Phase
  <2>9. QED
    BY <1>1, <2>1, <2>2, <2>3, <2>4, <2>5, <2>7, <2>8, CommitSways
<1>4. CASE ReadEof(i) \/ ReadError(i) \/ Disc(i)
  <2>1. lk[i].fd /\ Commit(i, LapDisconnected(i, lk[i])) /\ up' = up
    BY <1>1, <1>4 DEF ReadEof, ReadError, Disc, AtEof
  <2>2. QED
    BY <1>1, <2>1, ClosingSways
<1>5. CASE \E re \in BOOLEAN : ClockSc(i, re)
  <2>1. PICK re \in BOOLEAN : ClockSc(i, re)
    BY <1>5
  <2>2. PICK l : l = LapDoClockSc(i, lk[i], re)
    OBVIOUS
  <2>3. LinkInv(l) /\ l \in LinkType /\ (l.conn => l.fd)
    BY <1>1, <2>2, ClockInv DEF LinkInv
  <2>4. Rests(lk[i], l)
    BY <1>1, <2>2, ClockRests
  <2>5. lk[i].fd /\ Commit(i, l) /\ up' = up
    BY <2>1, <2>2 DEF ClockSc
  <2>6. /\ l.state = "INIT" <=> ~l.conn
        /\ ~l.fd => l.state = "INIT"
        /\ l.fd => l.state = lk[i].state
    BY <1>1, <2>3, <2>4 DEF Rests
  <2>7. NoOrder(l.tx) /\ NoMsgs(l.tx)
    BY <2>4 DEF Rests, Chat
  <2>8. l.fd => Turn(Phase(lk[i]), Phase(l), l.tx)
    BY <2>6, <2>7 DEF Turn, Phase
  <2>9. QED
    BY <1>1, <2>3, <2>5, <2>6, <2>7, <2>8, CommitSways
<1>6. CASE \E evt \in {"STARTDTact", "STOPDTact", "TESTFRact"} : Request(i, evt)
  <2>1. PICK evt : Request(i, evt)
    BY <1>6
  <2>2. PICK l : l = EventRequest(lk[i], evt)
    OBVIOUS
  <2>3. lk[i].conn /\ lk[i].fd /\ Commit(i, l) /\ up' = up
    BY <1>1, <2>1, <2>2 DEF Request
  <2>4. l \in LinkType /\ l.conn = lk[i].conn /\ l.fd = lk[i].fd
    BY <1>1, <2>2, EventRequestCalm DEF Calm
  <2>5. Turn(lk[i].state, l.state, l.tx)
    BY <1>1, <2>2, <2>3, RequestTurns
  <2>6. lk[i].state # "INIT" /\ l.state # "INIT"
    BY <1>1, <2>3, <2>5 DEF Turn
  <2>7. Turn(Phase(lk[i]), Phase(l), l.tx)
    BY <2>5, <2>6 DEF Phase
  <2>8. QED
    BY <1>1, <2>3, <2>4, <2>6, <2>7, CommitSways
<1>7. CASE PutOutQueue(i)
  <2>1. PICK o : o = Append(lk[i].outqueue, used["put"] + 1)
    OBVIOUS
  <2>2. PICK r : r = [lk[i] EXCEPT !.outqueue = o]
    OBVIOUS
  <2>3. r.state = lk[i].state /\ r.conn = lk[i].conn
    BY <1>1, <2>2 DEF LinkType
  <2>4. lk \in [Link -> LinkType]
    BY DEF LinksInv, TypeOK
  <2>5. lk' = [lk EXCEPT ![i] = r]
    BY <1>7, <2>1, <2>2, <2>4 DEF PutOutQueue
  <2>6. \A j \in Link : lk'[j].state = lk[j].state /\ lk'[j].conn = lk[j].conn
    BY <2>3, <2>4, <2>5
  <2>7. net' = net /\ tcp' = tcp /\ cur' = cur /\ up' = up
    BY <1>7 DEF PutOutQueue
  <2>8. \A c \in Conn : c \in Link /\ Cli \in Link /\ (Together(c)' => Together(c))
    BY <2>7 DEF Together, Link
  <2>9. QED
    BY <2>6, <2>7, <2>8 DEF Rested
<1>8. QED
  BY <1>2, <1>3, <1>4, <1>5, <1>6, <1>7 DEF LinkStep

\* Connections come and go.
LEMMA ConnStepSways ==
    ASSUME LinksInv, ConnInv, StartInv, NEW c \in Conn, ConnStep(c)
    PROVE  Sways(c) \/ Rested
<1>1. /\ c \in Link /\ Cli \in Link /\ c # Cli /\ Conn \subseteq Link /\ NoConn \notin Conn
      /\ lk \in [Link -> LinkType] /\ net \in [Link -> Seq(Frame)]
      /\ up \in [Conn -> BOOLEAN]
      /\ tcp \in [Conn -> {"free", "syn", "backlog", "open", "shut"}]
      /\ lk[c] \in LinkType /\ lk[c].tx = <<>> /\ Chat(lk[c].tx)
      /\ \A j \in Link : lk[j] \in LinkType /\ (lk[j].conn => lk[j].fd)
  BY ConnAssumption, NothingSent DEF LinksInv, LinkInv, TypeOK, Link
<1>2. CASE Dial(c)
  <2>1. PICK r : r = [lk[Cli] EXCEPT !.fd = TRUE, !.progAt = 0]
    OBVIOUS
  <2>2. r.state = lk[Cli].state /\ r.conn = lk[Cli].conn
    BY <1>1, <2>1 DEF LinkType
  <2>3. lk' = [lk EXCEPT ![Cli] = r] /\ net' = net /\ cur' = c /\ tcp' = [tcp EXCEPT ![c] = "syn"]
    BY <1>1, <1>2, <2>1 DEF Dial
  <2>4. \A j \in Link : lk'[j].state = lk[j].state /\ lk'[j].conn = lk[j].conn
    BY <1>1, <2>2, <2>3
  <2>5. \A d \in Conn : ~Together(d)'
    BY <1>1, <2>3 DEF Together
  <2>6. QED
    BY <2>3, <2>4, <2>5 DEF Rested
<1>3. CASE Handshake(c)
  <2>1. lk' = lk /\ net' = net /\ cur' = cur /\ up' = up /\ tcp' = [tcp EXCEPT ![c] = "backlog"]
        /\ tcp[c] = "syn"
    BY <1>3 DEF Handshake
  <2>2. cur = c /\ net[Cli] = <<>> /\ net[c] = <<>> /\ ~lk[Cli].conn /\ ~lk[c].conn
    BY <1>1, <2>1 DEF ConnInv
  <2>3. lk[Cli].state = "INIT" /\ lk[c].state = "INIT"
    BY <1>1, <2>2 DEF StartInv
  <2>4. \A d \in Conn : Together(d)' => d = c
    BY <2>1, <2>2 DEF Together
  <2>5. QED
    BY <2>1, <2>2, <2>3, <2>4 DEF Rested
<1>4. CASE Accept(c)
  <2>1. PICK k : k = LapReset(lk[c], TRUE)
    OBVIOUS
  <2>2. PICK q : q = [k EXCEPT !.fd = TRUE, !.conn = TRUE]
    OBVIOUS
  <2>3. PICK l : l = EventConnected(c, q)
    OBVIOUS
  <2>4. /\ tcp[c] = "backlog"
        /\ lk' = [lk EXCEPT ![c] = [l EXCEPT !.tx = <<>>]]
        /\ net' = IF cur = c /\ up[c] THEN [net EXCEPT ![Cli] = @ \o l.tx] ELSE net
        /\ tcp' = [tcp EXCEPT ![c] = "open"] /\ cur' = cur /\ up' = up
    BY <1>4, <2>1, <2>2, <2>3 DEF Accept
  <2>5. lk[c].state = "INIT"
    BY <1>1, <2>4 DEF ConnInv, StartInv
  <2>6. k \in LinkType /\ k.tx = lk[c].tx /\ k.state = "INIT"
    <3>1. k \in LinkType /\ k.tx = lk[c].tx
      BY <1>1, <2>1, ResetInv DEF LinkInv
    <3>2. QED
      BY <2>1, <3>1 DEF LapReset, NewLink
  <2>7. q \in LinkType /\ q.conn /\ q.state = "INIT" /\ q.tx = lk[c].tx
    BY <2>2, <2>6 DEF LinkType
  <2>8. l \in LinkType
    BY <2>3, <2>7, EventConnectedCalm DEF Calm
  <2>9. Turn("STOPPED", l.state, l.tx) /\ l.state # "INIT" /\ l.conn
    BY <1>1, <2>3, <2>7, ConnectedTurns
  <2>10. Turn(Phase(lk[c]), Phase(l), l.tx)
    BY <2>5, <2>9 DEF Phase
  <2>11. ConnOf(c) = c /\ Peer(c) = Cli /\ (Together(c) <=> cur = c /\ up[c])
    BY <1>1, <2>4 DEF ConnOf, Peer, Together
  <2>12. /\ net'[c] = net[c]
         /\ \A j \in Link \ {c} :
              net'[j] = IF Together(ConnOf(c)) /\ j = Peer(c) THEN net[j] \o l.tx ELSE net[j]
    BY <1>1, <2>4, <2>11
  <2>13. \A d \in Conn : Together(d)' => Together(d)
    BY <1>1, <2>4 DEF Together
  <2>14. Swayed(c, l)
    BY <2>8, <2>9, <2>10, <2>12 DEF Swayed
  <2>15. QED
    BY <1>1, <2>4, <2>11, <2>12, <2>13, <2>14 DEF Sways
<1>5. CASE AcceptRefused(c)
  <2>1. lk' = lk /\ net' = [net EXCEPT ![c] = <<>>] /\ cur' = cur /\ up' = up
        /\ tcp' = [tcp EXCEPT ![c] = IF cur = c THEN "shut" ELSE "free"]
    BY <1>5 DEF AcceptRefused
  <2>2. \A d \in Conn : Together(d)' => d # c /\ Together(d)
    BY <1>1, <2>1 DEF Together
  <2>3. QED
    BY <1>1, <2>1, <2>2 DEF Rested
<1>6. CASE PollMarked(c)
  <2>1. lk[c].fd /\ up' = up /\ Commit(c, LapDisconnected(c, lk[c]))
    BY <1>1, <1>6 DEF PollMarked, ConnInv
  <2>2. QED
    BY <1>1, <2>1, ClosingSways
<1>7. CASE Cut(c)
  <2>1. /\ lk' = lk /\ cur' = cur /\ tcp' = tcp /\ up' = [up EXCEPT ![c] = FALSE]
        /\ net' = [j \in Link |-> IF j = c \/ (j = Cli /\ cur = c) THEN <<>> ELSE net[j]]
    BY <1>7 DEF Cut
  <2>2. \A d \in Conn : Together(d)' => d # c /\ cur = d /\ Together(d)
    BY <1>1, <2>1 DEF Together
  <2>3. \A d \in Conn : Together(d)' => net'[d] = net[d] /\ net'[Cli] = net[Cli]
    BY <1>1, <2>1, <2>2, ConnAssumption
  <2>4. QED
    BY <1>1, <2>1, <2>2, <2>3 DEF Rested
<1>8. QED
  BY <1>2, <1>3, <1>4, <1>5, <1>6, <1>7 DEF ConnStep

\* Every step preserves the invariant and the rule of StopConfirmed.
LEMMA NextStart ==
    ASSUME LinksInv, WireInv, StartInv, [Next]_vars
    PROVE  StartInv' /\ \A j \in Link : StopRule(lk[j], lk'[j])
<1>1. /\ Cli \in Link /\ Conn \subseteq Link /\ Cli \notin Conn
      /\ lk \in [Link -> LinkType] /\ net \in [Link -> Seq(Frame)] /\ ConnInv
      /\ tcp \in [Conn -> {"free", "syn", "backlog", "open", "shut"}]
      /\ lk[Cli] \in LinkType /\ lk[Cli].tx = <<>> /\ Chat(lk[Cli].tx)
  BY ConnAssumption, NothingSent DEF LinksInv, TypeOK, WireInv, Link
<1>2. CASE ConnectDone
  <2>1. PICK q : q = [lk[Cli] EXCEPT !.conn = TRUE, !.progAt = Off]
    OBVIOUS
  <2>2. PICK l : l = EventConnected(Cli, q)
    OBVIOUS
  <2>3. lk[Cli].fd /\ ~lk[Cli].conn /\ Commit(Cli, l) /\ up' = up
    BY <1>2, <2>1, <2>2 DEF ConnectDone
  <2>4. lk[Cli].state = "INIT"
    BY <1>1, <2>3 DEF StartInv
  <2>5. q \in LinkType /\ q.conn /\ q.state = "INIT" /\ q.tx = lk[Cli].tx
    <3>1. Off \in Timer(CnxDelay)
      BY DEF Timer, CnxDelay, Off
    <3>2. QED
      BY <1>1, <2>1, <2>4, <3>1 DEF LinkType
  <2>6. l \in LinkType /\ l.fd
    <3>1. l \in LinkType /\ l.fd = q.fd
      BY <2>2, <2>5, EventConnectedCalm DEF Calm
    <3>2. q.fd = lk[Cli].fd
      BY <1>1, <2>1 DEF LinkType
    <3>3. QED
      BY <2>3, <3>1, <3>2
  <2>7. Turn("STOPPED", l.state, l.tx) /\ l.state # "INIT" /\ l.conn
    BY <1>1, <2>2, <2>5, ConnectedTurns
  <2>8. Turn(Phase(lk[Cli]), Phase(l), l.tx)
    BY <2>4, <2>7 DEF Phase
  <2>9. Sways(Cli)
    BY <1>1, <2>3, <2>6, <2>7, <2>8, CommitSways
  <2>10. QED
    BY <1>1, <2>9, SwaysStart
<1>3. CASE ConnectRejected
  <2>1. lk[Cli].fd /\ up' = up /\ Commit(Cli, LapDisconnected(Cli, lk[Cli]))
    BY <1>3 DEF ConnectRejected
  <2>2. Sways(Cli)
    BY <1>1, <2>1, ClosingSways
  <2>3. QED
    BY <1>1, <2>2, SwaysStart
<1>4. CASE \E nice \in BOOLEAN : CloseBind(nice)
  <2>1. PICK nice \in BOOLEAN : CloseBind(nice)
    BY <1>4
  <2>2. /\ cur' = cur /\ up' = up /\ tcp' = [c \in Conn |-> DropBacklog(c)]
        /\ \A i \in Link : net'[i] = IF i \in Conn /\ tcp[i] = "backlog" THEN <<>> ELSE net[i]
        /\ \A i \in Link : lk'[i] = IF nice /\ i # Cli /\ lk[i].fd
                                    THEN [lk[i] EXCEPT !.tobedisc = TRUE] ELSE lk[i]
    BY <2>1 DEF CloseBind
  <2>3. \A i \in Link : lk'[i].state = lk[i].state /\ lk'[i].conn = lk[i].conn
    <3>1. \A i \in Link : lk[i] \in LinkType
      BY <1>1
    <3>2. \A l \in LinkType : /\ [l EXCEPT !.tobedisc = TRUE].state = l.state
                              /\ [l EXCEPT !.tobedisc = TRUE].conn = l.conn
      BY DEF LinkType
    <3>3. QED
      BY <2>2, <3>1, <3>2
  <2>4. \A c \in Conn : Together(c)' => Together(c) /\ tcp[c] # "backlog"
    BY <2>2 DEF Together, DropBacklog
  <2>5. \A c \in Conn : Together(c)' => net'[c] = net[c] /\ net'[Cli] = net[Cli]
    BY <1>1, <2>2, <2>4
  <2>6. Rested
    BY <1>1, <2>2, <2>3, <2>4, <2>5 DEF Rested
  <2>7. QED
    BY <2>6, RestedStart
<1>5. CASE CloseBindNow
  <2>1. /\ cur' = cur /\ up' = up
        /\ tcp' = [c \in Conn |-> IF tcp[c] = "open" THEN (IF cur = c THEN "shut" ELSE "free")
                                  ELSE DropBacklog(c)]
        /\ \A i \in Link : net'[i] = IF i \in Conn THEN <<>> ELSE net[i]
        /\ \A i \in Link : lk'[i] = IF i # Cli /\ lk[i].fd THEN LapDisconnected(i, lk[i]) ELSE lk[i]
    BY <1>5 DEF CloseBindNow
  <2>2. ASSUME NEW i \in Link
        PROVE  \/ lk'[i].state = lk[i].state /\ lk'[i].conn = lk[i].conn
               \/ lk'[i].state = "INIT" /\ ~lk'[i].conn
    <3>1. lk[i] \in LinkType
      BY <1>1
    <3>2. LapDisconnected(i, lk[i]).state = "INIT" /\ ~LapDisconnected(i, lk[i]).conn
      BY <3>1, DisconnectedRests
    <3>3. QED
      BY <2>1, <3>2
  <2>3. \A c \in Conn : ~Together(c)'
    BY <2>1 DEF Together, DropBacklog
  <2>4. Rested
    BY <2>1, <2>2, <2>3 DEF Rested
  <2>5. QED
    BY <2>4, RestedStart
<1>6. CASE OpenBind \/ UNCHANGED vars
  <2>1. lk' = lk /\ net' = net /\ cur' = cur /\ up' = up /\ tcp' = tcp
    BY <1>6 DEF OpenBind, vars
  <2>2. \A c \in Conn : Together(c)' => Together(c)
    BY <2>1 DEF Together
  <2>3. Rested
    BY <2>1, <2>2 DEF Rested
  <2>4. QED
    BY <2>3, RestedStart
<1>7. CASE \E c \in Conn : ConnStep(c)
  <2>1. (\E c \in Conn : Sways(c)) \/ Rested
    BY <1>1, <1>7, ConnStepSways
  <2>2. QED
    BY <1>1, <2>1, SwaysStart, RestedStart
<1>8. CASE \E i \in Link : LinkStep(i)
  <2>1. (\E i \in Link : Sways(i)) \/ Rested
    BY <1>8, LinkStepSways
  <2>2. QED
    BY <2>1, SwaysStart, RestedStart
<1>9. QED
  BY <1>2, <1>3, <1>4, <1>5, <1>6, <1>7, <1>8 DEF Next

LEMMA InitStart ==
    ASSUME Init
    PROVE  StartInv
<1>1. Cli \in Link /\ Conn \subseteq Link
  BY DEF Link
<1>2. \A i \in Link : lk[i].state = "INIT" /\ ~lk[i].conn /\ net[i] = <<>>
  <2>1. NewLink.state = "INIT" /\ ~NewLink.conn
    BY DEF NewLink
  <2>2. QED
    BY <2>1 DEF Init
<1>3. \A i \in Link : Hushed(net[i]) /\ NoOrder(net[i]) /\ NoMsgs(net[i])
  BY <1>2, NothingSent DEF Chat
<1>4. \A c \in Conn : Agree(Phase(lk[Cli]), Phase(lk[c]), net[Cli], net[c])
  BY <1>1, <1>2, <1>3 DEF Phase, Agree, AtRest
<1>5. QED
  BY <1>2, <1>3, <1>4 DEF StartInv

-----------------------------------------------------------------------------
(* The theorems *)

\* The orders on the way fit the states of the two ends, and no message
\* follows the order to stop, in every state of every behaviour.
THEOREM StartInvariance == Spec => [](LinksInv /\ WireInv /\ StartInv)
<1>1. Init => StartInv
  BY InitStart
<1>2. LinksInv /\ WireInv /\ StartInv /\ [Next]_vars => StartInv'
  BY NextStart
<1>3. QED
  BY <1>1, <1>2, WireInvariance, PTL DEF Spec

LEMMA Agreed == LinksInv /\ WireInv /\ StartInv => StartAgreement
<1>1. SUFFICES ASSUME LinksInv, WireInv, StartInv, NEW c \in Conn, Joined(c),
                      net[c] = <<>>, net[Cli] = <<>>, Settled(lk[c]), Settled(lk[Cli])
               PROVE  lk[c].state = lk[Cli].state
  BY DEF StartAgreement
<1>2. Agree(Phase(lk[Cli]), Phase(lk[c]), net[Cli], net[c])
  BY <1>1 DEF StartInv, Joined, Together
<1>3. Phase(lk[Cli]) = lk[Cli].state /\ Phase(lk[c]) = lk[c].state
  BY <1>1 DEF Phase, Settled
<1>4. QED
  BY <1>1, <1>2, <1>3 DEF Agree, AtRest, Asked, Settled

\* When nothing is on the way and neither end waits for the other, both
\* agree whether data transfer is started (StartAgreement).
THEOREM StartCorrect == Spec => []StartAgreement
BY Agreed, StartInvariance, PTL

\* A link that waits for acknowledgements before it confirms that it stops
\* confirms only when none is missing (StopConfirmed).
THEOREM StopCorrect == Spec => StopConfirmed
<1>1. LinksInv /\ WireInv /\ StartInv /\ [Next]_vars =>
         [\A i \in Link : (lk[i].state = "PENDING_UNCONFD" /\ lk'[i].state = "STOPPED")
             => lk'[i].ackqueue = <<>>]_vars
  BY NextStart DEF StopRule
<1>2. QED
  BY <1>1, StartInvariance, PTL DEF StopConfirmed, Spec

=============================================================================
