----------------------------- MODULE ElapProofs -----------------------------
(***************************************************************************)
(* What elap.c adds to the protocol of xlap.c, proved for every modulus,   *)
(* window, timeout and number of connections: each of its steps is a step  *)
(* of xlap or a stutter, and its masks and its list of waiting links fit   *)
(* the queues they are computed from.                                      *)
(***************************************************************************)
EXTENDS Elap, XlapDeliveryProofs

(* LapRunOutQueue, as elap.c writes it *)

\* A full window, or an empty out queue, leaves room for nothing.
LEMMA NoRoom ==
    ASSUME NEW l, LinkInv(l), l.vs = Advance(l.va, K) \/ l.outqueue = <<>>
    PROVE  SendRoom(l) = 0
<1>1. /\ l.va \in SeqNo /\ l.vs \in SeqNo /\ K \in 0..N
      /\ l.outqueue \in Seq(Msg) /\ Len(l.outqueue) \in Nat
  BY WindowAssumption, NAssumption DEF LinkInv, LinkType
<1>2. Advance(l.va, K) \in SeqNo
  BY <1>1, AdvanceCases
<1>3. Dist(l.vs, Advance(l.va, K)) \in Nat
  BY <1>1, <1>2, DistCases, SeqNoRange
<1>4. l.vs = Advance(l.va, K) => Dist(l.vs, Advance(l.va, K)) = 0
  BY <1>1, DistSelf
<1>5. l.outqueue = <<>> => Len(l.outqueue) = 0
  OBVIOUS
<1>6. QED
  BY <1>1, <1>3, <1>4, <1>5 DEF SendRoom

\* Sending nothing changes nothing.
LEMMA SendNothing ==
    ASSUME NEW l, LinkInv(l)
    PROVE  SendFirst(l, 0) = l
<1> DEFINE fs == [j \in 1..0 |-> IFrame(Advance(l.vs, j-1), l.vr, l.outqueue[j])]
           ms == [j \in 1..0 |->
                    [msg |-> l.outqueue[j], ns |-> Advance(l.vs, j-1), age |-> 0]]
           x  == l.tx \o fs
           a  == l.ackqueue \o ms
           o  == SubSeq(l.outqueue, 0+1, Len(l.outqueue))
           s  == l.sent \o SubSeq(l.outqueue, 1, 0)
           v  == Advance(l.vs, 0)
<1>1. /\ l \in LinkType /\ l.vs \in SeqNo
      /\ l.tx \in Seq(Frame) /\ l.ackqueue \in Seq(Unacked)
      /\ l.outqueue \in Seq(Msg) /\ l.sent \in Seq(Msg)
  BY DEF LinkInv, LinkType
<1>2. fs = <<>> /\ ms = <<>> /\ SubSeq(l.outqueue, 1, 0) = <<>>
  BY <1>1
<1>3. x = l.tx /\ a = l.ackqueue /\ s = l.sent
  <2> HIDE DEF fs, ms
  <2>1. QED
    BY <1>1, <1>2
<1>4. o = l.outqueue
  BY <1>1
<1>5. v = l.vs
  BY <1>1, SeqNoRange, AdvanceCases, NAssumption
<1>6. SendFirst(l, 0) = [l EXCEPT !.tx = x, !.ackqueue = a, !.outqueue = o,
                                  !.sent = s, !.vs = v]
  BY DEF SendFirst
<1> HIDE DEF x, a, o, s, v
<1>7. QED
  BY <1>1, <1>3, <1>4, <1>5, <1>6 DEF LinkType

\* Looking at the ack queue first, as elap.c does, makes no difference.
LEMMA RunOutQueueSame ==
    ASSUME NEW l, LinkInv(l), l.conn, NEW fail \in Nat
    PROVE  RunOutQueue(l, fail) = LapRunOutQueue(l, fail)
<1> DEFINE r == IF l.ackqueue = <<>> THEN [l EXCEPT !.vs = l.va] ELSE l
           room == IF Full(r) THEN 0 ELSE SendRoom(r)
<1>1. r = l /\ l.fd
  BY EmptyWindow DEF LinkInv
<1>2. room = SendRoom(r)
  BY <1>1, NoRoom DEF Full
<1>3. RunOutQueue(l, fail) = IF l.state # "STARTED" THEN l
                             ELSE SendFirst(r, IF fail < room THEN fail ELSE room)
  BY DEF RunOutQueue
<1>4. QED
  BY <1>1, <1>2, <1>3 DEF LapRunOutQueue

\* A link that xlap.c would not poll for writing has nothing to write.
LEMMA NothingToWrite ==
    ASSUME NEW l, LinkInv(l), ~WantsPollOut(l), NEW fail \in Nat
    PROVE  LapRunOutQueue(l, fail) = l
<1>1. CASE l.state # "STARTED" \/ ~l.fd \/ ~l.conn
  BY <1>1 DEF LapRunOutQueue
<1>2. CASE l.state = "STARTED" /\ l.fd /\ l.conn
  <2>1. SendRoom(l) = 0
    BY <1>2, NoRoom DEF WantsPollOut
  <2>2. (IF fail < SendRoom(l) THEN fail ELSE SendRoom(l)) = 0
    BY <2>1
  <2>3. LapRunOutQueue(l, fail) = SendFirst(l, 0)
    BY <1>2, <2>2, EmptyWindow DEF LapRunOutQueue
  <2>4. QED
    BY <2>3, SendNothing
<1>3. QED
  BY <1>1, <1>2

\* Without T1 of I frames, the ages of the messages are not kept.
LEMMA SecondIsAged ==
    ASSUME NEW l, LinkInv(l)
    PROVE  Aged(l) = Second(l)
<1> DEFINE p == Older(l.progAt, CnxDelay)
           u == Older(l.uFrmSndAt, T1)
           t == Older(l.iFrmRcvAt, T2)
           x == Older(l.xFrmRcvAt, T3)
           q == [j \in 1..Len(l.ackqueue) |-> OlderMsg(l.ackqueue[j])]
           r == [l EXCEPT !.progAt = p, !.uFrmSndAt = u, !.iFrmRcvAt = t,
                          !.xFrmRcvAt = x]
<1>1. l \in LinkType /\ l.ackqueue \in Seq(Unacked)
  BY DEF LinkInv, LinkType
<1>2. q = l.ackqueue
  BY <1>1, ElapAssumption DEF OlderMsg
<1>3. Second(l) = r /\ Aged(l) = [r EXCEPT !.ackqueue = q]
  BY DEF Aged, Second
<1>4. /\ p \in Timer(CnxDelay) /\ u \in Timer(T1)
      /\ t \in Timer(T2) /\ x \in Timer(T3)
  BY AgedTypes
<1> HIDE DEF p, u, t, x, q
<1>5. r \in LinkType /\ r.ackqueue = l.ackqueue
  BY <1>1, <1>4 DEF LinkType
<1> HIDE DEF r
<1>6. [r EXCEPT !.ackqueue = r.ackqueue] = r
  BY <1>5 DEF LinkType
<1>7. QED
  BY <1>2, <1>3, <1>5, <1>6

\* Without T1 of I frames, the clock of elap.c is that of xlap.c.
LEMMA ClockSame ==
    ASSUME NEW i, NEW l, LinkInv(l), NEW re
    PROVE  eLapDoClockSc(i, l, re) = LapDoClockSc(i, l, re)
<1>1. \A k : LapTimerAckQueue(i, k) = k
  BY ElapAssumption DEF LapTimerAckQueue
<1>2. QED
  BY <1>1, SecondIsAged DEF eLapDoClockSc, LapDoClockSc

-----------------------------------------------------------------------------
(* The refinement *)

\* A step of XlapSpec.
XNext == Next \/ \E c \in Conn : MarkedClosed(c)

\* The types of what elap.c adds, and that only finitely many descriptors
\* were ever told to other threads.
BesideInv ==
    /\ ep \in [Link -> Beside]
    /\ PHandSerial \in [Process -> Nat]
    /\ nexus \in [Process -> SUBSET Nexus]
    /\ \A p \in Process : IsFiniteSet(nexus[p])
    /\ extqueue \in [Process -> Seq(Nexus)]
    /\ dest \in [Msg -> Nat]

\* A step of the xlap links keeps what XlapLinkProofs proves of them.
LEMMA XNextInv ==
    ASSUME LinksInv, [XNext]_vars
    PROVE  LinksInv'
<1>1. CASE \E c \in Conn : MarkedClosed(c)
  <2>1. PICK c \in Conn : MarkedClosed(c)
    BY <1>1
  <2>2. c \in Link /\ LinkInv(lk[c]) /\ used \in [Budget -> Nat]
    BY DEF Link, LinksInv, TypeOK
  <2>3. LinkInv(LapDisconnected(c, lk[c]))
    BY <2>2, DisconnectedKeeps
  <2>4. QED
    BY <2>1, <2>2, <2>3, CommitInv DEF MarkedClosed
<1>2. CASE [Next]_vars
  BY <1>2, NextInv
<1>3. QED
  BY <1>1, <1>2 DEF XNext

\* A link that is committed as it is: the step stutters.
LEMMA CommitNothing ==
    ASSUME LinksInv, NEW i \in Link, Commit(i, lk[i])
    PROVE  UNCHANGED <<lk, net, tcp, cur, cnxcount>>
<1>1. /\ lk \in [Link -> LinkType] /\ lk[i] \in LinkType /\ lk[i].tx = <<>>
      /\ net \in [Link -> Seq(Frame)]
  BY DEF LinksInv, TypeOK
<1>2. [lk[i] EXCEPT !.tx = <<>>] = lk[i]
  BY <1>1 DEF LinkType
<1>3. lk' = lk
  BY <1>1, <1>2 DEF Commit
<1>4. net' = net
  <2>1. \A j \in Link : net[j] \o lk[i].tx = net[j]
    BY <1>1
  <2>2. net' = [j \in Link |-> net[j]]
    BY <2>1 DEF Commit
  <2>3. QED
    BY <1>1, <2>2
<1>5. QED
  BY <1>3, <1>4 DEF Commit

\* POLLOUT: LapRunOutQueue sends what xlap.c would send, or nothing.
LEMMA SendRefines ==
    ASSUME LinksInv, NEW i \in Link, ESend(i)
    PROVE  Send(i) \/ UNCHANGED vars
<1>1. PICK fail \in IF PeerThere(i) /\ up[ConnOf(i)] THEN {K} ELSE 0..K :
            Commit(i, RunOutQueue(lk[i], fail))
  BY DEF ESend
<1>2. LinkInv(lk[i]) /\ lk[i].conn /\ fail \in Nat
  BY <1>1, WindowAssumption, NAssumption DEF LinksInv, ESend
<1>3. Commit(i, LapRunOutQueue(lk[i], fail))
  BY <1>1, <1>2, RunOutQueueSame
<1>4. CASE WantsPollOut(lk[i])
  BY <1>1, <1>3, <1>4 DEF ESend, Send
<1>5. CASE ~WantsPollOut(lk[i])
  <2>1. LapRunOutQueue(lk[i], fail) = lk[i]
    BY <1>2, <1>5, NothingToWrite
  <2>2. UNCHANGED <<lk, net, tcp, cur, cnxcount>>
    BY <1>3, <2>1, CommitNothing
  <2>3. QED
    BY <2>2 DEF ESend, vars
<1>6. QED
  BY <1>4, <1>5

\* The external queue: what is dispatched goes through PutOutQueue.
LEMMA DispatchRefines ==
    ASSUME BesideInv, NEW p \in Process, DispatchQueueExt(p)
    PROVE  (\E i \in Link : PutOutQueue(i)) \/ UNCHANGED vars
<1>1. Head(extqueue[p]) \in Nexus
  BY DEF BesideInv, DispatchQueueExt
<1>2. Head(extqueue[p]).lk \in Link
  BY <1>1 DEF Nexus
<1>3. QED
  BY <1>2 DEF DispatchQueueExt

\* Every step of elap.c is a step of xlap.c, or changes none of its state.
LEMMA StepRefines ==
    ASSUME LinksInv, BesideInv, [ENext]_allvars
    PROVE  [XNext]_vars
<1>1. CASE EConnectDone \/ EConnectRejected \/ EOpenBind
  BY <1>1 DEF EConnectDone, EConnectRejected, EOpenBind, XNext, Next
<1>2. CASE ECloseBind
  BY <1>2 DEF ECloseBind, XNext, Next
<1>3. ASSUME NEW c \in Conn, EConnStep(c)
      PROVE  [XNext]_vars
  <2>1. ConnStep(c) \/ MarkedClosed(c)
    BY <1>3 DEF EConnStep, EDial, ENetwork, EAccept, EPollMarked, ConnStep
  <2>2. QED
    BY <2>1 DEF XNext, Next
<1>4. ASSUME NEW i \in Link, ELinkStep(i)
      PROVE  [XNext]_vars
  <2>1. CASE ESend(i)
    BY <2>1, SendRefines DEF XNext, Next, LinkStep
  <2>2. CASE \E re \in BOOLEAN : EClockSc(i, re)
    <3>1. PICK re \in BOOLEAN : EClockSc(i, re)
      BY <2>2
    <3>2. LinkInv(lk[i])
      BY DEF LinksInv
    <3>3. ClockSc(i, re)
      BY <3>1, <3>2, ClockSame DEF EClockSc, ClockSc
    <3>4. QED
      BY <3>3 DEF XNext, Next, LinkStep
  <2>3. CASE \E evt \in {"STARTDTact", "STOPDTact", "TESTFRact"} : ERequest(i, evt)
    BY <2>3 DEF ERequest, XNext, Next, LinkStep
  <2>4. CASE ERecvU(i) \/ ERecvSI(i) \/ EReadEnd(i) \/ EPutOutQueue(i) \/ EDisc(i)
    BY <2>4 DEF ERecvU, ERecvSI, EReadEnd, EPutOutQueue, EDisc, XNext, Next, LinkStep
  <2>5. QED
    BY <1>4, <2>1, <2>2, <2>3, <2>4 DEF ELinkStep
<1>5. ASSUME NEW p \in Process, PutOutQueueExt(p) \/ DispatchQueueExt(p)
      PROVE  [XNext]_vars
  <2>1. CASE PutOutQueueExt(p)
    BY <2>1 DEF PutOutQueueExt
  <2>2. CASE DispatchQueueExt(p)
    BY <2>2, DispatchRefines DEF XNext, Next, LinkStep
  <2>3. QED
    BY <1>5, <2>1, <2>2
<1>6. CASE UNCHANGED allvars
  BY <1>6 DEF allvars
<1>7. QED
  BY <1>1, <1>2, <1>3, <1>4, <1>5, <1>6 DEF ENext

-----------------------------------------------------------------------------
(* Types *)

\* A link that lost its socket is reset, the others keep what they had.
LEMMA ClosedType ==
    ASSUME BesideInv, LapDisconnectedClosed
    PROVE  ep' \in [Link -> Beside]
<1>1. LapResetLink \in Beside
  BY DEF LapResetLink, Beside
<1>2. QED
  BY <1>1 DEF BesideInv, LapDisconnectedClosed

\* A socket added to the epoll table.
LEMMA EpollAddType ==
    ASSUME BesideInv, NEW p \in Process, NEW i \in Link, NEW mask \in BOOLEAN,
           EpollAdd(p, i, mask)
    PROVE  /\ ep' \in [Link -> Beside]
           /\ PHandSerial' \in [Process -> Nat]
           /\ nexus' \in [Process -> SUBSET Nexus]
           /\ \A q \in Process : IsFiniteSet(nexus'[q])
<1> DEFINE sock == Cardinality(nexus[p]) + 1
           n    == PHandSerial[p] + 1
           b    == [pollout |-> mask, inwaitack |-> FALSE, serial |-> n, sock |-> sock]
           x    == [lk |-> i, serial |-> n, sock |-> sock]
<1>1. sock \in Nat /\ n \in Nat
  BY FS_CardinalityType DEF BesideInv
<1>2. /\ PHandSerial' = [PHandSerial EXCEPT ![p] = n]
      /\ ep' = [ep EXCEPT ![i] = b]
      /\ nexus' = [nexus EXCEPT ![p] = @ \cup {x}]
  BY DEF EpollAdd
<1> HIDE DEF sock, n
<1>3. b \in Beside /\ x \in Nexus
  BY <1>1 DEF Beside, Nexus
<1> HIDE DEF b, x
<1>4. nexus' \in [Process -> SUBSET Nexus]
  BY <1>2, <1>3 DEF BesideInv
<1>5. ASSUME NEW q \in Process
      PROVE  IsFiniteSet(nexus'[q])
  <2>1. IsFiniteSet(nexus[p] \cup {x})
    BY FS_AddElement DEF BesideInv
  <2>2. nexus'[q] = nexus[q] \/ nexus'[q] = nexus[p] \cup {x}
    BY <1>2 DEF BesideInv
  <2>3. QED
    BY <2>1, <2>2 DEF BesideInv
<1>6. QED
  BY <1>1, <1>2, <1>3, <1>4, <1>5 DEF BesideInv

\* The masks and the list of waiting links are set to Booleans.
LEMMA MaskType ==
    ASSUME NEW e \in Beside, NEW l, NEW r
    PROVE  /\ Acknowledged(e, l) \in Beside
           /\ WriteMask(e, l, r) \in Beside
<1>1. [e EXCEPT !.pollout = FALSE] \in Beside
  BY DEF Beside
<1>2. DelWaitAckList(e, l) \in Beside /\ AddWaitAckList(e, r) \in Beside
  BY DEF DelWaitAckList, AddWaitAckList, Beside
<1>3. ASSUME NEW d \in Beside, NEW b \in BOOLEAN
      PROVE  [d EXCEPT !.pollout = b] \in Beside
  BY DEF Beside
<1>4. Acknowledged(e, l) \in Beside
  <2> DEFINE d == DelWaitAckList(e, l)
             b == d.pollout \/ l.outqueue # <<>>
  <2>1. b \in BOOLEAN /\ d \in Beside
    BY <1>2
  <2>2. Acknowledged(e, l) = [d EXCEPT !.pollout = b]
    BY DEF Acknowledged
  <2> HIDE DEF d, b
  <2>3. QED
    BY <1>3, <2>1, <2>2
<1>5. WriteMask(e, l, r) \in Beside
  <2>1. (r.outqueue # <<>>) \in BOOLEAN
    OBVIOUS
  <2>2. [AddWaitAckList(e, r) EXCEPT !.pollout = r.outqueue # <<>>] \in Beside
    BY <1>2, <1>3, <2>1
  <2>3. QED
    BY <1>1, <2>2 DEF WriteMask
<1>6. QED
  BY <1>4, <1>5

\* Every step keeps the types of what elap.c adds.
LEMMA BesideNext ==
    ASSUME LinksInv, BesideInv, [ENext]_allvars
    PROVE  BesideInv'
<1> DEFINE Kept == UNCHANGED <<PHandSerial, nexus, extqueue, dest>>
<1>1. Cli \in Link /\ "cli" \in Process /\ "srv" \in Process
  BY DEF Link, Process
<1>2. ASSUME ep' \in [Link -> Beside], Kept
      PROVE  BesideInv'
  BY <1>2 DEF BesideInv
<1>3. CASE EConnectDone
  BY <1>1, <1>2, <1>3 DEF EConnectDone, BesideInv, Beside
<1>4. CASE EConnectRejected \/ ECloseBind
  BY <1>2, <1>4, ClosedType DEF EConnectRejected, ECloseBind
<1>5. CASE EOpenBind
  BY <1>1, <1>5 DEF EOpenBind, BesideInv
<1>6. ASSUME NEW c \in Conn, EConnStep(c)
      PROVE  BesideInv'
  <2>1. CASE EDial(c)
    BY <1>1, <2>1, EpollAddType DEF EDial, BesideInv
  <2>2. CASE EAccept(c)
    <3>1. CASE BelowLimit
      BY <1>1, <2>2, <3>1, EpollAddType DEF EAccept, BesideInv, Link
    <3>2. CASE ~BelowLimit
      BY <2>2, <3>2 DEF EAccept, BesideInv
    <3>3. QED
      BY <3>1, <3>2
  <2>3. CASE ENetwork(c)
    BY <2>3 DEF ENetwork, evars, BesideInv
  <2>4. CASE EPollMarked(c)
    BY <1>2, <2>4, ClosedType DEF EPollMarked
  <2>5. QED
    BY <1>6, <2>1, <2>2, <2>3, <2>4 DEF EConnStep
<1>7. ASSUME NEW i \in Link, ELinkStep(i)
      PROVE  BesideInv'
  <2>1. ep[i] \in Beside /\ ep \in [Link -> Beside]
    BY DEF BesideInv
  <2>2. CASE ERecvU(i) \/ \E evt \in {"STARTDTact", "STOPDTact", "TESTFRact"} : ERequest(i, evt)
    BY <2>2 DEF ERecvU, ERequest, evars, BesideInv
  <2>3. CASE ERecvSI(i)
    <3>1. Acknowledged(ep[i], lk'[i]) \in Beside
      BY <2>1, MaskType
    <3>2. ep' \in [Link -> Beside]
      BY <2>1, <2>3, <3>1 DEF ERecvSI
    <3>3. QED
      BY <1>2, <2>3, <3>2 DEF ERecvSI
  <2>4. CASE ESend(i)
    <3>1. WriteMask(ep[i], lk[i], lk'[i]) \in Beside
      BY <2>1, MaskType
    <3>2. ep' \in [Link -> Beside]
      BY <2>1, <2>4, <3>1 DEF ESend
    <3>3. QED
      BY <1>2, <2>4, <3>2 DEF ESend
  <2>5. CASE EReadEnd(i) \/ EDisc(i) \/ \E re \in BOOLEAN : EClockSc(i, re)
    BY <1>2, <2>5, ClosedType DEF EReadEnd, EDisc, EClockSc
  <2>6. CASE EPutOutQueue(i)
    BY <1>2, <2>1, <2>6 DEF EPutOutQueue, Beside
  <2>7. QED
    BY <1>7, <2>2, <2>3, <2>4, <2>5, <2>6 DEF ELinkStep
<1>8. ASSUME NEW p \in Process, PutOutQueueExt(p)
      PROVE  BesideInv'
  <2>1. PICK x \in nexus[p] : extqueue' = [extqueue EXCEPT ![p] = Append(@, x)]
    BY <1>8 DEF PutOutQueueExt
  <2>2. x \in Nexus /\ extqueue[p] \in Seq(Nexus)
    BY DEF BesideInv
  <2>3. extqueue' \in [Process -> Seq(Nexus)]
    BY <2>1, <2>2 DEF BesideInv
  <2>4. QED
    BY <1>8, <2>3 DEF PutOutQueueExt, BesideInv
<1>9. ASSUME NEW p \in Process, DispatchQueueExt(p)
      PROVE  BesideInv'
  <2> DEFINE x == Head(extqueue[p])
  <2>1. x \in Nexus /\ Tail(extqueue[p]) \in Seq(Nexus)
    BY <1>9 DEF BesideInv, DispatchQueueExt
  <2>2. extqueue' \in [Process -> Seq(Nexus)]
    BY <1>9, <2>1 DEF BesideInv, DispatchQueueExt
  <2>3. ep' = [ep EXCEPT ![x.lk].pollout = TRUE] \/ ep' = ep
    BY <1>9 DEF DispatchQueueExt
  <2>4. dest' = [dest EXCEPT ![used["put"] + 1] = x.sock] \/ dest' = dest
    BY <1>9 DEF DispatchQueueExt
  <2>5. x.lk \in Link /\ x.sock \in Nat
    BY <2>1 DEF Nexus
  <2> HIDE DEF x
  <2>6. ep' \in [Link -> Beside]
    <3>1. ep \in [Link -> Beside]
      BY DEF BesideInv
    <3>2. [ep[x.lk] EXCEPT !.pollout = TRUE] \in Beside
      BY <2>5, <3>1 DEF Beside
    <3>3. QED
      BY <2>3, <2>5, <3>1, <3>2
  <2>7. dest' \in [Msg -> Nat]
    BY <2>4, <2>5 DEF BesideInv
  <2>8. QED
    BY <1>9, <2>2, <2>6, <2>7 DEF DispatchQueueExt, BesideInv
<1>10. CASE UNCHANGED allvars
  BY <1>10 DEF allvars, evars, BesideInv
<1>11. QED
  BY <1>3, <1>4, <1>5, <1>6, <1>7, <1>8, <1>9, <1>10 DEF ENext

\* The invariants hold at the start.
LEMMA EInitInv == ASSUME EInit PROVE LinksInv /\ BesideInv
<1>1. LinksInv
  BY InitInv DEF EInit
<1>2. LapResetLink \in Beside
  BY DEF LapResetLink, Beside
<1>3. BesideInv
  BY <1>2, FS_EmptySet DEF EInit, BesideInv
<1>4. QED
  BY <1>1, <1>3

-----------------------------------------------------------------------------
(* Both ends *)

\* A marked link is one that has a socket, and it is closed.
LEMMA MarkedCloses ==
    ASSUME LinksInv, WireInv, NEW c \in Conn, MarkedClosed(c)
    PROVE  /\ ConnInv /\ c \in Link /\ lk[c].fd
           /\ Commit(c, LapDisconnected(c, lk[c])) /\ up' = up /\ used' = used
BY DEF MarkedClosed, WireInv, ConnInv, Link

\* What is on the wires, and the books, over a step of elap.c.
LEMMA XNextWire ==
    ASSUME LinksInv, WireInv, BookInv, [XNext]_vars
    PROVE  WireInv' /\ BookInv'
<1>1. LinksInv'
  BY XNextInv
<1>2. CASE \E c \in Conn : MarkedClosed(c)
  <2>1. PICK c \in Conn : MarkedClosed(c)
    BY <1>2
  <2>2. WireInv'
    BY <1>1, <2>1, MarkedCloses, ClosingKeeps
  <2>3. Event(c) /\ c \in Link
    BY <2>1, MarkedCloses, ClosingEvent
  <2>4. BookInv'
    BY <2>3, MovedBooks DEF Event
  <2>5. QED
    BY <2>2, <2>4
<1>3. CASE [Next]_vars
  BY <1>1, <1>3, NextWire, NextBooks
<1>4. QED
  BY <1>2, <1>3 DEF XNext

\* The listener's count of its links, over a step of elap.c.
LEMMA XNextCount ==
    ASSUME LinksInv, WireInv, CnxCount, [XNext]_vars
    PROVE  CnxCount'
<1>1. LinksInv'
  BY XNextInv
<1>2. CASE \E c \in Conn : MarkedClosed(c)
  <2>1. PICK c \in Conn : MarkedClosed(c)
    BY <1>2
  <2>2. c \in Link /\ lk[c].fd /\ Commit(c, LapDisconnected(c, lk[c]))
    BY <2>1, MarkedCloses
  <2>3. LapDisconnected(c, lk[c]) \in LinkType
    BY <2>2, DisconnectedInv DEF LinksInv, LinkInv
  <2>4. QED
    BY <2>2, <2>3, CommitCount
<1>3. CASE Next
  BY <1>1, <1>3, StepCount
<1>4. CASE UNCHANGED vars
  BY <1>4 DEF vars, CnxCount
<1>5. QED
  BY <1>2, <1>3, <1>4 DEF XNext

\* A step of elap.c is one that Delivery allows.
LEMMA XNextPromise ==
    ASSUME LinksInv, WireInv, WireInv', BookInv, [XNext]_vars
    PROVE  Promise!Next
<1>1. CASE \E c \in Conn : MarkedClosed(c)
  <2>1. PICK c \in Conn : MarkedClosed(c)
    BY <1>1
  <2>2. Event(c) /\ c \in Link
    BY <2>1, MarkedCloses, ClosingEvent
  <2>3. QED
    BY <2>2, EventPromise
<1>2. CASE [Next]_vars
  BY <1>2, NextKinds, EventPromise, StillPromise, PutPromise
<1>3. QED
  BY <1>1, <1>2 DEF XNext

-----------------------------------------------------------------------------
(* The theorems *)

\* What XlapLinkProofs proves of the links holds in elap.c too.
THEOREM EInvariance == ESpec => [](LinksInv /\ BesideInv)
<1>1. EInit => LinksInv /\ BesideInv
  BY EInitInv
<1>2. LinksInv /\ BesideInv /\ [ENext]_allvars => LinksInv' /\ BesideInv'
  BY StepRefines, XNextInv, BesideNext
<1>3. QED
  BY <1>1, <1>2, PTL DEF ESpec

\* elap.c implements the protocol of xlap.c (without T1 of I frames): its
\* masks, its LapRunOutQueue, its list of waiting links and its external
\* queue add no behaviour to the links but the early close of a marked one.
THEOREM Implements == ESpec => XlapSpec
<1>1. EInit => Init
  BY DEF EInit
<1>2. LinksInv /\ BesideInv /\ [ENext]_allvars => [XNext]_vars
  BY StepRefines
<1>3. QED
  BY <1>1, <1>2, EInvariance, PTL DEF ESpec, XlapSpec, XNext

\* The links, the masks, the serial numbers and the external queues of
\* elap.c keep their types.
THEOREM ETypeCorrect == ESpec => []ETypeOK
<1>1. LinksInv /\ BesideInv => ETypeOK
  BY DEF LinksInv, BesideInv, ETypeOK
<1>2. QED
  BY <1>1, EInvariance, PTL

\* What XlapLinkProofs and XlapDeliveryProofs prove of the two ends of a
\* connection holds in elap.c too.
LEMMA EBothEnds == ESpec => [](LinksInv /\ BesideInv /\ WireInv /\ BookInv)
<1>1. EInit => LinksInv /\ BesideInv /\ WireInv /\ BookInv
  BY EInitInv, InitWire, InitBooks DEF EInit
<1>2. LinksInv /\ BesideInv /\ WireInv /\ BookInv /\ [ENext]_allvars
         => (LinksInv /\ BesideInv /\ WireInv /\ BookInv)'
  BY StepRefines, XNextInv, BesideNext, XNextWire
<1>3. QED
  BY <1>1, <1>2, PTL DEF ESpec

\* Both ends run elap.c: no frame is refused for its numbers, what is
\* received is what was sent, what waits for an acknowledgement gets one or
\* waits for a step that is owed, what was acknowledged was seen, and every
\* message is in one place.
THEOREM EEndsAgree ==
    ESpec => [](NoSeqError /\ InOrderDelivery /\ AckComing /\ AckedWasSeen /\ Accounted)
<1>1. LinksInv /\ WireInv /\ BookInv
         => NoSeqError /\ InOrderDelivery /\ AckComing /\ AckedWasSeen /\ Accounted
  <2>1. WireInv => NoSeqError /\ AckedWasSeen
    BY DEF WireInv, WireOf, CountInv, NoSeqError, AckedWasSeen
  <2>2. LinksInv /\ BookInv => Accounted
    BY OnePlace DEF Accounted
  <2>3. QED
    BY <2>1, <2>2, WireOrder, WireAcks
<1>2. QED
  BY <1>1, EBothEnds, PTL

\* The listener of elap.c counts its server links and stays within its limit.
THEOREM ECountCorrect == ESpec => []CnxCount
<1>1. Init => CnxCount
  BY InitCount
<1>2. EInit => CnxCount
  BY <1>1 DEF EInit
<1>3. LinksInv /\ BesideInv /\ WireInv /\ BookInv /\ CnxCount /\ [ENext]_allvars => CnxCount'
  BY StepRefines, XNextCount
<1>4. QED
  BY <1>2, <1>3, EBothEnds, PTL DEF ESpec

\* The links of elap.c, too, keep what Delivery promises.
THEOREM EDeliveryCorrect == ESpec => KeepsPromise
<1>1. EInit => Promise!Init
  BY InitPromise DEF EInit
<1>2. LinksInv /\ BesideInv /\ WireInv /\ BookInv
      /\ (LinksInv /\ BesideInv /\ WireInv /\ BookInv)' /\ [ENext]_allvars
         => [Promise!Next]_(Promise!dvars)
  BY StepRefines, XNextPromise
<1>3. QED
  BY <1>1, <1>2, EBothEnds, PTL DEF ESpec, KeepsPromise, Promise!Spec

\* A step of elap.c keeps the invariant of the start/stop procedure.
LEMMA XNextStart ==
    ASSUME LinksInv, WireInv, StartInv, [XNext]_vars
    PROVE  StartInv' /\ \A j \in Link : StopRule(lk[j], lk'[j])
<1>1. CASE \E c \in Conn : MarkedClosed(c)
  <2>1. PICK c \in Conn : MarkedClosed(c)
    BY <1>1
  <2>2. c \in Link /\ lk[c].fd /\ ConnInv /\ up' = up /\ Commit(c, LapDisconnected(c, lk[c]))
    BY <2>1, MarkedCloses DEF WireInv
  <2>3. Sways(c)
    BY <2>2, ClosingSways
  <2>4. QED
    BY <2>2, <2>3, SwaysStart
<1>2. CASE [Next]_vars
  BY <1>2, NextStart
<1>3. QED
  BY <1>1, <1>2 DEF XNext

LEMMA EStartHolds == ESpec => [](LinksInv /\ BesideInv /\ WireInv /\ BookInv /\ StartInv)
<1>1. EInit => StartInv
  BY InitStart DEF EInit
<1>2. LinksInv /\ BesideInv /\ WireInv /\ BookInv /\ StartInv /\ [ENext]_allvars => StartInv'
  BY StepRefines, XNextStart
<1>3. QED
  BY <1>1, <1>2, EBothEnds, PTL DEF ESpec

\* Both ends of a connection run elap.c: they agree whether data transfer is
\* started.
THEOREM EStartCorrect == ESpec => []StartAgreement
<1>1. LinksInv /\ WireInv /\ StartInv => StartAgreement
  BY Agreed
<1>2. QED
  BY <1>1, EStartHolds, PTL

\* A link of elap.c confirms that it stops when no acknowledgement is missing.
THEOREM EStopCorrect == ESpec => StopConfirmed
<1>1. LinksInv /\ BesideInv /\ WireInv /\ StartInv /\ [ENext]_allvars =>
         [\A i \in Link : (lk[i].state = "PENDING_UNCONFD" /\ lk'[i].state = "STOPPED")
             => lk'[i].ackqueue = <<>>]_vars
  BY StepRefines, XNextStart DEF StopRule
<1>2. QED
  BY <1>1, EStartHolds, PTL DEF StopConfirmed, ESpec

-----------------------------------------------------------------------------
(* The epoll masks, the list of waiting links and the serial numbers: no   *)
(* handler leaves a link with something to write and nobody to wake it,    *)
(* and what other threads send to a connection never goes to another one.  *)

(* The inductive invariant *)

\* What a link without a connection holds.
Unconnected(i, l) ==
    ~l.conn => /\ l.state = "INIT" /\ l.ackqueue = <<>>
               /\ l.sent = <<>> /\ l.rcvd = <<>>
               /\ l.outqueue # <<>> => i = Cli /\ KeepOutq

\* Link l, and e which elap.c keeps beside it, fit.
MaskInv(i, l, e) ==
    /\ Unconnected(i, l)
    /\ (l.conn /\ l.outqueue # <<>> /\ ~e.pollout)
            => Full(l) \/ (i = Cli /\ KeepOutq /\ l.sent = <<>> /\ l.rcvd = <<>>)
    /\ (l.conn /\ e.pollout) => l.outqueue # <<>>
    /\ e.inwaitack <=> l.ackqueue # <<>>

\* WriteArmed is not inductive alone: a connect starts without POLLOUT, so
\* that what an unconnected link holds matters, and LapRunOutQueue must not
\* run on one.
MasksInv == \A i \in Link : MaskInv(i, lk[i], ep[i])

\* r differs from l in nothing MaskInv speaks of.
Steady(l, r) ==
    /\ r.conn = l.conn /\ r.fd = l.fd
    /\ r.va = l.va /\ r.vs = l.vs /\ r.ackqueue = l.ackqueue
    /\ r.outqueue = l.outqueue /\ r.sent = l.sent /\ r.rcvd = l.rcvd
    /\ l.conn \/ r.state = l.state

\* A steady step of a link keeps MaskInv.
LEMMA SteadyKeeps ==
    ASSUME NEW i, NEW l, NEW r, NEW e, Steady(l, r), MaskInv(i, l, e)
    PROVE  MaskInv(i, r, e)
BY DEF Steady, MaskInv, Unconnected, Full

\* On a connected link, calm steps are steady.
LEMMA CalmSteady ==
    ASSUME NEW l, NEW r, Calm(l, r), l.conn
    PROVE  Steady(l, r)
BY DEF Calm, Steady

\* The output of a link goes to the network.
LEMMA FlushSteady ==
    ASSUME NEW l \in LinkType
    PROVE  Steady(l, [l EXCEPT !.tx = <<>>])
BY DEF Steady, LinkType

\* LapSendFrameS is steady.
LEMMA SendSSteady ==
    ASSUME NEW l \in LinkType
    PROVE  Steady(l, LapSendFrameS(l))
BY DEF LapSendFrameS, Write, Steady, LinkType

\* Refusing a frame is steady.
LEMMA SeqErrorSteady ==
    ASSUME NEW l \in LinkType
    PROVE  Steady(l, SeqError(l))
<1> DEFINE r == [l EXCEPT !.nberr = TRUE]
<1>1. r \in LinkType /\ Steady(l, r)
  BY DEF LinkType, Steady
<1> HIDE DEF r
<1>2. Steady(r, LapSendFrameS(r))
  BY <1>1, SendSSteady
<1>3. SeqError(l) = LapSendFrameS(r)
  BY DEF SeqError, r
<1>4. QED
  BY <1>1, <1>2, <1>3 DEF Steady

-----------------------------------------------------------------------------
(* Closing, and the clock *)

\* LapDisconnected: the link and what is kept beside it are reset together.
LEMMA DisconnectedFits ==
    ASSUME NEW i, NEW l, LinkInv(l), NEW e, MaskInv(i, l, e)
    PROVE  /\ MaskInv(i, LapDisconnected(i, l), IF l.fd THEN LapResetLink ELSE e)
           /\ ~LapDisconnected(i, l).fd /\ ~LapDisconnected(i, l).conn
<1> DEFINE o == IF i = Cli /\ KeepOutq THEN l.outqueue ELSE <<>>
           d == LapDisconnected(i, l)
<1>1. /\ ~d.fd /\ ~d.conn /\ d.state = "INIT" /\ d.ackqueue = <<>>
      /\ d.sent = <<>> /\ d.rcvd = <<>> /\ d.outqueue = o
  BY DEF LapDisconnected, LapReset, NewLink, LinkInv, LinkType
<1>2. l.fd \/ ~e.inwaitack
  BY DEF LinkInv, LinkType, MaskInv, Unconnected
<1>3. ~(IF l.fd THEN LapResetLink ELSE e).inwaitack
  BY <1>2 DEF LapResetLink
<1> HIDE DEF d
<1>4. MaskInv(i, d, IF l.fd THEN LapResetLink ELSE e)
  BY <1>1, <1>3 DEF MaskInv, Unconnected
<1>5. QED
  BY <1>1, <1>4 DEF d

\* A second more on the timers is steady.
LEMMA SecondSteady ==
    ASSUME NEW l, LinkInv(l)
    PROVE  LinkInv(Second(l)) /\ Steady(l, Second(l))
<1>1. LinkInv(Second(l))
  BY AgedInv, SecondIsAged
<1>2. Steady(l, Second(l))
  BY DEF Second, Steady, LinkInv, LinkType
<1>3. QED
  BY <1>1, <1>2

\* The timers T1, T2 and T3 of a link.
LEMMA TimersFit ==
    ASSUME NEW i, NEW l, LinkInv(l), NEW e, MaskInv(i, l, e)
    PROVE  LET s == LapTimerT1T2T3(i, l)
           IN  MaskInv(i, s, IF l.fd /\ ~s.fd THEN LapResetLink ELSE e)
<1> DEFINE s == LapTimerT1T2T3(i, l)
           r == [l EXCEPT !.iFrmRcvAt = Off]
<1>1. l \in LinkType /\ (l.conn => l.fd) /\ l.conn \in BOOLEAN
  BY DEF LinkInv, LinkType
<1>2. CASE s = LapDisconnected(i, l) /\ l.conn
  BY <1>1, <1>2, DisconnectedFits
<1>3. CASE s = LapSendFrameS(r) /\ l.conn
  <2>1. Off \in Timer(T2)
    BY TimerAssumption DEF Timer, Off
  <2>2. r \in LinkType /\ Steady(l, r)
    BY <1>1, <2>1 DEF LinkType, Steady
  <2> HIDE DEF r
  <2>3. Steady(r, s)
    BY <1>3, <2>2, SendSSteady
  <2> HIDE DEF s
  <2>4. Steady(l, s)
    BY <2>2, <2>3 DEF Steady
  <2>5. MaskInv(i, s, e) /\ s.fd = l.fd
    BY <2>4, SteadyKeeps DEF Steady
  <2>6. QED
    BY <2>5 DEF s
<1>4. CASE s = LapSendFrameU(l, "TESTFRact") /\ l.conn
  <2>1. Steady(l, s)
    BY <1>1, <1>4, SendUCalm, CalmSteady DEF UType
  <2> HIDE DEF s
  <2>2. MaskInv(i, s, e) /\ s.fd = l.fd
    BY <2>1, SteadyKeeps DEF Steady
  <2>3. QED
    BY <2>2 DEF s
<1>5. CASE s = l
  BY <1>5
<1>6. QED
  BY <1>1, <1>2, <1>3, <1>4, <1>5 DEF LapTimerT1T2T3

\* rtl_eLapDoClockScPeriod for one link.
LEMMA ClockFits ==
    ASSUME NEW i, NEW l, LinkInv(l), NEW e, MaskInv(i, l, e), NEW re \in BOOLEAN
    PROVE  LET s == eLapDoClockSc(i, l, re)
           IN  MaskInv(i, s, IF l.fd /\ ~s.fd THEN LapResetLink ELSE e)
<1> DEFINE k == Second(l)
           d == LapDisconnected(i, k)
           s == eLapDoClockSc(i, l, re)
<1>1. LinkInv(k) /\ MaskInv(i, k, e) /\ k.fd = l.fd
  BY SecondSteady, SteadyKeeps DEF Steady
<1>2. CASE re /\ LapReConnect(i, k) # k
  <2>1. LapReConnect(i, k) = d /\ k.fd
    BY <1>2 DEF LapReConnect
  <2>2. MaskInv(i, d, LapResetLink) /\ ~d.fd /\ ~d.conn
    BY <1>1, <2>1, DisconnectedFits
  <2>3. s = d
    BY <1>2, <2>1, <2>2 DEF eLapDoClockSc, LapTimerT1T2T3
  <2> HIDE DEF k, d, s
  <2>4. QED
    BY <1>1, <2>1, <2>2, <2>3 DEF s
<1>3. CASE ~(re /\ LapReConnect(i, k) # k)
  <2>1. s = LapTimerT1T2T3(i, k)
    BY <1>3 DEF eLapDoClockSc
  <2> HIDE DEF k
  <2>2. QED
    BY <1>1, <2>1, TimersFit
<1>4. QED
  BY <1>2, <1>3

-----------------------------------------------------------------------------
(* Receiving *)

\* The part of a link that receiving S and I frames may change only so: the
\* connection and the out queue stay, the ack queue loses messages.
Acks(l, r) ==
    /\ r.conn = l.conn /\ r.fd = l.fd
    /\ r.outqueue = l.outqueue
    /\ l.ackqueue = <<>> => r.ackqueue = <<>>

\* An acknowledgement only removes messages from the ack queue.
LEMMA AcknowledgeAcks ==
    ASSUME NEW l, LinkInv(l), NEW nr \in SeqNo, OKNR(l.va, l.vs, nr)
    PROVE  /\ Acks(l, Acknowledge(l, nr))
           /\ LinkInv(Acknowledge(l, nr))
<1> DEFINE d == Dist(l.va, nr)
           q == SubSeq(l.ackqueue, d+1, Len(l.ackqueue))
           a == l.acked \cup AckMsgs(SubSeq(l.ackqueue, 1, d))
<1>1. /\ d \in 0..Len(l.ackqueue)
      /\ Acknowledge(l, nr) = [l EXCEPT !.ackqueue = q, !.acked = a, !.va = nr]
  BY AckQueueCut DEF Acknowledge
<1>2. l \in LinkType /\ l.ackqueue \in Seq(Unacked) /\ Len(l.ackqueue) \in Nat
  BY DEF LinkInv, LinkType
<1>3. l.ackqueue = <<>> => q = <<>>
  BY <1>1, <1>2
<1> HIDE DEF q, a
<1>4. Acks(l, Acknowledge(l, nr))
  BY <1>1, <1>2, <1>3 DEF Acks, LinkType
<1>5. QED
  BY <1>4, AcknowledgeInv

\* Accepting an I frame touches no queue.
LEMMA AcceptFrameIAcks ==
    ASSUME NEW l, LinkInv(l), NEW f \in Frame, f.type = "I"
    PROVE  Acks(l, AcceptFrameI(l, f))
<1> DEFINE v == NextNo(l.vr)
           t == IF l.iFrmRcvAt = Off THEN 0 ELSE l.iFrmRcvAt
           d == Append(l.rcvd, f.msg)
           e == l.seen \cup {f.msg}
           r == [l EXCEPT !.vr = v, !.iFrmRcvAt = t, !.rcvd = d, !.seen = e]
           s == IF AckDue(r) THEN LapSendFrameS(r) ELSE r
<1>1. /\ l \in LinkType /\ l.vr \in SeqNo /\ l.iFrmRcvAt \in Timer(T2)
      /\ l.rcvd \in Seq(Msg) /\ l.seen \in SUBSET Msg
  BY DEF LinkInv, LinkType
<1>2. f.msg \in Msg
  BY DEF Frame, UType
<1>3. v \in SeqNo /\ t \in Timer(T2)
  BY <1>1, NAssumption, TimerAssumption DEF NextNo, SeqNo, Timer, Off
<1>4. d \in Seq(Msg) /\ e \in SUBSET Msg
  BY <1>1, <1>2
<1>5. AcceptFrameI(l, f) = EventIndication(s, "FRAMEI")
  BY DEF AcceptFrameI
<1> HIDE DEF v, t, d, e
<1>6. r \in LinkType /\ Acks(l, r)
  BY <1>1, <1>3, <1>4 DEF LinkType, Acks
<1> HIDE DEF r
<1>7. LapSendFrameS(r) \in LinkType /\ Acks(r, LapSendFrameS(r))
  <2>1. SFrame(r.vr) \in Frame /\ r.vr \in SeqNo
    BY <1>6, SFrameType DEF LinkType
  <2> DEFINE x == [r EXCEPT !.vapeer = r.vr]
  <2>2. x \in LinkType /\ Acks(r, x)
    BY <1>6, <2>1 DEF LinkType, Acks
  <2>3. LapSendFrameS(r) = IF ~r.fd \/ ~r.conn THEN r ELSE Write(x, SFrame(r.vr))
    BY DEF LapSendFrameS
  <2> HIDE DEF x
  <2>4. Calm(x, Write(x, SFrame(r.vr)))
    BY <2>1, <2>2, WriteCalm
  <2>5. QED
    BY <1>6, <2>2, <2>3, <2>4 DEF Calm, Acks
<1>8. s \in LinkType /\ Acks(l, s)
  BY <1>6, <1>7 DEF Acks
<1> HIDE DEF s
<1>9. Calm(s, EventIndication(s, "FRAMEI"))
  BY <1>8, EventIndicationCalm
<1>10. QED
  BY <1>5, <1>8, <1>9 DEF Calm, Acks

\* IncomingFrame on a frame whose nr fits.
LEMMA AcceptedAcks ==
    ASSUME NEW l0, LinkInv(l0), NEW f \in Frame, f.type \in {"S", "I"},
           OKNR(l0.va, l0.vs, f.nr)
    PROVE  Acks(l0, IncomingFrame(l0, f))
<1> DEFINE l == [l0 EXCEPT !.xFrmRcvAt = 0]
           a == Acknowledge(l, f.nr)
<1>1. l0 \in LinkType /\ 0 \in Timer(T3) /\ f.nr \in SeqNo
  BY TimerAssumption DEF LinkInv, Timer, Off, Frame
<1>2. Calm(l0, l)
  BY <1>1 DEF Calm, LinkType
<1>3. LinkInv(l) /\ Acks(l0, l) /\ OKNR(l.va, l.vs, f.nr)
  BY <1>2, CalmKeepsInv DEF Calm, Acks
<1>4. IncomingFrame(l0, f) =
        IF f.type = "S" THEN EventIndication(a, "FRAMES")
        ELSE IF ~OKNS(l.vr, f.ns) THEN SeqError(a) ELSE AcceptFrameI(a, f)
  BY <1>3 DEF IncomingFrame
<1> HIDE DEF l
<1>5. LinkInv(a) /\ Acks(l0, a) /\ a \in LinkType
  BY <1>1, <1>3, AcknowledgeAcks DEF Acks, LinkInv
<1> HIDE DEF a
<1>6. Acks(a, EventIndication(a, "FRAMES"))
  BY <1>5, EventIndicationCalm DEF Calm, Acks
<1>7. Acks(a, SeqError(a))
  BY <1>5, SeqErrorSteady DEF Steady, Acks
<1>8. f.type = "I" => Acks(a, AcceptFrameI(a, f))
  BY <1>5, AcceptFrameIAcks
<1>9. QED
  BY <1>4, <1>5, <1>6, <1>7, <1>8 DEF Acks

\* IncomingFrame on any other frame.
LEMMA OtherSteady ==
    ASSUME NEW l0, LinkInv(l0), l0.conn, NEW f \in Frame,
           f.type \in UType \/ ~OKNR(l0.va, l0.vs, f.nr)
    PROVE  Steady(l0, IncomingFrame(l0, f))
<1> DEFINE l == [l0 EXCEPT !.xFrmRcvAt = 0]
           u == [l EXCEPT !.uFrmSndAt = Off]
<1>1. l0 \in LinkType /\ 0 \in Timer(T3) /\ Off \in Timer(T1)
  BY TimerAssumption DEF LinkInv, Timer, Off
<1>2. Calm(l0, l) /\ Calm(l, u) /\ l.va = l0.va /\ l.vs = l0.vs
  BY <1>1 DEF Calm, LinkType
<1>3. Calm(l0, u)
  BY <1>2, CalmTwice
<1>4. \/ IncomingFrame(l0, f) = EventIndication(u, f.type)
      \/ IncomingFrame(l0, f) = EventIndication(l, f.type)
      \/ IncomingFrame(l0, f) = SeqError(l)
  <2>1. f.type \in UType \cup {"S", "I"}
    BY DEF Frame
  <2>2. OKNR(l.va, l.vs, f.nr) = OKNR(l0.va, l0.vs, f.nr)
    BY <1>2
  <2>3. QED
    BY <2>1, <2>2 DEF IncomingFrame, UType
<1> HIDE DEF l, u
<1>5. /\ Steady(l0, EventIndication(u, f.type))
      /\ Steady(l0, EventIndication(l, f.type))
  <2>0. l \in LinkType /\ u \in LinkType
    BY <1>2 DEF Calm
  <2>1. Calm(u, EventIndication(u, f.type)) /\ Calm(l, EventIndication(l, f.type))
    BY <2>0, EventIndicationCalm
  <2>2. QED
    BY <1>2, <1>3, <2>1, CalmTwice, CalmSteady
<1>6. Steady(l0, SeqError(l))
  BY <1>2, SeqErrorSteady DEF Calm, Steady
<1>7. QED
  BY <1>4, <1>5, <1>6

\* A connected link that took an acknowledgement fits again.
LEMMA AcknowledgedFits ==
    ASSUME NEW i, NEW l, NEW r, NEW e \in Beside, MaskInv(i, l, e),
           l.conn, l.conn \in BOOLEAN, Acks(l, r)
    PROVE  MaskInv(i, r, Acknowledged(e, r))
<1> DEFINE a == Acknowledged(e, r)
<1>1. /\ a.pollout <=> (e.pollout \/ r.outqueue # <<>>)
      /\ a.inwaitack <=> (e.inwaitack /\ r.ackqueue # <<>>)
  BY DEF Acknowledged, DelWaitAckList, Beside
<1> HIDE DEF a
<1>2. MaskInv(i, r, a)
  BY <1>1 DEF MaskInv, Unconnected, Acks
<1>3. QED
  BY <1>2 DEF a

-----------------------------------------------------------------------------
(* Sending *)

\* SendFirst moves messages from the out queue to the ack queue.
LEMMA SendFirstWaits ==
    ASSUME NEW l, LinkInv(l), NEW n \in 0..Len(l.outqueue), n <= N
    PROVE  /\ SendFirst(l, n).conn = l.conn
           /\ l.ackqueue # <<>> => SendFirst(l, n).ackqueue # <<>>
<1> DEFINE ms == [j \in 1..n |->
                    [msg |-> l.outqueue[j], ns |-> Advance(l.vs, j-1), age |-> 0]]
           r  == SendFirst(l, n)
<1>1. l \in LinkType /\ l.ackqueue \in Seq(Unacked) /\ Len(l.outqueue) \in Nat
  BY DEF LinkInv, LinkType
<1>2. r.ackqueue = l.ackqueue \o ms /\ r.conn = l.conn
  BY <1>1 DEF SendFirst, LinkType
<1>3. n \in Nat /\ ms \in Seq(Unacked) /\ Len(ms) = n
  BY <1>1, SentMessages
<1> HIDE DEF r
<1>4. l.ackqueue # <<>> => r.ackqueue # <<>>
  <2>1. l.ackqueue # <<>> => Len(l.ackqueue) > 0
    BY <1>1
  <2>2. Len(r.ackqueue) = Len(l.ackqueue) + n
    <3> HIDE DEF ms
    <3>1. QED
      BY <1>1, <1>2, <1>3, ConcatProperties
  <2>3. QED
    BY <1>1, <1>3, <2>1, <2>2
<1>5. QED
  BY <1>2, <1>4 DEF r

\* LapRunOutQueue and the mask it sets fit.
LEMMA SendFits ==
    ASSUME NEW i, NEW l, LinkInv(l), l.conn, NEW e \in Beside, MaskInv(i, l, e),
           NEW fail \in Nat
    PROVE  LET r == RunOutQueue(l, fail)
           IN  MaskInv(i, r, WriteMask(e, l, r))
<1> DEFINE r == RunOutQueue(l, fail)
<1>1. r = LapRunOutQueue(l, fail)
  BY RunOutQueueSame
<1>2. CASE l.state # "STARTED"
  BY <1>2 DEF RunOutQueue, WriteMask
<1>3. CASE l.state = "STARTED" /\ Full(l)
  <2>1. r = l
    BY <1>1, <1>3, NothingToWrite DEF WantsPollOut, Full
  <2> DEFINE w == [e EXCEPT !.pollout = FALSE]
  <2>2. WriteMask(e, l, r) = w
    BY <1>3 DEF WriteMask
  <2>3. ~w.pollout /\ w.inwaitack = e.inwaitack
    BY DEF Beside
  <2> HIDE DEF w
  <2>4. MaskInv(i, l, w)
    BY <1>3, <2>3 DEF MaskInv
  <2>5. QED
    BY <2>1, <2>2, <2>4
<1>4. CASE l.state = "STARTED" /\ ~Full(l)
  <2> DEFINE n == IF fail < SendRoom(l) THEN fail ELSE SendRoom(l)
             w == [AddWaitAckList(e, r) EXCEPT !.pollout = r.outqueue # <<>>]
  <2>1. r = SendFirst(l, n)
    BY <1>1, <1>4, EmptyWindow DEF LapRunOutQueue, LinkInv
  <2>2. n \in 0..Len(l.outqueue) /\ n <= N
    <3>1. Len(l.outqueue) \in Nat /\ Len(l.ackqueue) \in Nat
      BY DEF LinkInv, LinkType
    <3>2. SendRoom(l) \in 0..Len(l.outqueue) /\ Len(l.ackqueue) + SendRoom(l) <= K
      BY SendRoomFits
    <3>3. QED
      BY <3>1, <3>2, WindowAssumption, NAssumption
  <2>3. r.conn /\ (l.ackqueue # <<>> => r.ackqueue # <<>>)
    BY <2>1, <2>2, SendFirstWaits
  <2>4. WriteMask(e, l, r) = w
    BY <1>4 DEF WriteMask
  <2> HIDE DEF r
  <2>5. /\ w.pollout <=> r.outqueue # <<>>
        /\ w.inwaitack <=> (e.inwaitack \/ r.ackqueue # <<>>)
    BY DEF AddWaitAckList, Beside
  <2> HIDE DEF w
  <2>6. MaskInv(i, r, w)
    BY <2>3, <2>5 DEF MaskInv, Unconnected
  <2>7. QED
    BY <2>4, <2>6 DEF r
<1>5. QED
  BY <1>2, <1>3, <1>4

\* rtl_eLapPutOutQueue: a message put in the queue of a started link.
LEMMA PutFits ==
    ASSUME NEW i, NEW l \in LinkType, NEW e \in Beside, MaskInv(i, l, e),
           l.state = "STARTED", NEW m \in Msg
    PROVE  MaskInv(i, [l EXCEPT !.outqueue = Append(@, m)], [e EXCEPT !.pollout = TRUE])
<1> DEFINE o == Append(l.outqueue, m)
           r == [l EXCEPT !.outqueue = o]
           d == [e EXCEPT !.pollout = TRUE]
<1>1. o # <<>>
  <2>1. l.outqueue \in Seq(Msg)
    BY DEF LinkType
  <2>2. Len(o) = Len(l.outqueue) + 1 /\ Len(l.outqueue) \in Nat
    BY <2>1
  <2>3. Len(<<>>) = 0
    OBVIOUS
  <2> HIDE DEF o
  <2>4. QED
    BY <2>2, <2>3
<1>2. l.conn
  BY DEF MaskInv, Unconnected, LinkType
<1> HIDE DEF o
<1>3. r.conn /\ r.outqueue = o /\ r.ackqueue = l.ackqueue
  BY <1>2 DEF LinkType
<1>4. d.pollout /\ d.inwaitack = e.inwaitack
  BY DEF Beside
<1> HIDE DEF r, d
<1>5. MaskInv(i, r, d)
  BY <1>1, <1>3, <1>4 DEF MaskInv, Unconnected
<1>6. QED
  BY <1>5 DEF r, d, o

-----------------------------------------------------------------------------
(* Every step keeps it *)

\* One link and what is kept beside it change.
LEMMA OneFits ==
    ASSUME LinksInv, BesideInv, MasksInv, NEW i \in Link, NEW l, NEW e,
           lk' = [lk EXCEPT ![i] = l], ep' = [ep EXCEPT ![i] = e],
           MaskInv(i, l, e)
    PROVE  MasksInv'
<1>1. lk \in [Link -> LinkType] /\ ep \in [Link -> Beside]
  BY DEF LinksInv, TypeOK, BesideInv
<1>2. ASSUME NEW j \in Link
      PROVE  MaskInv(j, lk'[j], ep'[j])
  <2>1. CASE j = i
    BY <1>1, <2>1
  <2>2. CASE j # i
    BY <1>1, <2>2 DEF MasksInv
  <2>3. QED
    BY <2>1, <2>2
<1>3. QED
  BY <1>2 DEF MasksInv

\* A link is committed, and closed if it lost its socket.
LEMMA CommitClosedFits ==
    ASSUME LinksInv, BesideInv, MasksInv, NEW i \in Link,
           NEW l \in LinkType, Commit(i, l), LapDisconnectedClosed,
           MaskInv(i, l, IF lk[i].fd /\ ~l.fd THEN LapResetLink ELSE ep[i])
    PROVE  MasksInv'
<1> DEFINE r == [l EXCEPT !.tx = <<>>]
           e == IF lk[i].fd /\ ~l.fd THEN LapResetLink ELSE ep[i]
<1>1. lk \in [Link -> LinkType] /\ ep \in [Link -> Beside]
  BY DEF LinksInv, TypeOK, BesideInv
<1>2. Steady(l, r) /\ r.fd = l.fd
  BY FlushSteady DEF Steady
<1>3. MaskInv(i, r, e)
  BY <1>2, SteadyKeeps
<1>4. lk' = [lk EXCEPT ![i] = r]
  BY DEF Commit
<1> HIDE DEF r
<1>5. lk'[i] = r /\ \A j \in Link \ {i} : lk'[j] = lk[j]
  BY <1>1, <1>4
<1>6. ASSUME NEW j \in Link
      PROVE  (IF lk[j].fd /\ ~lk'[j].fd THEN LapResetLink ELSE ep[j])
                = [ep EXCEPT ![i] = e][j]
  <2>1. CASE j = i
    BY <1>1, <1>2, <1>5, <2>1
  <2>2. CASE j # i
    BY <1>1, <1>5, <2>2
  <2>3. QED
    BY <2>1, <2>2
<1>7. ep' = [ep EXCEPT ![i] = e]
  <2>1. ep' = [j \in Link |-> [ep EXCEPT ![i] = e][j]]
    BY <1>6 DEF LapDisconnectedClosed
  <2>2. QED
    BY <1>1, <2>1
<1>8. QED
  BY <1>3, <1>4, <1>7, OneFits

\* The link is disconnected.
LEMMA ClosesFits ==
    ASSUME LinksInv, BesideInv, MasksInv, NEW i \in Link,
           Commit(i, LapDisconnected(i, lk[i])), LapDisconnectedClosed
    PROVE  MasksInv'
<1>1. LinkInv(lk[i]) /\ MaskInv(i, lk[i], ep[i])
  BY DEF LinksInv, MasksInv
<1>2. LapDisconnected(i, lk[i]) \in LinkType
  BY <1>1, DisconnectedInv DEF LinkInv
<1>3. /\ MaskInv(i, LapDisconnected(i, lk[i]),
                 IF lk[i].fd THEN LapResetLink ELSE ep[i])
      /\ ~LapDisconnected(i, lk[i]).fd
  BY <1>1, DisconnectedFits
<1>4. QED
  BY <1>2, <1>3, CommitClosedFits

\* Events, clock and user of one link.
LEMMA LinkStepFits ==
    ASSUME LinksInv, BesideInv, MasksInv, NEW i \in Link, ELinkStep(i)
    PROVE  MasksInv'
<1>1. /\ LinkInv(lk[i]) /\ MaskInv(i, lk[i], ep[i])
      /\ lk[i] \in LinkType /\ ep[i] \in Beside
      /\ lk \in [Link -> LinkType] /\ ep \in [Link -> Beside]
      /\ net[i] \in Seq(Frame)
  BY DEF LinksInv, LinkInv, TypeOK, BesideInv, MasksInv
<1>2. CASE ERecvU(i) \/ ERecvSI(i)
  <2> DEFINE f == Head(net[i])
             l == IncomingFrame(lk[i], f)
             r == [l EXCEPT !.tx = <<>>]
  <2>0. net[i] # <<>> /\ lk[i].conn
    BY <1>2 DEF ERecvU, ERecvSI, Recv
  <2>1. f \in Frame /\ lk[i].conn
    BY <1>1, <2>0
  <2>2. lk' = [lk EXCEPT ![i] = r] /\ lk'[i] = r
    BY <1>1, <1>2 DEF ERecvU, ERecvSI, Recv
  <2>3. l \in LinkType
    BY <1>1, <2>1, IncomingFrameInv DEF LinkInv
  <2>4. CASE f.type \in {"S", "I"} /\ OKNR(lk[i].va, lk[i].vs, f.nr)
    <3>1. Acks(lk[i], l)
      BY <1>1, <2>1, <2>4, AcceptedAcks
    <3> HIDE DEF l
    <3>2. Acks(lk[i], r)
      BY <2>3, <3>1, FlushSteady DEF Steady, Acks
    <3>3. MaskInv(i, r, Acknowledged(ep[i], r))
      BY <1>1, <2>1, <3>2, AcknowledgedFits
    <3>4. ep' = [ep EXCEPT ![i] = Acknowledged(ep[i], r)]
      BY <1>2, <2>2, <2>4 DEF ERecvU, ERecvSI, UType
    <3>5. QED
      BY <2>2, <3>3, <3>4, OneFits
  <2>5. CASE ~(f.type \in {"S", "I"} /\ OKNR(lk[i].va, lk[i].vs, f.nr))
    <3>1. f.type \in UType \/ ~OKNR(lk[i].va, lk[i].vs, f.nr)
      BY <2>1, <2>5 DEF Frame
    <3>2. Steady(lk[i], l)
      BY <1>1, <2>1, <3>1, OtherSteady
    <3> HIDE DEF l
    <3>3. MaskInv(i, r, ep[i])
      BY <1>1, <2>3, <3>2, FlushSteady, SteadyKeeps
    <3>4. ep' = ep
      BY <1>2, <2>5 DEF ERecvU, ERecvSI, evars
    <3>5. ep' = [ep EXCEPT ![i] = ep[i]]
      BY <1>1, <3>4
    <3>6. QED
      BY <2>2, <3>3, <3>5, OneFits
  <2>6. QED
    BY <2>4, <2>5
<1>3. CASE ESend(i)
  <2>1. PICK fail \in Nat : Commit(i, RunOutQueue(lk[i], fail))
    BY <1>3, WindowAssumption, NAssumption DEF ESend
  <2> DEFINE l == RunOutQueue(lk[i], fail)
             r == [l EXCEPT !.tx = <<>>]
  <2>2. l \in LinkType
    BY <1>1, <1>3, RunOutQueueSame, RunOutQueueInv DEF ESend, LinkInv
  <2>3. MaskInv(i, l, WriteMask(ep[i], lk[i], l))
    BY <1>1, <1>3, SendFits DEF ESend
  <2>4. lk' = [lk EXCEPT ![i] = r] /\ lk'[i] = r
    BY <1>1, <2>1 DEF Commit
  <2> HIDE DEF l
  <2>5. Steady(l, r)
    BY <2>2, FlushSteady
  <2>6. MaskInv(i, r, WriteMask(ep[i], lk[i], l))
    BY <2>3, <2>5, SteadyKeeps
  <2>7. WriteMask(ep[i], lk[i], l) = WriteMask(ep[i], lk[i], r)
    BY <2>5 DEF WriteMask, AddWaitAckList, Steady
  <2>8. ep' = [ep EXCEPT ![i] = WriteMask(ep[i], lk[i], r)]
    BY <1>3, <2>4 DEF ESend
  <2>9. QED
    BY <2>4, <2>6, <2>7, <2>8, OneFits
<1>4. CASE EReadEnd(i) \/ EDisc(i)
  BY <1>4, ClosesFits DEF EReadEnd, EDisc, ReadEof, ReadError, Disc
<1>5. CASE \E re \in BOOLEAN : EClockSc(i, re)
  <2>1. PICK re \in BOOLEAN : EClockSc(i, re)
    BY <1>5
  <2> DEFINE s == eLapDoClockSc(i, lk[i], re)
  <2>2. s \in LinkType
    BY <1>1, ClockSame, ClockInv DEF LinkInv
  <2>3. MaskInv(i, s, IF lk[i].fd /\ ~s.fd THEN LapResetLink ELSE ep[i])
    BY <1>1, ClockFits
  <2>4. Commit(i, s) /\ LapDisconnectedClosed
    BY <2>1 DEF EClockSc
  <2> HIDE DEF s
  <2>5. QED
    BY <2>2, <2>3, <2>4, CommitClosedFits
<1>6. CASE EPutOutQueue(i)
  <2> DEFINE o == Append(lk[i].outqueue, used["put"] + 1)
             r == [lk[i] EXCEPT !.outqueue = o]
             e == [ep[i] EXCEPT !.pollout = TRUE]
  <2>1. lk' = [lk EXCEPT ![i] = r] /\ ep' = [ep EXCEPT ![i] = e]
    BY <1>6 DEF EPutOutQueue, PutOutQueue
  <2>2. MaskInv(i, r, e)
    <3>1. used["put"] + 1 \in Msg
      BY <1>6, PutMsg DEF LinksInv, EPutOutQueue, PutOutQueue
    <3>2. lk[i].state = "STARTED"
      BY <1>6 DEF EPutOutQueue, PutOutQueue
    <3>3. QED
      BY <1>1, <3>1, <3>2, PutFits
  <2>3. QED
    BY <2>1, <2>2, OneFits
<1>7. CASE \E evt \in {"STARTDTact", "STOPDTact", "TESTFRact"} : ERequest(i, evt)
  <2>1. PICK evt : ERequest(i, evt)
    BY <1>7
  <2> DEFINE l == EventRequest(lk[i], evt)
             r == [l EXCEPT !.tx = <<>>]
  <2>2. l \in LinkType /\ Steady(lk[i], l)
    BY <1>1, <2>1, EventRequestCalm, CalmSteady DEF ERequest, Request, Calm
  <2>3. lk' = [lk EXCEPT ![i] = r] /\ ep' = ep
    BY <2>1 DEF ERequest, Request, Commit, evars
  <2> HIDE DEF l
  <2>4. MaskInv(i, r, ep[i])
    BY <1>1, <2>2, FlushSteady, SteadyKeeps
  <2>5. ep' = [ep EXCEPT ![i] = ep[i]]
    BY <1>1, <2>3
  <2>6. QED
    BY <2>3, <2>4, <2>5, OneFits
<1>8. QED
  BY <1>2, <1>3, <1>4, <1>5, <1>6, <1>7 DEF ELinkStep

\* What is accepted has nothing to send, and no POLLOUT.
LEMMA AcceptFits ==
    ASSUME LinksInv, BesideInv, MasksInv, NEW c \in Conn,
           Accept(c), EpollAdd("srv", c, FALSE)
    PROVE  MasksInv'
<1> DEFINE k == LapReset(lk[c], TRUE)
           r == [k EXCEPT !.fd = TRUE, !.conn = TRUE]
           l == EventConnected(c, r)
           s == [l EXCEPT !.tx = <<>>]
           e == [pollout |-> FALSE, inwaitack |-> FALSE,
                 serial |-> PHandSerial["srv"] + 1, sock |-> Cardinality(nexus["srv"]) + 1]
<1>1. c \in Link /\ lk[c] \in LinkType
  BY DEF LinksInv, TypeOK, Link
<1>2. k \in LinkType /\ k.outqueue = <<>> /\ k.ackqueue = <<>>
  <2>1. k \in LinkType
    BY <1>1, ResetInv DEF LinkInv
  <2>2. QED
    BY <2>1 DEF LapReset, NewLink
<1> HIDE DEF k
<1>3. r \in LinkType /\ r.conn /\ r.outqueue = <<>> /\ r.ackqueue = <<>>
  BY <1>2 DEF LinkType
<1>4. lk' = [lk EXCEPT ![c] = s] /\ ep' = [ep EXCEPT ![c] = e]
  BY DEF Accept, EpollAdd, k
<1> HIDE DEF r
<1>5. l \in LinkType /\ l.conn /\ l.outqueue = <<>> /\ l.ackqueue = <<>>
  BY <1>3, EventConnectedCalm DEF Calm
<1> HIDE DEF l
<1>6. s.conn /\ s.outqueue = <<>> /\ s.ackqueue = <<>>
  BY <1>5 DEF LinkType
<1>7. ~e.pollout /\ ~e.inwaitack
  OBVIOUS
<1> HIDE DEF s, e
<1>8. MaskInv(c, s, e)
  BY <1>6, <1>7 DEF MaskInv, Unconnected
<1>9. QED
  BY <1>1, <1>4, <1>8, OneFits

\* The client opens a connection: it still holds what it held without one.
LEMMA DialFits ==
    ASSUME LinksInv, BesideInv, MasksInv, NEW c \in Conn, EDial(c)
    PROVE  MasksInv'
<1> DEFINE l == [lk[Cli] EXCEPT !.fd = TRUE, !.progAt = 0]
           e == [pollout |-> TRUE, inwaitack |-> FALSE,
                 serial |-> PHandSerial["cli"] + 1, sock |-> Cardinality(nexus["cli"]) + 1]
<1>1. /\ Cli \in Link /\ lk[Cli] \in LinkType /\ ~lk[Cli].conn
      /\ MaskInv(Cli, lk[Cli], ep[Cli])
  BY DEF LinksInv, LinkInv, TypeOK, Link, MasksInv, EDial, Dial
<1>2. lk' = [lk EXCEPT ![Cli] = l] /\ ep' = [ep EXCEPT ![Cli] = e]
  BY DEF EDial, Dial, EpollAdd, LinksInv, TypeOK
<1>3. /\ l.conn = lk[Cli].conn /\ l.state = lk[Cli].state
      /\ l.outqueue = lk[Cli].outqueue /\ l.ackqueue = lk[Cli].ackqueue
      /\ l.sent = lk[Cli].sent /\ l.rcvd = lk[Cli].rcvd
  BY <1>1 DEF LinkType
<1>4. ~e.inwaitack
  OBVIOUS
<1> HIDE DEF l, e
<1>5. MaskInv(Cli, l, e)
  BY <1>1, <1>3, <1>4 DEF MaskInv, Unconnected
<1>6. QED
  BY <1>1, <1>2, <1>5, OneFits

\* The connect is done: what was kept from the last connection is the only
\* thing there is to write, and it is not polled for.
LEMMA ConnectFits ==
    ASSUME LinksInv, BesideInv, MasksInv, EConnectDone
    PROVE  MasksInv'
<1> DEFINE r == [lk[Cli] EXCEPT !.conn = TRUE, !.progAt = Off]
           l == EventConnected(Cli, r)
           s == [l EXCEPT !.tx = <<>>]
           e == [ep[Cli] EXCEPT !.pollout = FALSE]
<1>1. /\ Cli \in Link /\ lk[Cli] \in LinkType /\ ~lk[Cli].conn
      /\ ep[Cli] \in Beside /\ MaskInv(Cli, lk[Cli], ep[Cli])
  BY DEF LinksInv, TypeOK, BesideInv, Link, MasksInv, EConnectDone, ConnectDone
<1>2. lk' = [lk EXCEPT ![Cli] = s] /\ ep' = [ep EXCEPT ![Cli] = e]
  BY DEF EConnectDone, ConnectDone, Commit
<1>3. Off \in Timer(CnxDelay)
  BY DEF Timer, CnxDelay, Off
<1>4. /\ r \in LinkType /\ r.conn
      /\ r.outqueue = lk[Cli].outqueue /\ r.ackqueue = lk[Cli].ackqueue
      /\ r.sent = lk[Cli].sent /\ r.rcvd = lk[Cli].rcvd
  BY <1>1, <1>3 DEF LinkType
<1> HIDE DEF r
<1>5. Calm(r, l)
  BY <1>4, EventConnectedCalm
<1> HIDE DEF l
<1>6. Steady(l, s)
  BY <1>5, FlushSteady DEF Calm
<1>7. ~e.pollout /\ e.inwaitack = ep[Cli].inwaitack
  BY <1>1 DEF Beside
<1> HIDE DEF s, e
<1>8. MaskInv(Cli, s, e)
  BY <1>1, <1>4, <1>5, <1>6, <1>7 DEF MaskInv, Unconnected, Calm, Steady
<1>9. QED
  BY <1>1, <1>2, <1>8, OneFits

\* rtl_eLapCloseBind, which may close or mark any number of server links.
LEMMA CloseBindFits ==
    ASSUME LinksInv, BesideInv, MasksInv, ECloseBind
    PROVE  MasksInv'
<1>1. ASSUME NEW i \in Link
      PROVE  MaskInv(i, lk'[i], ep'[i])
  <2> DEFINE d == LapDisconnected(i, lk[i])
             t == [lk[i] EXCEPT !.tobedisc = TRUE]
  <2>1. /\ LinkInv(lk[i]) /\ lk[i] \in LinkType
        /\ MaskInv(i, lk[i], ep[i])
    BY DEF LinksInv, LinkInv, MasksInv
  <2>2. ep'[i] = IF lk[i].fd /\ ~lk'[i].fd THEN LapResetLink ELSE ep[i]
    BY DEF ECloseBind, LapDisconnectedClosed
  <2>3. \/ lk[i].fd /\ lk'[i] = d
        \/ lk'[i] = t
        \/ lk'[i] = lk[i]
    BY DEF ECloseBind, CloseBindNow, CloseBind
  <2>4. MaskInv(i, d, IF lk[i].fd THEN LapResetLink ELSE ep[i]) /\ ~d.fd
    BY <2>1, DisconnectedFits
  <2>5. Steady(lk[i], t)
    BY <2>1 DEF Steady, LinkType
  <2>6. MaskInv(i, t, ep[i]) /\ t.fd = lk[i].fd
    BY <2>1, <2>5, SteadyKeeps DEF Steady
  <2> HIDE DEF d, t
  <2>7. QED
    BY <2>1, <2>2, <2>3, <2>4, <2>6
<1>2. QED
  BY <1>1 DEF MasksInv

\* What another thread put in the external queue is dispatched.
LEMMA DispatchFits ==
    ASSUME LinksInv, BesideInv, MasksInv, NEW p \in Process, DispatchQueueExt(p)
    PROVE  MasksInv'
<1> DEFINE x == Head(extqueue[p])
           m == used["put"] + 1
           i == x.lk
<1>1. i \in Link
  <2>1. extqueue[p] \in Seq(Nexus) /\ extqueue[p] # <<>>
    BY DEF BesideInv, DispatchQueueExt
  <2>2. x \in Nexus
    BY <2>1
  <2>3. QED
    BY <2>2 DEF Nexus
<1> HIDE DEF i
<1>2. CASE UNCHANGED <<vars, ep, dest>>
  BY <1>2 DEF vars, MasksInv
<1>3. CASE /\ PutOutQueue(i) /\ ep' = [ep EXCEPT ![i].pollout = TRUE]
  <2> DEFINE r == [lk[i] EXCEPT !.outqueue = Append(@, m)]
             e == [ep[i] EXCEPT !.pollout = TRUE]
  <2>1. /\ lk[i] \in LinkType /\ ep[i] \in Beside /\ MaskInv(i, lk[i], ep[i])
        /\ lk[i].state = "STARTED" /\ m \in Msg
    BY <1>1, <1>3, PutMsg DEF LinksInv, TypeOK, BesideInv, MasksInv, PutOutQueue
  <2>2. MaskInv(i, r, e)
    BY <2>1, PutFits
  <2>3. lk' = [lk EXCEPT ![i] = r] /\ ep' = [ep EXCEPT ![i] = e]
    BY <1>3 DEF PutOutQueue
  <2>4. QED
    BY <1>1, <2>2, <2>3, OneFits
<1>4. QED
  BY <1>2, <1>3 DEF DispatchQueueExt, i, x

\* Every step preserves the invariant, one step per action.
LEMMA MasksNext ==
    ASSUME LinksInv, BesideInv, MasksInv, [ENext]_allvars
    PROVE  MasksInv'
<1>1. CASE EConnectDone
  BY <1>1, ConnectFits
<1>2. CASE EConnectRejected
  BY <1>2, ClosesFits DEF EConnectRejected, ConnectRejected, Link
<1>3. CASE ECloseBind
  BY <1>3, CloseBindFits
<1>4. CASE EOpenBind
  BY <1>4 DEF EOpenBind, OpenBind, MasksInv
<1>5. ASSUME NEW c \in Conn, EConnStep(c)
      PROVE  MasksInv'
  <2>1. CASE EDial(c)
    BY <2>1, DialFits
  <2>2. CASE EAccept(c)
    <3>1. CASE BelowLimit
      BY <2>2, <3>1, AcceptFits DEF EAccept
    <3>2. CASE ~BelowLimit
      BY <2>2, <3>2 DEF EAccept, AcceptRefused, MasksInv
    <3>3. QED
      BY <3>1, <3>2
  <2>3. CASE ENetwork(c)
    BY <2>3 DEF ENetwork, Handshake, Cut, evars, MasksInv
  <2>4. CASE EPollMarked(c)
    BY <2>4, ClosesFits DEF EPollMarked, MarkedClosed, Link
  <2>5. QED
    BY <1>5, <2>1, <2>2, <2>3, <2>4 DEF EConnStep
<1>6. ASSUME NEW i \in Link, ELinkStep(i)
      PROVE  MasksInv'
  BY <1>6, LinkStepFits
<1>7. ASSUME NEW p \in Process, PutOutQueueExt(p) \/ DispatchQueueExt(p)
      PROVE  MasksInv'
  <2>1. CASE PutOutQueueExt(p)
    BY <2>1 DEF PutOutQueueExt, vars, MasksInv
  <2>2. QED
    BY <1>7, <2>1, DispatchFits
<1>8. CASE UNCHANGED allvars
  BY <1>8 DEF allvars, vars, evars, MasksInv
<1>9. QED
  BY <1>1, <1>2, <1>3, <1>4, <1>5, <1>6, <1>7, <1>8 DEF ENext

\* The initial links hold nothing.
LEMMA MasksInit == ASSUME EInit PROVE MasksInv
<1>1. ASSUME NEW i \in Link
      PROVE  lk[i] = NewLink /\ ep[i] = LapResetLink
  BY DEF EInit, Init
<1>2. ASSUME NEW i \in Link
      PROVE  MaskInv(i, NewLink, LapResetLink)
  BY DEF MaskInv, Unconnected, NewLink, LapResetLink
<1>3. QED
  BY <1>1, <1>2 DEF MasksInv

-----------------------------------------------------------------------------
(* The theorems *)

\* MasksInv holds in every reachable state.
LEMMA MasksHold == ESpec => []MasksInv
<1>1. EInit => MasksInv
  BY MasksInit
<1>2. LinksInv /\ BesideInv /\ MasksInv /\ [ENext]_allvars => MasksInv'
  BY MasksNext
<1>3. QED
  BY <1>1, <1>2, EInvariance, PTL DEF ESpec

\* PollLapPutOutQueue, LapRunOutQueue and IncomingFrame: whatever the order
\* of their calls, a connected link with something to write has POLLOUT in
\* its mask or a full window, but for what LK_LNK_NOFULLRESET kept.
THEOREM AlwaysArmed == ESpec => []WriteArmed
<1>1. MasksInv => WriteArmed
  BY DEF MasksInv, MaskInv, WriteArmed, Forgotten
<1>2. QED
  BY <1>1, MasksHold, PTL

\* The same three never ask for POLLOUT on a link with nothing to write.
THEOREM NeverIdle == ESpec => []NoIdleWrite
<1>1. MasksInv => NoIdleWrite
  BY DEF MasksInv, MaskInv, NoIdleWrite
<1>2. QED
  BY <1>1, MasksHold, PTL

\* AddWaitAckList, DelWaitAckList and LapDisconnected: ct_waitacklist holds
\* exactly the links with unacknowledged messages.
THEOREM WaitListExact == ESpec => []WaitAckExact
<1>1. MasksInv => WaitAckExact
  BY DEF MasksInv, MaskInv, WaitAckExact
<1>2. QED
  BY <1>1, MasksHold, PTL

-----------------------------------------------------------------------------
(* The addresses of messages *)

\* What link l took and has not settled.
Queued(l) == Out(l) \cup Wait(l)

\* The link does not keep its out queue for another connection.
Unkept(i) == i = Cli => ~KeepOutq

\* The process whose table link i is in, and what that table says of it.
Owner(i) == IF i = Cli THEN "cli" ELSE "srv"
Entry(i) == [lk |-> i, serial |-> ep[i].serial, sock |-> ep[i].sock]

\* A serial number names one socket of its process, the one that was told
\* to other threads, and was given before the next one is.
NexusInv ==
    /\ \A p \in Process : \A x \in nexus[p] :
          /\ Owner(x.lk) = p /\ x.serial <= PHandSerial[p]
          /\ \A y \in nexus[p] : x.serial = y.serial => x = y
    /\ \A i \in Link : lk[i].fd => Entry(i) \in nexus[Owner(i)]
    /\ \A p \in Process : extqueue[p] \in Seq(nexus[p])

\* What is queued for a socket was addressed to no other; the messages that
\* were not put yet have no address.
DestInv ==
    /\ \A m \in Msg : m > used["put"] => dest[m] = 0
    /\ \A i \in Link : Unkept(i) => \A m \in Queued(lk[i]) : dest[m] \in {0, ep[i].sock}

\* The queues of the links take only new messages.
QueuesTake ==
    /\ used'["put"] \in Nat /\ used["put"] <= used'["put"]
    /\ \A j \in Link : \A m \in Queued(lk'[j]) :
          m \in Queued(lk[j]) \/ (m \in Msg /\ m > used["put"])

\* An unkept link without a connection holds nothing.
LEMMA UnconnectedEmpty ==
    ASSUME MasksInv, NEW i \in Link, Unkept(i), ~lk[i].conn
    PROVE  Queued(lk[i]) = {}
<1>1. lk[i].ackqueue = <<>> /\ lk[i].outqueue = <<>>
  BY DEF MasksInv, MaskInv, Unconnected, Unkept
<1>2. QED
  BY <1>1, EmptyNames DEF Queued, Out, Wait

\* A link that keeps its books, and forgets nothing it settled, queues
\* nothing that it had not queued.
LEMMA HandledTakes ==
    ASSUME NEW l, NEW r, BookOf(l), Handled(l, r), l.acked \subseteq r.acked,
           l.acklost \subseteq r.acklost, l.purged \subseteq r.purged
    PROVE  Queued(r) \subseteq Queued(l)
<1>1. Queued(r) \cap (r.acked \cup r.acklost \cup r.purged) = {}
  BY DEF Handled, BookOf, Queued, Went
<1>2. Queued(r) \subseteq Known(l)
  BY DEF Handled, Known, Went, Queued
<1>3. Known(l) \subseteq Queued(l) \cup l.acked \cup l.acklost \cup l.purged
  BY DEF Known, Went, Queued
<1>4. QED
  BY <1>1, <1>2, <1>3

\* One event of one link.
LEMMA EventTakes ==
    ASSUME LinksInv, BookInv, NEW i \in Link, Event(i)
    PROVE  QueuesTake
<1>1. PICK l : Did(i, l) /\ Moved(i, l)
  BY DEF Event
<1> DEFINE r == [l EXCEPT !.tx = <<>>]
<1>2. l \in LinkType /\ lk \in [Link -> LinkType] /\ used["put"] \in Nat /\ BookOf(lk[i])
  BY <1>1 DEF Did, LinksInv, TypeOK, Budget, BookInv
<1>3. /\ lk[i].acked \subseteq l.acked /\ lk[i].acklost \subseteq l.acklost
      /\ lk[i].purged \subseteq l.purged
  BY <1>1 DEF Did, HearsFrame, Quiet, Closes, Emits, Hears
<1>4. Queued(l) \subseteq Queued(lk[i])
  BY <1>1, <1>2, <1>3, DidHandled, HandledTakes
<1>5. Queued(r) = Queued(l)
  BY <1>2, TxQuiet DEF Queued
<1>6. lk'[i] = r /\ \A j \in Link : j # i => lk'[j] = lk[j]
  BY <1>1, <1>2 DEF Moved
<1> HIDE DEF r
<1>7. used'["put"] = used["put"]
  BY <1>1 DEF Moved
<1>8. QED
  BY <1>2, <1>4, <1>5, <1>6, <1>7 DEF QueuesTake

\* A step in which no link sends or takes anything.
LEMMA StillTakes ==
    ASSUME LinksInv, BookInv, Still
    PROVE  QueuesTake
<1>1. used["put"] \in Nat /\ used'["put"] = used["put"]
  BY DEF LinksInv, TypeOK, Budget, Still
<1>2. ASSUME NEW j \in Link
      PROVE  Queued(lk'[j]) \subseteq Queued(lk[j])
  <2>1. lk'[j] = lk[j] \/ Quiet(lk[j], lk'[j]) \/ Closes(j, lk[j], lk'[j])
    BY DEF Still
  <2>2. CASE lk'[j] = lk[j]
    BY <2>2
  <2>3. CASE Quiet(lk[j], lk'[j])
    BY <2>3 DEF Quiet, Queued, Out, Wait
  <2>4. CASE Closes(j, lk[j], lk'[j])
    BY <2>4, EmptyNames DEF Closes, Queued, Out, Wait
  <2>5. QED
    BY <2>1, <2>2, <2>3, <2>4
<1>3. QED
  BY <1>1, <1>2 DEF QueuesTake

\* rtl_eLapPutOutQueue takes the message that is put, whose number is new.
LEMMA PutTakes ==
    ASSUME LinksInv, NEW i \in Link, PutOutQueue(i)
    PROVE  /\ QueuesTake
           /\ used["put"] + 1 \in Msg /\ used'["put"] = used["put"] + 1
           /\ \A j \in Link : j # i => lk'[j] = lk[j]
           /\ lk'[i].fd = lk[i].fd /\ lk'[i].conn = lk[i].conn
<1>1. /\ lk \in [Link -> LinkType] /\ lk[i] \in LinkType /\ used \in [Budget -> Nat]
      /\ "put" \in Budget
  BY DEF LinksInv, TypeOK, Budget
<1>2. PICK m \in Msg : m = used["put"] + 1
  BY PutMsg DEF PutOutQueue, LinksInv
<1>3. PICK o \in Seq(Msg) : o = lk[i].outqueue
  BY <1>1 DEF LinkType
<1> DEFINE r == [lk[i] EXCEPT !.outqueue = Append(o, m)]
<1>4. /\ r.outqueue = Append(o, m) /\ r.ackqueue = lk[i].ackqueue
      /\ r.fd = lk[i].fd /\ r.conn = lk[i].conn
  BY <1>1 DEF LinkType
<1>5. lk' = [lk EXCEPT ![i] = r] /\ used' = [used EXCEPT !["put"] = m]
  BY <1>2, <1>3 DEF PutOutQueue, Spend
<1> HIDE DEF r
<1>6. lk'[i] = r /\ \A j \in Link : j # i => lk'[j] = lk[j]
  BY <1>1, <1>5
<1>7. Elems(Append(o, m)) \subseteq Elems(o) \cup {m}
  BY AppendProperties DEF Elems
<1>8. Queued(r) \subseteq Queued(lk[i]) \cup {m}
  BY <1>3, <1>4, <1>7 DEF Queued, Out, Wait
<1>9. used["put"] \in Nat /\ used'["put"] = m /\ m > used["put"] /\ m \in Nat
  BY <1>1, <1>2, <1>5 DEF Msg
<1>10. QueuesTake
  BY <1>6, <1>8, <1>9 DEF QueuesTake
<1>11. QED
  BY <1>2, <1>4, <1>6, <1>9, <1>10

\* No step of elap.c queues a message again.
LEMMA StepTakes ==
    ASSUME LinksInv, WireInv, BookInv, [XNext]_vars
    PROVE  QueuesTake
<1>1. CASE \E c \in Conn : MarkedClosed(c)
  BY <1>1, MarkedCloses, ClosingEvent, EventTakes
<1>2. CASE [Next]_vars
  BY <1>2, NextKinds, EventTakes, StillTakes, PutTakes
<1>3. QED
  BY <1>1, <1>2 DEF XNext

-----------------------------------------------------------------------------
(* The sockets *)

\* No link gets a socket, and those that keep theirs keep its names.
SocketsKept ==
    \A j \in Link : lk'[j].fd =>
        /\ lk[j].fd
        /\ ep'[j].serial = ep[j].serial /\ ep'[j].sock = ep[j].sock

\* LapDisconnected forgets the names of the sockets it closes only.
LEMMA ClosedSockets ==
    ASSUME LapDisconnectedClosed, \A j \in Link : lk'[j].fd => lk[j].fd
    PROVE  SocketsKept
BY DEF LapDisconnectedClosed, SocketsKept

\* A step of one link, which has its socket.
LEMMA OneSocket ==
    ASSUME LinksInv, NEW i \in Link, lk[i].fd, NEW l, lk' = [lk EXCEPT ![i] = l]
    PROVE  \A j \in Link : lk'[j].fd => lk[j].fd
BY DEF LinksInv, TypeOK

\* The mask of one link changes, and not the names of its socket.
LEMMA OneMask ==
    ASSUME BesideInv, \A j \in Link : lk'[j].fd => lk[j].fd, NEW i \in Link, NEW e,
           ep' = [ep EXCEPT ![i] = e], e.serial = ep[i].serial, e.sock = ep[i].sock
    PROVE  SocketsKept
BY DEF BesideInv, SocketsKept

\* Setting POLLOUT in the mask.
LEMMA PollNames ==
    ASSUME NEW e \in Beside, NEW b \in BOOLEAN
    PROVE  /\ [e EXCEPT !.pollout = b].serial = e.serial
           /\ [e EXCEPT !.pollout = b].sock = e.sock
BY DEF Beside

\* The handlers set the mask and the list only.
LEMMA MaskNames ==
    ASSUME NEW e \in Beside, NEW l, NEW r
    PROVE  /\ Acknowledged(e, l).serial = e.serial /\ Acknowledged(e, l).sock = e.sock
           /\ WriteMask(e, l, r).serial = e.serial /\ WriteMask(e, l, r).sock = e.sock
<1>1. ASSUME NEW d \in Beside, NEW x \in BOOLEAN
      PROVE  [d EXCEPT !.pollout = x].serial = d.serial
             /\ [d EXCEPT !.pollout = x].sock = d.sock
  BY PollNames
<1>2. /\ DelWaitAckList(e, l) \in Beside /\ DelWaitAckList(e, l).serial = e.serial
      /\ DelWaitAckList(e, l).sock = e.sock
  BY DEF DelWaitAckList, Beside
<1>3. /\ AddWaitAckList(e, r) \in Beside /\ AddWaitAckList(e, r).serial = e.serial
      /\ AddWaitAckList(e, r).sock = e.sock
  BY DEF AddWaitAckList, Beside
<1>4. Acknowledged(e, l).serial = e.serial /\ Acknowledged(e, l).sock = e.sock
  <2> DEFINE d == DelWaitAckList(e, l)
             x == d.pollout \/ l.outqueue # <<>>
  <2>1. x \in BOOLEAN /\ d \in Beside
    BY <1>2
  <2>2. Acknowledged(e, l) = [d EXCEPT !.pollout = x]
    BY DEF Acknowledged
  <2>3. d.serial = e.serial /\ d.sock = e.sock
    BY <1>2
  <2> HIDE DEF d, x
  <2>4. QED
    BY <1>1, <2>1, <2>2, <2>3
<1>5. WriteMask(e, l, r).serial = e.serial /\ WriteMask(e, l, r).sock = e.sock
  <2> DEFINE d == AddWaitAckList(e, r)
             x == r.outqueue # <<>>
  <2>1. x \in BOOLEAN /\ d \in Beside /\ d.serial = e.serial /\ d.sock = e.sock
    BY <1>3
  <2>2. WriteMask(e, l, r) = IF l.state # "STARTED" THEN e
                             ELSE IF Full(l) THEN [e EXCEPT !.pollout = FALSE]
                             ELSE [d EXCEPT !.pollout = x]
    BY DEF WriteMask
  <2> HIDE DEF d, x
  <2>3. QED
    BY <1>1, <2>1, <2>2
<1>6. QED
  BY <1>4, <1>5

\* The events, the clock and the user of a link.
LEMMA LinkStepSockets ==
    ASSUME LinksInv, BesideInv, WireInv, NEW i \in Link, ELinkStep(i)
    PROVE  SocketsKept /\ UNCHANGED <<PHandSerial, nexus, extqueue, dest>>
<1>1. /\ lk \in [Link -> LinkType] /\ ep \in [Link -> Beside] /\ ep[i] \in Beside
      /\ lk[i].conn => lk[i].fd
  BY DEF LinksInv, LinkInv, TypeOK, BesideInv
<1>2. ASSUME NEW l, lk[i].fd, Commit(i, l)
      PROVE  \A j \in Link : lk'[j].fd => lk[j].fd
  BY <1>2, OneSocket DEF Commit
<1>3. ASSUME \A j \in Link : lk'[j].fd => lk[j].fd, ep' = ep
      PROVE  SocketsKept
  BY <1>3 DEF SocketsKept
<1>4. ASSUME Recv(i)
      PROVE  \A j \in Link : lk'[j].fd => lk[j].fd
  <2>1. lk[i].fd /\ \E l : lk' = [lk EXCEPT ![i] = l]
    BY <1>1, <1>4 DEF Recv
  <2>2. QED
    BY <2>1, OneSocket
<1>5. CASE ERecvU(i)
  BY <1>3, <1>4, <1>5 DEF ERecvU, evars
<1>6. CASE ERecvSI(i)
  <2>1. ep' = ep \/ ep' = [ep EXCEPT ![i] = Acknowledged(ep[i], lk'[i])]
    BY <1>6 DEF ERecvSI
  <2>2. \A j \in Link : lk'[j].fd => lk[j].fd
    BY <1>4, <1>6 DEF ERecvSI
  <2>3. /\ Acknowledged(ep[i], lk'[i]).serial = ep[i].serial
        /\ Acknowledged(ep[i], lk'[i]).sock = ep[i].sock
    BY <1>1, MaskNames
  <2>4. SocketsKept
    BY <1>3, <2>1, <2>2, <2>3, OneMask
  <2>5. QED
    BY <1>6, <2>4 DEF ERecvSI
<1>7. CASE ESend(i)
  <2>1. lk[i].fd /\ \E l : Commit(i, l)
    BY <1>1, <1>7 DEF ESend
  <2>2. ep' = [ep EXCEPT ![i] = WriteMask(ep[i], lk[i], lk'[i])]
    BY <1>7 DEF ESend
  <2>3. /\ WriteMask(ep[i], lk[i], lk'[i]).serial = ep[i].serial
        /\ WriteMask(ep[i], lk[i], lk'[i]).sock = ep[i].sock
    BY <1>1, MaskNames
  <2>4. SocketsKept
    BY <1>2, <2>1, <2>2, <2>3, OneMask
  <2>5. QED
    BY <1>7, <2>4 DEF ESend
<1>8. CASE EReadEnd(i)
  BY <1>1, <1>2, <1>8, ClosedSockets DEF EReadEnd, ReadEof, ReadError, AtEof
<1>9. CASE \E re \in BOOLEAN : EClockSc(i, re)
  BY <1>2, <1>9, ClosedSockets DEF EClockSc
<1>10. CASE EPutOutQueue(i)
  <2>1. \A j \in Link : lk'[j].fd => lk[j].fd
    BY <1>10, PutTakes DEF EPutOutQueue
  <2>2. ep' = [ep EXCEPT ![i] = [ep[i] EXCEPT !.pollout = TRUE]]
    BY <1>10 DEF EPutOutQueue
  <2>3. SocketsKept
    BY <1>1, <2>1, <2>2, PollNames, OneMask
  <2>4. QED
    BY <1>10, <2>3 DEF EPutOutQueue
<1>11. CASE \E evt \in {"STARTDTact", "STOPDTact", "TESTFRact"} : ERequest(i, evt)
  <2>1. lk[i].fd /\ \E l : Commit(i, l)
    BY <1>1, <1>11 DEF ERequest, Request
  <2>2. QED
    BY <1>2, <1>3, <1>11, <2>1 DEF ERequest, evars
<1>12. CASE EDisc(i)
  BY <1>2, <1>12, ClosedSockets DEF EDisc, Disc
<1>13. QED
  BY <1>5, <1>6, <1>7, <1>8, <1>9, <1>10, <1>11, <1>12 DEF ELinkStep

\* Descriptors and serial numbers stay; the external queues hold some of them.
LEMMA NexusKept ==
    ASSUME BesideInv, NexusInv, SocketsKept, nexus' = nexus,
           \A p \in Process : PHandSerial'[p] \in Nat /\ PHandSerial[p] <= PHandSerial'[p],
           \A p \in Process : extqueue'[p] \in Seq(nexus[p])
    PROVE  NexusInv'
<1>1. ASSUME NEW p \in Process, NEW x \in nexus[p]
      PROVE  x.serial <= PHandSerial'[p]
  <2>1. x.serial \in Nat /\ x.serial <= PHandSerial[p] /\ PHandSerial[p] \in Nat
    BY DEF BesideInv, Nexus, NexusInv
  <2>2. QED
    BY <2>1
<1>2. ASSUME NEW i \in Link, lk'[i].fd
      PROVE  Entry(i)' \in nexus[Owner(i)]
  BY <1>2 DEF SocketsKept, Entry, NexusInv
<1>3. QED
  BY <1>1, <1>2 DEF NexusInv

\* rtl_epollAdd: the next serial number, for a link without a socket.
LEMMA NexusAdded ==
    ASSUME BesideInv, NexusInv, NEW i \in Link, NEW mask \in BOOLEAN,
           EpollAdd(Owner(i), i, mask), extqueue' = extqueue,
           \A j \in Link : j # i => (lk'[j].fd => lk[j].fd)
    PROVE  NexusInv'
<1>1. PICK p \in Process : p = Owner(i)
  BY DEF Owner, Process
<1>2. PICK k \in Nat : k = Cardinality(nexus[p]) + 1
  BY FS_CardinalityType DEF BesideInv
<1>3. PICK n \in Nat : n = PHandSerial[p] /\ n + 1 \in Nat
  BY DEF BesideInv
<1> DEFINE x == [lk |-> i, serial |-> n + 1, sock |-> k]
           e == [pollout |-> mask, inwaitack |-> FALSE, serial |-> n + 1, sock |-> k]
<1>4. /\ PHandSerial' = [PHandSerial EXCEPT ![p] = n + 1]
      /\ ep' = [ep EXCEPT ![i] = e]
      /\ nexus' = [nexus EXCEPT ![p] = nexus[p] \cup {x}]
  BY <1>1, <1>2, <1>3 DEF EpollAdd
<1>5. /\ PHandSerial'[p] = n + 1 /\ nexus'[p] = nexus[p] \cup {x} /\ ep'[i] = e
      /\ \A q \in Process : q # p => PHandSerial'[q] = PHandSerial[q] /\ nexus'[q] = nexus[q]
      /\ \A j \in Link : j # i => ep'[j] = ep[j]
  BY <1>4 DEF BesideInv
<1>6. x.lk = i /\ x.serial = n + 1 /\ e.serial = n + 1 /\ e.sock = k
  OBVIOUS
<1>7. Entry(i)' = x
  BY <1>5, <1>6 DEF Entry
<1> HIDE DEF x, e
<1>8. \A y \in nexus[p] : y.serial \in Nat /\ y.serial <= n
  BY <1>3 DEF BesideInv, Nexus, NexusInv
<1>9. ASSUME NEW q \in Process, NEW y \in nexus'[q]
      PROVE  /\ Owner(y.lk) = q /\ y.serial <= PHandSerial'[q]
             /\ \A z \in nexus'[q] : y.serial = z.serial => y = z
  <2>1. CASE q # p
    BY <1>5, <1>9, <2>1 DEF NexusInv
  <2>2. CASE q = p /\ y = x
    <3>1. \A z \in nexus[p] : z.serial # n + 1
      BY <1>8
    <3>2. QED
      BY <1>1, <1>5, <1>6, <2>2, <3>1
  <2>3. CASE q = p /\ y # x
    <3>1. y \in nexus[p]
      BY <1>5, <1>9, <2>3
    <3>2. y.serial # n + 1 /\ y.serial <= n + 1
      BY <1>8, <3>1
    <3>3. QED
      BY <1>5, <1>6, <2>3, <3>1, <3>2 DEF NexusInv
  <2>4. QED
    BY <2>1, <2>2, <2>3
<1>10. \A q \in Process : nexus[q] \subseteq nexus'[q]
  BY <1>5
<1>11. ASSUME NEW j \in Link, lk'[j].fd
       PROVE  Entry(j)' \in nexus'[Owner(j)]
  <2>1. CASE j = i
    BY <1>1, <1>5, <1>7, <2>1
  <2>2. CASE j # i
    <3>1. lk[j].fd /\ Entry(j)' = Entry(j)
      BY <1>5, <1>11, <2>2 DEF Entry
    <3>2. Owner(j) \in Process
      BY DEF Owner, Process
    <3>3. QED
      BY <1>10, <3>1, <3>2 DEF NexusInv
  <2>3. QED
    BY <2>1, <2>2
<1>12. \A q \in Process : extqueue'[q] \in Seq(nexus'[q])
  <2>1. TAKE q \in Process
  <2>2. extqueue[q] \in Seq(nexus[q])
    BY DEF NexusInv
  <2>3. extqueue[q] \in Seq(nexus'[q])
    BY <1>10, <2>2, SeqDef
  <2>4. QED
    BY <2>3
<1>13. QED
  BY <1>9, <1>11, <1>12 DEF NexusInv

\* A step that gives no message an address: what is queued keeps the one it
\* has, and the link its socket, or what is new has none.
LEMMA DestKept ==
    ASSUME LinksInv, MasksInv, MasksInv', DestInv, QueuesTake, dest' = dest,
           \A j \in Link : \/ ~lk[j].conn \/ ~lk'[j].conn
                           \/ ep'[j].sock = ep[j].sock
    PROVE  DestInv'
<1>1. ASSUME NEW m \in Msg, m > used'["put"]
      PROVE  dest'[m] = 0
  <2>1. m > used["put"]
    <3>1. /\ m \in Nat /\ used["put"] \in Nat /\ used'["put"] \in Nat
          /\ used["put"] <= used'["put"]
      BY DEF LinksInv, TypeOK, Budget, QueuesTake, Msg
    <3>2. QED
      BY <1>1, <3>1
  <2>2. QED
    BY <2>1 DEF DestInv
<1>2. ASSUME NEW j \in Link, Unkept(j), NEW m \in Queued(lk'[j])
      PROVE  dest[m] \in {0, ep'[j].sock}
  <2>1. CASE m \in Msg /\ m > used["put"]
    BY <2>1 DEF DestInv
  <2>2. CASE m \in Queued(lk[j])
    <3>1. lk[j].conn
      BY <1>2, <2>2, UnconnectedEmpty
    <3>2. lk'[j].conn
      <4>1. ~lk'[j].conn => lk'[j].ackqueue = <<>> /\ lk'[j].outqueue = <<>>
        BY <1>2 DEF MasksInv, MaskInv, Unconnected, Unkept
      <4>2. QED
        BY <1>2, <4>1, EmptyNames DEF Queued, Out, Wait
    <3>3. QED
      BY <1>2, <2>2, <3>1, <3>2 DEF DestInv
  <2>3. QED
    BY <1>2, <2>1, <2>2 DEF QueuesTake
<1>3. QED
  BY <1>1, <1>2 DEF DestInv

\* The sockets are kept and no message is addressed.
LEMMA AddressesKept ==
    ASSUME LinksInv, LinksInv', BesideInv, BesideInv', MasksInv, MasksInv',
           NexusInv, DestInv, QueuesTake,
           SocketsKept, UNCHANGED <<PHandSerial, nexus, extqueue, dest>>
    PROVE  NexusInv' /\ DestInv'
<1>1. NexusInv'
  <2>1. \A p \in Process : PHandSerial[p] \in Nat /\ PHandSerial[p] <= PHandSerial[p]
    BY DEF BesideInv
  <2>2. \A p \in Process : extqueue[p] \in Seq(nexus[p])
    BY DEF NexusInv
  <2>3. QED
    BY <2>1, <2>2, NexusKept
<1>2. ASSUME NEW j \in Link
      PROVE  ~lk'[j].conn \/ ep'[j].sock = ep[j].sock
  <2>1. lk'[j].conn => lk'[j].fd
    BY DEF LinksInv, LinkInv
  <2>2. QED
    BY <2>1 DEF SocketsKept
<1>3. QED
  BY <1>1, <1>2, DestKept

\* rtl_eLapDispatchQueueExt: the serial number that the message carries is
\* that of the socket the link has, so the message was addressed to it.
LEMMA DispatchAddresses ==
    ASSUME LinksInv, LinksInv', BesideInv, BesideInv', MasksInv, MasksInv', BookInv,
           NexusInv, DestInv, QueuesTake, NEW p \in Process, DispatchQueueExt(p)
    PROVE  NexusInv' /\ DestInv'
<1>1. PICK q \in Seq(nexus[p]) : q = extqueue[p] /\ q # <<>>
  BY DEF NexusInv, DispatchQueueExt
<1>2. PICK x \in nexus[p] : x = Head(q)
  BY <1>1, HeadTailProperties
<1>3. Tail(q) \in Seq(nexus[p])
  BY <1>1, HeadTailProperties
<1>4. /\ nexus' = nexus /\ PHandSerial' = PHandSerial
      /\ extqueue' = [extqueue EXCEPT ![p] = Tail(q)]
  BY <1>1 DEF DispatchQueueExt
<1>5. \A r \in Process : extqueue'[r] \in Seq(nexus[r])
  BY <1>3, <1>4 DEF BesideInv, NexusInv
<1>6. \A r \in Process : PHandSerial'[r] \in Nat /\ PHandSerial[r] <= PHandSerial'[r]
  BY <1>4 DEF BesideInv
<1>7. CASE UNCHANGED <<vars, ep, dest>>
  <2>1. lk' = lk /\ ep' = ep /\ dest' = dest
    BY <1>7 DEF vars
  <2>2. SocketsKept
    BY <2>1 DEF SocketsKept
  <2>3. NexusInv'
    BY <1>4, <1>5, <1>6, <2>2, NexusKept
  <2>4. \A j \in Link : ep'[j].sock = ep[j].sock
    BY <2>1
  <2>5. QED
    BY <2>1, <2>3, <2>4, DestKept
<1>8. CASE /\ Reaches(x) /\ PutOutQueue(x.lk)
           /\ ep' = [ep EXCEPT ![x.lk].pollout = TRUE]
           /\ dest' = [dest EXCEPT ![used["put"] + 1] = x.sock]
  <2>1. PICK i \in Link : i = x.lk
    BY DEF BesideInv, Nexus
  <2>2. PICK m \in Msg : m = used["put"] + 1
    BY <1>8, <2>1, PutTakes
  <2>3. /\ used'["put"] = m /\ \A j \in Link : j # i => lk'[j] = lk[j]
        /\ lk'[i].fd = lk[i].fd
    BY <1>8, <2>1, <2>2, PutTakes
  <2>4. used["put"] \in Nat /\ m \in Nat
    BY DEF LinksInv, TypeOK, Budget, Msg
  <2>5. lk[i].fd /\ ep[i].serial = x.serial
    BY <1>8, <2>1 DEF Reaches
  <2>6. x.sock = ep[i].sock
    <3>1. Entry(i) \in nexus[Owner(i)] /\ Owner(i) = p
      BY <2>1, <2>5 DEF NexusInv
    <3>2. Entry(i).serial = x.serial /\ Entry(i).sock = ep[i].sock
      BY <2>5 DEF Entry
    <3>3. x = Entry(i)
      BY <3>1, <3>2 DEF NexusInv
    <3>4. QED
      BY <3>2, <3>3
  <2>7. \A j \in Link : ep'[j].serial = ep[j].serial /\ ep'[j].sock = ep[j].sock
    <3>1. ep \in [Link -> Beside]
      BY DEF BesideInv
    <3>2. ep' = [ep EXCEPT ![i] = [ep[i] EXCEPT !.pollout = TRUE]]
      BY <1>8, <2>1
    <3>3. /\ [ep[i] EXCEPT !.pollout = TRUE].serial = ep[i].serial
          /\ [ep[i] EXCEPT !.pollout = TRUE].sock = ep[i].sock
      BY <3>1, PollNames
    <3>4. QED
      BY <3>1, <3>2, <3>3
  <2>8. SocketsKept
    BY <2>3, <2>7 DEF SocketsKept
  <2>9. NexusInv'
    BY <1>4, <1>5, <1>6, <2>8, NexusKept
  <2>10. /\ dest'[m] = ep[i].sock
         /\ \A k \in Msg : k # m => dest'[k] = dest[k]
    BY <1>8, <2>2, <2>6 DEF BesideInv
  <2>11. ASSUME NEW k \in Msg, k > m
         PROVE  dest'[k] = 0
    <3>1. k \in Nat /\ k # m /\ k > used["put"]
      BY <2>2, <2>4, <2>11 DEF Msg
    <3>2. QED
      BY <2>10, <3>1 DEF DestInv
  <2>12. \A j \in Link : \A k \in Queued(lk[j]) : k \in Msg /\ k # m
    <3>1. \A j \in Link : Queued(lk[j]) \subseteq 1..used["put"]
      BY DEF BookInv, Known, Went, Queued
    <3>2. \A j \in Link : Queued(lk[j]) \subseteq Msg
      BY BookTypes DEF LinksInv, TypeOK, Queued
    <3>3. m \notin 1..used["put"]
      BY <2>2, <2>4
    <3>4. QED
      BY <3>1, <3>2, <3>3
  <2>13. ASSUME NEW j \in Link, Unkept(j), NEW k \in Queued(lk'[j])
         PROVE  dest'[k] \in {0, ep'[j].sock}
    <3>1. CASE k \in Queued(lk[j])
      BY <2>7, <2>10, <2>12, <2>13, <3>1 DEF DestInv
    <3>2. CASE k \notin Queued(lk[j])
      <4>1. j = i /\ k \in Msg /\ k > used["put"]
        BY <2>3, <2>13, <3>2 DEF QueuesTake
      <4>2. k = m => dest'[k] = ep'[j].sock
        BY <2>7, <2>10, <4>1
      <4>3. k # m => dest'[k] = 0
        BY <2>10, <4>1 DEF DestInv
      <4>4. QED
        BY <4>2, <4>3
    <3>3. QED
      BY <3>1, <3>2
  <2>14. DestInv'
    BY <2>3, <2>11, <2>13 DEF DestInv
  <2>15. QED
    BY <2>9, <2>14
<1>9. QED
  BY <1>1, <1>2, <1>7, <1>8 DEF DispatchQueueExt

\* Every step keeps the addresses, one step per action.
LEMMA AddressesNext ==
    ASSUME LinksInv, LinksInv', BesideInv, BesideInv', MasksInv, MasksInv',
           WireInv, BookInv, NexusInv, DestInv, [ENext]_allvars
    PROVE  NexusInv' /\ DestInv'
<1>1. QueuesTake
  BY StepRefines, StepTakes
<1>2. ASSUME SocketsKept, UNCHANGED <<PHandSerial, nexus, extqueue, dest>>
      PROVE  NexusInv' /\ DestInv'
  BY <1>1, <1>2, AddressesKept
<1>3. /\ Cli \in Link /\ lk \in [Link -> LinkType] /\ ep \in [Link -> Beside]
      /\ PHandSerial \in [Process -> Nat] /\ "srv" \in Process
      /\ \A p \in Process : extqueue[p] \in Seq(nexus[p])
  BY DEF LinksInv, TypeOK, BesideInv, Link, Process, NexusInv
<1>4. ASSUME lk' = lk, ep' = ep, UNCHANGED <<PHandSerial, nexus, extqueue, dest>>
      PROVE  NexusInv' /\ DestInv'
  BY <1>2, <1>4 DEF SocketsKept
<1>5. ASSUME NEW i \in Link, lk[i].fd, NEW l, Commit(i, l)
      PROVE  \A j \in Link : lk'[j].fd => lk[j].fd
  BY <1>5, OneSocket DEF Commit
<1>6. CASE EConnectDone
  <2>1. /\ \A j \in Link : lk'[j].fd => lk[j].fd
        /\ ep' = [ep EXCEPT ![Cli] = [ep[Cli] EXCEPT !.pollout = FALSE]]
    BY <1>3, <1>5, <1>6 DEF EConnectDone, ConnectDone
  <2>2. SocketsKept
    BY <1>3, <2>1, PollNames, OneMask
  <2>3. QED
    BY <1>2, <1>6, <2>2 DEF EConnectDone
<1>7. CASE EConnectRejected
  BY <1>2, <1>3, <1>5, <1>7, ClosedSockets DEF EConnectRejected, ConnectRejected
<1>8. CASE ECloseBind
  <2>1. \A j \in Link : lk'[j].fd => lk[j].fd
    <3>1. CASE CloseBindNow
      <4>1. \A j \in Link : ~lk[j].fd => lk'[j] = lk[j]
        BY <3>1 DEF CloseBindNow
      <4>2. QED
        BY <4>1
    <3>2. CASE \E nice \in BOOLEAN : CloseBind(nice)
      <4>1. \A j \in Link : ~lk[j].fd => lk'[j] = lk[j]
        BY <3>2 DEF CloseBind
      <4>2. QED
        BY <4>1
    <3>3. QED
      BY <1>8, <3>1, <3>2 DEF ECloseBind
  <2>2. QED
    BY <1>2, <1>8, <2>1, ClosedSockets DEF ECloseBind
<1>9. CASE EOpenBind
  <2>1. /\ lk' = lk /\ ep' = ep /\ dest' = dest /\ nexus' = nexus /\ extqueue' = extqueue
        /\ PHandSerial' = [PHandSerial EXCEPT !["srv"] = PHandSerial["srv"] + 1]
    BY <1>9 DEF EOpenBind, OpenBind
  <2>2. SocketsKept
    BY <2>1 DEF SocketsKept
  <2>3. \A p \in Process : PHandSerial'[p] \in Nat /\ PHandSerial[p] <= PHandSerial'[p]
    BY <1>3, <2>1
  <2>4. NexusInv'
    BY <1>3, <2>1, <2>2, <2>3, NexusKept
  <2>5. QED
    BY <1>1, <2>1, <2>4, DestKept
<1>10. ASSUME NEW c \in Conn, EConnStep(c)
       PROVE  NexusInv' /\ DestInv'
  <2>1. c \in Link /\ c # Cli
    BY ConnAssumption DEF Link
  <2>2. CASE EDial(c)
    <3>1. /\ EpollAdd(Owner(Cli), Cli, TRUE) /\ extqueue' = extqueue /\ dest' = dest
          /\ ~lk[Cli].fd /\ \A j \in Link : j # Cli => lk'[j] = lk[j]
      BY <1>3, <2>2 DEF EDial, Dial, Owner
    <3>2. NexusInv'
      BY <1>3, <3>1, NexusAdded
    <3>3. ~lk[Cli].conn /\ \A j \in Link : j # Cli => ep'[j] = ep[j]
      BY <1>3, <3>1 DEF LinksInv, LinkInv, EpollAdd
    <3>4. QED
      BY <1>1, <3>1, <3>2, <3>3, DestKept
  <2>3. CASE EAccept(c)
    <3>1. CASE BelowLimit
      <4>1. Accept(c) /\ EpollAdd(Owner(c), c, FALSE) /\ extqueue' = extqueue /\ dest' = dest
        BY <2>1, <2>3, <3>1 DEF EAccept, Owner
      <4>2. \A j \in Link : j # c => lk'[j] = lk[j] /\ ep'[j] = ep[j]
        BY <1>3, <4>1 DEF Accept, EpollAdd
      <4>3. NexusInv'
        BY <2>1, <4>1, <4>2, NexusAdded
      <4>4. ~lk[c].conn
        BY <2>1, <4>1 DEF Accept, WireInv, ConnInv, LinksInv, LinkInv
      <4>5. QED
        BY <1>1, <4>1, <4>2, <4>3, <4>4, DestKept
    <3>2. CASE ~BelowLimit
      BY <1>4, <2>3, <3>2 DEF EAccept, AcceptRefused
    <3>3. QED
      BY <3>1, <3>2
  <2>4. CASE ENetwork(c)
    BY <1>4, <2>4 DEF ENetwork, Handshake, Cut, evars
  <2>5. CASE EPollMarked(c)
    <3>1. lk[c].fd /\ Commit(c, LapDisconnected(c, lk[c]))
      BY <2>5, MarkedCloses DEF EPollMarked
    <3>2. QED
      BY <1>2, <1>5, <2>1, <2>5, <3>1, ClosedSockets DEF EPollMarked
  <2>6. QED
    BY <1>10, <2>2, <2>3, <2>4, <2>5 DEF EConnStep
<1>11. ASSUME NEW i \in Link, ELinkStep(i)
       PROVE  NexusInv' /\ DestInv'
  BY <1>2, <1>11, LinkStepSockets
<1>12. ASSUME NEW p \in Process, PutOutQueueExt(p)
       PROVE  NexusInv' /\ DestInv'
  <2>1. PICK x \in nexus[p] : extqueue' = [extqueue EXCEPT ![p] = Append(@, x)]
    BY <1>12 DEF PutOutQueueExt
  <2>2. /\ lk' = lk /\ ep' = ep /\ dest' = dest /\ nexus' = nexus /\ PHandSerial' = PHandSerial
    BY <1>12 DEF PutOutQueueExt, vars
  <2>3. Append(extqueue[p], x) \in Seq(nexus[p])
    BY <1>3, AppendProperties
  <2>4. \A r \in Process : extqueue'[r] \in Seq(nexus[r])
    BY <1>3, <2>1, <2>3 DEF BesideInv
  <2>5. SocketsKept
    BY <2>2 DEF SocketsKept
  <2>6. \A r \in Process : PHandSerial'[r] \in Nat /\ PHandSerial[r] <= PHandSerial'[r]
    BY <1>3, <2>2
  <2>7. NexusInv'
    BY <2>2, <2>4, <2>5, <2>6, NexusKept
  <2>8. QED
    BY <1>1, <2>2, <2>7, DestKept
<1>13. ASSUME NEW p \in Process, DispatchQueueExt(p)
       PROVE  NexusInv' /\ DestInv'
  BY <1>1, <1>13, DispatchAddresses
<1>14. CASE UNCHANGED allvars
  BY <1>4, <1>14 DEF allvars, vars, evars
<1>15. QED
  BY <1>6, <1>7, <1>8, <1>9, <1>10, <1>11, <1>12, <1>13, <1>14 DEF ENext

\* No socket was named and nothing was put.
LEMMA AddressesInit == ASSUME EInit PROVE NexusInv /\ DestInv
<1>1. \A i \in Link : lk[i] = NewLink
  BY DEF EInit, Init
<1>2. ~NewLink.fd /\ Queued(NewLink) = {}
  BY EmptyNames DEF NewLink, Queued, Out, Wait
<1>3. \A p \in Process : nexus[p] = {} /\ extqueue[p] = <<>>
  BY DEF EInit
<1>4. \A p \in Process : extqueue[p] \in Seq(nexus[p])
  BY <1>3, EmptySeq
<1>5. NexusInv
  BY <1>1, <1>2, <1>3, <1>4 DEF NexusInv
<1>6. DestInv
  BY <1>1, <1>2 DEF EInit, DestInv
<1>7. QED
  BY <1>5, <1>6

\* A message that another thread addressed to a connection is never queued
\* for, nor sent on, another one of the same descriptor, however long it
\* stayed in ct_extqueue and whatever serial numbers were given meanwhile
\* (rtl_epollSerial, rtl_eLapDispatchQueueExt).
THEOREM AlwaysAddressed == ESpec => []Addressed
<1>1. EInit => NexusInv /\ DestInv
  BY AddressesInit
<1>2. LinksInv /\ BesideInv /\ WireInv /\ BookInv /\ MasksInv
      /\ LinksInv' /\ BesideInv' /\ MasksInv'
      /\ NexusInv /\ DestInv /\ [ENext]_allvars
         => NexusInv' /\ DestInv'
  BY AddressesNext
<1>3. LinksInv /\ DestInv => Addressed
  <2> SUFFICES ASSUME LinksInv, DestInv, NEW i \in Link, Unkept(i),
                      NEW m \in Elems(lk[i].outqueue) \cup AckMsgs(lk[i].ackqueue)
               PROVE  dest[m] \in {0, ep[i].sock}
    BY DEF Addressed, Unkept
  <2>1. AckMsgs(lk[i].ackqueue) = Wait(lk[i])
    BY NamesType DEF LinksInv, TypeOK, LinkType, Wait
  <2>2. QED
    BY <2>1 DEF DestInv, Queued, Out
<1>4. QED
  BY <1>1, <1>2, <1>3, EBothEnds, MasksHold, PTL DEF ESpec
=============================================================================
