------------------------------ MODULE XlapLink ------------------------------
(***************************************************************************)
(* The xlap links of lib/xlap.c: an IEC 104 / APCI client link, the        *)
(* listener of the server process and the server links that the listener   *)
(* creates, over TCP connections.                                          *)
(*                                                                         *)
(* A link is a record of the fields of t_xlap_link.  Every function of the *)
(* source that works on one link is an operator from link to link of the   *)
(* same name; an action applies the operators of one callback to one link  *)
(* and hands the frames they wrote (field tx) to the network.              *)
(***************************************************************************)
EXTENDS XlapSeq, Sequences, FiniteSets

CONSTANTS
    Conn,       \* TCP connections; a server link is named by its connection
    NoConn,     \* the client holds no socket
    K,          \* lk_k: at most K unacknowledged I frames
    W,          \* lk_w: acknowledge after W received I frames
    T1, T2, T3, \* lk_t1, lk_t2, lk_t3 in seconds
    maxConn,    \* lk_maxConn of the listener, 0 for no limit
    Slave,      \* roles whose links are LK_SSP_SLAVE
    AutoStart,  \* roles whose links are LK_SSP_AUTOSTART
    KeepOutq,   \* the client link is LK_LNK_NOFULLRESET
    AckTimer,   \* T1 of I frames is examined (in elap.c it is not, see Elap)
    MaxPut,     \* bound: messages the users put
    MaxReq,     \* bound: start, stop and test requests of the users
    MaxDisc,    \* bound: rtl_LapDisc calls of the users
    MaxDial,    \* bound: TCP connections the client opens
    MaxBind,    \* bound: rtl_LapCloseBind calls of the server's user
    MaxCut,     \* bound: connections that die silently
    MaxAll      \* bound: all of these together

Cli  == "cli"
Link == {Cli} \cup Conn
Role(i) == IF i = Cli THEN "cli" ELSE "srv"

ASSUME ConnAssumption == Cli \notin Conn /\ NoConn \notin Conn /\ IsFiniteSet(Conn)
ASSUME WindowAssumption ==
    /\ K \in 1..(N-1)
    /\ W \in 1..(N-1)
ASSUME TimerAssumption == T1 \in Nat \ {0} /\ T2 \in Nat \ {0} /\ T3 \in Nat \ {0}
ASSUME FlagAssumption ==
    /\ maxConn \in Nat
    /\ Slave \subseteq {"cli", "srv"}
    /\ AutoStart \subseteq {"cli", "srv"}
    /\ KeepOutq \in BOOLEAN
    /\ AckTimer \in BOOLEAN
ASSUME BoundAssumption ==
    /\ MaxPut \in Nat
    /\ MaxReq \in Nat
    /\ MaxDisc \in Nat
    /\ MaxDial \in Nat
    /\ MaxBind \in Nat
    /\ MaxCut \in Nat
    /\ MaxAll \in Nat

VARIABLES
    lk,         \* the links
    net,        \* net[i]: frames on their way to link i, oldest first
    tcp,        \* tcp[c]: what the kernels know of connection c
    cur,        \* the connection of the client's socket, or NoConn
    up,         \* up[c]: connection c still carries data
    bound,      \* the listener is listening (its lk_fd >= 0)
    cnxcount,   \* lk_cnxcount of the listener
    used        \* how much of each bound is used up

vars == <<lk, net, tcp, cur, up, bound, cnxcount, used>>

-----------------------------------------------------------------------------
(* Links and frames *)

SSP == {"INIT", "STOPPED", "PENDING_STARTED", "STARTED",
        "PENDING_STOPPED", "PENDING_UNCONFD"}

UType == {"TESTFRact", "TESTFRcon", "STOPDTact", "STOPDTcon",
          "STARTDTact", "STARTDTcon"}

Msg   == 1..MaxPut
NoMsg == 0

Frame == [type : UType \cup {"S"}, ns : SeqNo, nr : SeqNo, msg : {NoMsg}]
         \cup [type : {"I"}, ns : SeqNo, nr : SeqNo, msg : Msg]

UFrame(t)      == [type |-> t,   ns |-> 0,  nr |-> 0,  msg |-> NoMsg]
SFrame(nr)     == [type |-> "S", ns |-> 0,  nr |-> nr, msg |-> NoMsg]
IFrame(ns, nr, m) == [type |-> "I", ns |-> ns, nr |-> nr, msg |-> m]

\* A timer is the number of seconds since it was started, Off when its
\* field is 0.  Ages past the timeout it is compared with are not told apart.
Off == -1
Timer(timeout) == Off..(timeout + 1)
Older(t, timeout) == IF t \in {Off, timeout + 1} THEN t ELSE t + 1

CnxDelay == 3   \* seconds rtl_LapReConnect gives a pending connect

Unacked == [msg : Msg, ns : SeqNo, age : 0..(T1 + 1)]

LinkType ==
    [state : SSP, fd : BOOLEAN, conn : BOOLEAN, progAt : Timer(CnxDelay),
     va : SeqNo, vs : SeqNo, vr : SeqNo, vapeer : SeqNo,
     uFrmSndAt : Timer(T1), tFrmSndAt : BOOLEAN,
     iFrmRcvAt : Timer(T2), xFrmRcvAt : Timer(T3),
     outqueue : Seq(Msg), ackqueue : Seq(Unacked),
     tobedisc : BOOLEAN, nberr : BOOLEAN,
     tx : Seq(Frame),
     sent : Seq(Msg), rcvd : Seq(Msg),
     acked : SUBSET Msg, acklost : SUBSET Msg, purged : SUBSET Msg, seen : SUBSET Msg]

\* The fields LapReset clears, in their initial state.  sent and rcvd record
\* what passed on the current connection; acked, acklost, purged and seen
\* what became of each message (none of the six is in the source).
NewLink ==
    [state |-> "INIT", fd |-> FALSE, conn |-> FALSE, progAt |-> Off,
     va |-> 0, vs |-> 0, vr |-> 0, vapeer |-> 0,
     uFrmSndAt |-> Off, tFrmSndAt |-> FALSE, iFrmRcvAt |-> Off, xFrmRcvAt |-> Off,
     outqueue |-> <<>>, ackqueue |-> <<>>,
     tobedisc |-> FALSE, nberr |-> FALSE,
     tx |-> <<>>,
     sent |-> <<>>, rcvd |-> <<>>,
     acked |-> {}, acklost |-> {}, purged |-> {}, seen |-> {}]

Elems(s)    == {s[i] : i \in 1..Len(s)}
AckMsgs(q)  == {q[i].msg : i \in 1..Len(q)}

-----------------------------------------------------------------------------
(* Writing frames *)

Write(l, f) == [l EXCEPT !.tx = Append(@, f)]

\* Starts T1 for an act frame, stops it for a con frame.
LapSendFrameU(l, t) ==
    IF ~l.conn THEN l
    ELSE Write([l EXCEPT
            !.tFrmSndAt = @ \/ t = "TESTFRact",
            !.uFrmSndAt = CASE t \in {"TESTFRcon", "STOPDTcon", "STARTDTcon"} -> Off
                            [] OTHER -> IF @ = Off THEN 0 ELSE @],
          UFrame(t))

LapSendFrameS(l) ==
    IF ~l.fd \/ ~l.conn THEN l
    ELSE Write([l EXCEPT !.vapeer = l.vr], SFrame(l.vr))

\* Fault: the vs of the last message is not counted.
SendFirst_ShortVs(l, n) ==
    [l EXCEPT
        !.tx       = @ \o [j \in 1..n |-> IFrame(Advance(l.vs, j-1), l.vr, l.outqueue[j])],
        !.ackqueue = @ \o [j \in 1..n |->
                        [msg |-> l.outqueue[j], ns |-> Advance(l.vs, j-1), age |-> 0]],
        !.outqueue = SubSeq(@, n+1, Len(@)),
        !.sent     = @ \o SubSeq(l.outqueue, 1, n),
        !.vs       = Advance(@, n - 1)]

\* Sends the first n messages of the out queue, moving them to the ack queue.
SendFirst(l, n) ==
    [l EXCEPT
        !.tx       = @ \o [j \in 1..n |-> IFrame(Advance(l.vs, j-1), l.vr, l.outqueue[j])],
        !.ackqueue = @ \o [j \in 1..n |->
                        [msg |-> l.outqueue[j], ns |-> Advance(l.vs, j-1), age |-> 0]],
        !.outqueue = SubSeq(@, n+1, Len(@)),
        !.sent     = @ \o SubSeq(l.outqueue, 1, n),
        !.vs       = Advance(@, n)]

\* Fault: the window is not looked at.
SendRoom_NoWindow(l) == Len(l.outqueue)

\* How many messages the loop of LapRunOutQueue may send: it stops when the
\* out queue is empty or vs reaches (va + k) % n.
SendRoom(l) ==
    LET room == Dist(l.vs, Advance(l.va, K))
    IN  IF Len(l.outqueue) < room THEN Len(l.outqueue) ELSE room

\* Fail: the number of messages whose write succeeds before one fails.
LapRunOutQueue(l, fail) ==
    IF l.state # "STARTED" \/ ~l.fd \/ ~l.conn THEN l
    ELSE LET r == IF l.ackqueue = <<>> THEN [l EXCEPT !.vs = l.va] ELSE l
             n == IF fail < SendRoom(r) THEN fail ELSE SendRoom(r)
         IN  SendFirst(r, n)

\* Fault: the message numbered nr is removed too.
LapRunAckQueue_OneMore(l, nr) ==
    LET stop == {i \in 1..Len(l.ackqueue) : l.ackqueue[i].ns = nr}
        n    == IF stop = {} THEN Len(l.ackqueue)
                ELSE CHOOSE i \in stop : \A j \in stop : i <= j
    IN  [l EXCEPT !.ackqueue = SubSeq(@, n+1, Len(@)),
                  !.acked    = @ \cup AckMsgs(SubSeq(l.ackqueue, 1, n))]

\* Removes messages from the front of the ack queue until the one numbered nr.
LapRunAckQueue(l, nr) ==
    LET stop == {i \in 1..Len(l.ackqueue) : l.ackqueue[i].ns = nr}
        n    == IF stop = {} THEN Len(l.ackqueue)
                ELSE (CHOOSE i \in stop : \A j \in stop : i <= j) - 1
    IN  [l EXCEPT !.ackqueue = SubSeq(@, n+1, Len(@)),
                  !.acked    = @ \cup AckMsgs(SubSeq(l.ackqueue, 1, n))]

-----------------------------------------------------------------------------
(* Reset and disconnection *)

\* Fault: vr survives the connection.
LapReset_KeepVr(l, full) ==
    [NewLink EXCEPT
        !.vr      = l.vr,
        !.outqueue = IF full THEN <<>> ELSE l.outqueue,
        !.tx      = l.tx,
        !.acked   = l.acked,
        !.acklost = l.acklost,
        !.purged  = IF full THEN l.purged \cup Elems(l.outqueue) ELSE l.purged,
        !.seen    = l.seen]

LapReset(l, full) ==
    [NewLink EXCEPT
        !.outqueue = IF full THEN <<>> ELSE l.outqueue,
        !.tx      = l.tx,
        !.acked   = l.acked,
        !.acklost = l.acklost,
        !.purged  = IF full THEN l.purged \cup Elems(l.outqueue) ELSE l.purged,
        !.seen    = l.seen]

\* Fault: the unacknowledged messages are not sent back to the user.
LapDisconnected_Silent(i, l) == LapReset(l, ~(i = Cli /\ KeepOutq))

\* Fault: a client that keeps its out queue queues the unacknowledged
\* messages again instead of reporting them.
LapDisconnected_Resend(i, l) ==
    LapReset([l EXCEPT !.outqueue = [j \in 1..Len(l.ackqueue) |-> l.ackqueue[j].msg] \o @],
             ~(i = Cli /\ KeepOutq))

\* EVT_FRAME_ACKLOST for each unacknowledged message, then the socket is
\* closed and the link reset; a server link always in full.
LapDisconnected(i, l) ==
    LapReset([l EXCEPT !.acklost = @ \cup AckMsgs(l.ackqueue)],
             ~(i = Cli /\ KeepOutq))

-----------------------------------------------------------------------------
(* The start/stop procedure *)

LapSetState(l, s) == [l EXCEPT !.state = s]

\* EVT_TCP_CREATED (server link) and EVT_TCP_CONNECTED (client link).
EventConnected(i, l) ==
    IF l.state # "INIT" THEN l
    ELSE IF Role(i) \notin Slave /\ Role(i) \in AutoStart
         THEN LapSetState(LapSendFrameU(l, "STARTDTact"), "PENDING_STARTED")
         ELSE LapSetState(l, "STOPPED")

\* Fault: the stop is confirmed but the state is kept.
ConfirmStop_NoState(l) == LapSendFrameU(l, "STOPDTcon")

\* The confirmation of STOPDTact, once nothing is left unacknowledged.
ConfirmStop(l) == LapSetState(LapSendFrameU(l, "STOPDTcon"), "STOPPED")

\* Fault: one acknowledgement is taken for all of them.
StopIfAcked_AnyAck(l) == ConfirmStop(l)

\* SSP_PENDING_UNCONFD + EVT_FRAMES
StopIfAcked(l) == IF l.vs = l.va THEN ConfirmStop(l) ELSE l

\* EventMasterSlave for EVT_INDICAT events.
EventIndication(l, evt) ==
    CASE evt = "TESTFRact" -> LapSendFrameU(l, "TESTFRcon")
      [] evt = "TESTFRcon" -> [l EXCEPT !.tFrmSndAt = FALSE]
      [] evt = "STARTDTact" /\ l.state = "STOPPED" ->
            LapSetState(LapSendFrameU(l, "STARTDTcon"), "STARTED")
      [] evt = "STARTDTact" /\ l.state = "STARTED" -> LapSendFrameU(l, "STARTDTcon")
      [] evt = "STARTDTcon" /\ l.state = "PENDING_STARTED" -> LapSetState(l, "STARTED")
      [] evt = "STOPDTact" /\ l.state = "STARTED" ->
            IF l.vs = l.va THEN ConfirmStop(l) ELSE LapSetState(l, "PENDING_UNCONFD")
      [] evt = "STOPDTcon" /\ l.state = "PENDING_STOPPED" -> LapSetState(l, "STOPPED")
      [] evt = "FRAMES" /\ l.state = "PENDING_UNCONFD" -> StopIfAcked(l)
      [] evt = "FRAMEI" /\ l.state = "PENDING_UNCONFD" -> ConfirmStop(l)
      [] OTHER -> l

\* EventMasterSlave for EVT_REQUEST events (rtl_LapEventRequest).
EventRequest(l, evt) ==
    CASE evt = "TESTFRact" -> LapSendFrameU(l, "TESTFRact")
      [] evt = "STARTDTact" /\ l.state = "STOPPED" ->
            LapSetState(LapSendFrameU(l, "STARTDTact"), "PENDING_STARTED")
      [] evt = "STOPDTact" /\ l.state = "STARTED" ->
            LapSetState(LapSendFrameU(l, "STOPDTact"), "PENDING_STOPPED")
      [] OTHER -> l

-----------------------------------------------------------------------------
(* Receiving frames *)

\* A frame whose nr (or ns) does not fit is answered by an S frame.
SeqError(l) == LapSendFrameS([l EXCEPT !.nberr = TRUE])

\* nr of an S or I frame acknowledges everything before it.
Acknowledge(l, nr) == [LapRunAckQueue(l, nr) EXCEPT !.va = nr]

\* Fault: one frame more is waited for.
AckDue_Late(l) == Dist(l.vapeer, l.vr) = W + 1

\* W received I frames wait for an acknowledgement.
AckDue(l) == Dist(l.vapeer, l.vr) = W

\* An I frame with the expected ns: count it, start T2, acknowledge it when
\* W are pending, and give it to the user.
AcceptFrameI(l, f) ==
    LET r == [l EXCEPT !.vr = NextNo(@),
                       !.iFrmRcvAt = IF @ = Off THEN 0 ELSE @,
                       !.rcvd = Append(@, f.msg),
                       !.seen = @ \cup {f.msg}]
        s == IF AckDue(r) THEN LapSendFrameS(r) ELSE r
    IN  EventIndication(s, "FRAMEI")

IncomingFrame(l0, f) ==
    LET l == [l0 EXCEPT !.xFrmRcvAt = 0]
    IN  CASE f.type \in {"TESTFRcon", "STOPDTcon", "STARTDTcon"} ->
                EventIndication([l EXCEPT !.uFrmSndAt = Off], f.type)
          [] f.type \in {"TESTFRact", "STOPDTact", "STARTDTact"} ->
                EventIndication(l, f.type)
          [] f.type = "S" ->
                IF OKNR(l.va, l.vs, f.nr)
                THEN EventIndication(Acknowledge(l, f.nr), "FRAMES")
                ELSE SeqError(l)
          [] f.type = "I" ->
                IF ~OKNR(l.va, l.vs, f.nr) THEN SeqError(l)
                ELSE IF ~OKNS(l.vr, f.ns) THEN SeqError(Acknowledge(l, f.nr))
                ELSE AcceptFrameI(Acknowledge(l, f.nr), f)

-----------------------------------------------------------------------------
(* Timers *)

\* Fault: T2 is stopped but nothing is sent.
LapTimerT1T2T3_NoAck(i, l) ==
    IF ~l.conn THEN l
    ELSE IF l.uFrmSndAt > T1 THEN LapDisconnected(i, l)
    ELSE IF l.iFrmRcvAt > T2 THEN [l EXCEPT !.iFrmRcvAt = Off]
    ELSE IF (l.xFrmRcvAt = Off \/ l.xFrmRcvAt > T3) /\ ~l.tFrmSndAt
         THEN LapSendFrameU(l, "TESTFRact")
    ELSE l

\* Fault: an idle connection is not tested.
LapTimerT1T2T3_NoTest(i, l) ==
    IF ~l.conn THEN l
    ELSE IF l.uFrmSndAt > T1 THEN LapDisconnected(i, l)
    ELSE IF l.iFrmRcvAt > T2 THEN LapSendFrameS([l EXCEPT !.iFrmRcvAt = Off])
    ELSE l

\* T1 of U frames, then T2, then T3: at most one of them acts per call.
LapTimerT1T2T3(i, l) ==
    IF ~l.conn THEN l
    ELSE IF l.uFrmSndAt > T1 THEN LapDisconnected(i, l)
    ELSE IF l.iFrmRcvAt > T2 THEN LapSendFrameS([l EXCEPT !.iFrmRcvAt = Off])
    ELSE IF (l.xFrmRcvAt = Off \/ l.xFrmRcvAt > T3) /\ ~l.tFrmSndAt
         THEN LapSendFrameU(l, "TESTFRact")
    ELSE l

\* Fault: only client links are looked at.
LapTimerAckQueue_CliOnly(i, l) ==
    IF AckTimer /\ i = Cli /\ \E j \in 1..Len(l.ackqueue) : l.ackqueue[j].age >= T1
    THEN LapDisconnected(i, l)
    ELSE l

\* T1 of I frames.
LapTimerAckQueue(i, l) ==
    IF AckTimer /\ \E j \in 1..Len(l.ackqueue) : l.ackqueue[j].age >= T1
    THEN LapDisconnected(i, l)
    ELSE l

\* rtl_LapReConnect of a client link whose connect is pending for too long.
LapReConnect(i, l) ==
    IF ~l.conn /\ l.fd /\ l.progAt > CnxDelay THEN LapDisconnected(i, l) ELSE l

OlderMsg(m) == IF AckTimer THEN [m EXCEPT !.age = Older(@, T1)] ELSE m

\* One second goes by for a link.
Aged(l) ==
    [l EXCEPT !.progAt    = Older(@, CnxDelay),
              !.uFrmSndAt = Older(@, T1),
              !.iFrmRcvAt = Older(@, T2),
              !.xFrmRcvAt = Older(@, T3),
              !.ackqueue  = [j \in 1..Len(@) |-> OlderMsg(@[j])]]

\* rtl_LapDoClockScPeriod for one link, re on the calls that reconnect.
LapDoClockSc(i, l, re) ==
    LET r == IF re THEN LapReConnect(i, Aged(l)) ELSE Aged(l)
    IN  LapTimerAckQueue(i, LapTimerT1T2T3(i, r))

-----------------------------------------------------------------------------
(* The TCP connections (external).  tcp[c] is "free" for no connection,    *)
(* "syn" while the connect is in progress, "backlog" once the handshake is *)
(* done and until accept(), "open" while a server link has it, "shut" when *)
(* the server side has closed it and the client side has not.              *)

\* The connection of link i.
ConnOf(i) == IF i = Cli THEN cur ELSE i

\* The link at the other end of the connection of link i.
Peer(i) == IF i = Cli THEN cur ELSE Cli

\* The other end has not closed the connection of link i.
PeerThere(i) == IF i = Cli THEN tcp[cur] \in {"backlog", "open"} ELSE cur = i

\* Link i becomes l: what it wrote goes on the wire, unless nobody can read
\* it, and if it closed its socket what it had not read is gone.
Commit(i, l) ==
    LET c      == ConnOf(i)
        closed == lk[i].fd /\ ~l.fd
        sends  == PeerThere(i) /\ up[c]
    IN  /\ lk' = [lk EXCEPT ![i] = [l EXCEPT !.tx = <<>>]]
        /\ net' = [j \in Link |->
                     IF j = i /\ closed THEN <<>>
                     ELSE IF sends /\ j = Peer(i) THEN net[j] \o l.tx
                     ELSE net[j]]
        /\ cur' = IF closed /\ i = Cli THEN NoConn ELSE cur
        /\ tcp' = IF ~closed THEN tcp
                  ELSE IF i = Cli
                       THEN [tcp EXCEPT ![c] = IF @ \in {"syn", "shut"} THEN "free" ELSE @]
                       ELSE [tcp EXCEPT ![c] = IF cur = c THEN "shut" ELSE "free"]
        /\ cnxcount' = IF closed /\ i # Cli THEN cnxcount - 1 ELSE cnxcount

Budget == {"put", "req", "disc", "dial", "bind", "cut"}
Bound(b) ==
    CASE b = "put"  -> MaxPut
      [] b = "req"  -> MaxReq
      [] b = "disc" -> MaxDisc
      [] b = "dial" -> MaxDial
      [] b = "bind" -> MaxBind
      [] b = "cut"  -> MaxCut

Total == used["put"] + used["req"] + used["disc"] + used["dial"] + used["bind"] + used["cut"]

Left(b)  == used[b] < Bound(b) /\ Total < MaxAll
Spend(b) == used' = [used EXCEPT ![b] = @ + 1]

Init ==
    /\ lk = [i \in Link |-> NewLink]
    /\ net = [i \in Link |-> <<>>]
    /\ tcp = [c \in Conn |-> "free"]
    /\ cur = NoConn
    /\ up = [c \in Conn |-> TRUE]
    /\ bound = TRUE
    /\ cnxcount = 0
    /\ used = [b \in Budget |-> 0]

-----------------------------------------------------------------------------
(* Opening connections *)

\* rtl_LapConnect, at start-up or from rtl_LapReConnect.  A connect that
\* fails at once leaves the link as it is.
Dial(c) ==
    /\ ~lk[Cli].fd
    /\ tcp[c] = "free"
    /\ Left("dial") /\ Spend("dial")
    /\ lk' = [lk EXCEPT ![Cli].fd = TRUE, ![Cli].progAt = 0]
    /\ cur' = c
    /\ tcp' = [tcp EXCEPT ![c] = "syn"]
    /\ up' = [up EXCEPT ![c] = TRUE]
    /\ UNCHANGED <<net, bound, cnxcount>>

\* The three-way handshake ends in the backlog of the listener (external).
Handshake(c) ==
    /\ tcp[c] = "syn"
    /\ up[c] /\ bound
    /\ tcp' = [tcp EXCEPT ![c] = "backlog"]
    /\ UNCHANGED <<lk, net, cur, up, bound, cnxcount, used>>

\* CB_LapEvent, client not yet connected: POLLOUT without socket error.
\* progAt is not read any more once the link is connected.
ConnectDone ==
    /\ lk[Cli].fd /\ ~lk[Cli].conn
    /\ tcp[cur] # "syn"
    /\ Commit(Cli, EventConnected(Cli, [lk[Cli] EXCEPT !.conn = TRUE, !.progAt = Off]))
    /\ UNCHANGED <<up, bound, used>>

\* CB_LapEvent, client not yet connected: the connect was refused, or the
\* server closed the connection before the client looked at it.
ConnectRejected ==
    /\ lk[Cli].fd /\ ~lk[Cli].conn
    /\ tcp[cur] \in {"syn", "shut"}
    /\ Commit(Cli, LapDisconnected(Cli, lk[Cli]))
    /\ UNCHANGED <<up, bound, used>>

\* Fault: the limit is tested after the count went past it.
BelowLimit_Past == maxConn = 0 \/ cnxcount # maxConn + 1

\* The listener may take one more connection.
BelowLimit == maxConn = 0 \/ cnxcount # maxConn

\* CB_LapEvent of the listener: accept() below the limit of connections.
Accept(c) ==
    /\ tcp[c] = "backlog"
    /\ BelowLimit
    /\ LET l == EventConnected(c, [LapReset(lk[c], TRUE) EXCEPT !.fd = TRUE, !.conn = TRUE])
       IN  /\ lk' = [lk EXCEPT ![c] = [l EXCEPT !.tx = <<>>]]
           /\ net' = IF cur = c /\ up[c] THEN [net EXCEPT ![Cli] = @ \o l.tx] ELSE net
    /\ tcp' = [tcp EXCEPT ![c] = "open"]
    /\ cnxcount' = cnxcount + 1
    /\ UNCHANGED <<cur, up, bound, used>>

\* CB_LapEvent of the listener: accept() at the limit, closed at once.
AcceptRefused(c) ==
    /\ tcp[c] = "backlog"
    /\ ~BelowLimit
    /\ tcp' = [tcp EXCEPT ![c] = IF cur = c THEN "shut" ELSE "free"]
    /\ net' = [net EXCEPT ![c] = <<>>]
    /\ UNCHANGED <<lk, cur, up, bound, cnxcount, used>>

-----------------------------------------------------------------------------
(* Poll events of a connected link *)

\* CB_LapEvent with POLLIN: one complete frame is read.
Recv(i) ==
    /\ lk[i].conn /\ ~lk[i].tobedisc
    /\ net[i] # <<>>
    /\ LET l == IncomingFrame(lk[i], Head(net[i]))
           c == ConnOf(i)
       IN  /\ lk' = [lk EXCEPT ![i] = [l EXCEPT !.tx = <<>>]]
           /\ net' = [j \in Link |->
                        IF j = i THEN Tail(net[j])
                        ELSE IF PeerThere(i) /\ up[c] /\ j = Peer(i) THEN net[j] \o l.tx
                        ELSE net[j]]
    /\ UNCHANGED <<tcp, cur, up, bound, cnxcount, used>>

\* CB_LapRequest asks for POLLOUT.
WantsPollOut(l) ==
    /\ l.vs # Advance(l.va, K)
    /\ l.outqueue # <<>>
    /\ l.state = "STARTED"

\* CB_LapEvent with POLLOUT.  Writes fail only once the other end is closed.
Send(i) ==
    /\ lk[i].conn /\ ~lk[i].tobedisc
    /\ WantsPollOut(lk[i])
    /\ \E fail \in IF PeerThere(i) /\ up[ConnOf(i)] THEN {K} ELSE 0..K :
          Commit(i, LapRunOutQueue(lk[i], fail))
    /\ UNCHANGED <<up, bound, used>>

\* CB_LapEvent with POLLIN at the end of the stream: read() returns 0.
AtEof(i) == lk[i].conn /\ net[i] = <<>> /\ up[ConnOf(i)] /\ ~PeerThere(i)

ReadEof(i) ==
    /\ AtEof(i) /\ ~lk[i].tobedisc
    /\ Commit(i, LapDisconnected(i, lk[i]))
    /\ UNCHANGED <<up, bound, used>>

\* CB_LapEvent with POLLERR, or read() fails: the reset of a closed
\* connection overtook its data, or the kernel gave the connection up.
ReadError(i) ==
    /\ lk[i].conn
    /\ ~PeerThere(i) \/ ~up[ConnOf(i)]
    /\ Commit(i, LapDisconnected(i, lk[i]))
    /\ UNCHANGED <<up, bound, used>>

\* CB_LapEvent of a server link that rtl_LapCloseBind marked, whatever the
\* event is.
PollMarked(c) ==
    /\ lk[c].tobedisc
    /\ net[c] # <<>> \/ AtEof(c) \/ WantsPollOut(lk[c])
    /\ Commit(c, LapDisconnected(c, lk[c]))
    /\ UNCHANGED <<up, bound, used>>

\* Connection c dies without either end being told: the other process
\* hangs or its host is gone.
Cut(c) ==
    /\ tcp[c] # "free" /\ up[c]
    /\ Left("cut") /\ Spend("cut")
    /\ up' = [up EXCEPT ![c] = FALSE]
    /\ net' = [j \in Link |-> IF j = c \/ (j = Cli /\ cur = c) THEN <<>> ELSE net[j]]
    /\ UNCHANGED <<lk, tcp, cur, bound, cnxcount>>

-----------------------------------------------------------------------------
(* The clock and the user *)

\* rtl_LapDoClockScPeriod: links are independent of each other.
ClockSc(i, re) ==
    /\ lk[i].fd
    /\ re => i = Cli
    /\ Commit(i, LapDoClockSc(i, lk[i], re))
    /\ UNCHANGED <<up, bound, used>>

\* rtl_LapPutOutQueue on a started link; on any other the message is
\* dropped at once (MAX_MSG_STORED is 0) and the caller told so.
PutOutQueue(i) ==
    /\ lk[i].state = "STARTED"
    /\ Left("put") /\ Spend("put")
    /\ lk' = [lk EXCEPT ![i].outqueue = Append(@, used["put"] + 1)]
    /\ UNCHANGED <<net, tcp, cur, up, bound, cnxcount>>

\* rtl_LapEventRequest
Request(i, evt) ==
    /\ lk[i].conn
    /\ evt = "STARTDTact" => lk[i].state = "STOPPED"
    /\ evt = "STOPDTact" => lk[i].state = "STARTED"
    /\ Left("req") /\ Spend("req")
    /\ Commit(i, EventRequest(lk[i], evt))
    /\ UNCHANGED <<up, bound>>

\* rtl_LapDisc
Disc(i) ==
    /\ lk[i].fd
    /\ Left("disc") /\ Spend("disc")
    /\ Commit(i, LapDisconnected(i, lk[i]))
    /\ UNCHANGED <<up, bound>>

\* What closing the listener's socket does to connections not yet accepted.
DropBacklog(c) ==
    IF tcp[c] = "backlog" THEN (IF cur = c THEN "shut" ELSE "free") ELSE tcp[c]

\* rtl_LapCloseBind with CLOSEBIND_ONLY, or CLOSEBIND_DISC_NICE which marks
\* the server links.
CloseBind(nice) ==
    /\ Left("bind") /\ Spend("bind")
    /\ bound' = FALSE
    /\ tcp' = [c \in Conn |-> DropBacklog(c)]
    /\ net' = [i \in Link |-> IF i \in Conn /\ tcp[i] = "backlog" THEN <<>> ELSE net[i]]
    /\ lk' = [i \in Link |-> IF nice /\ i # Cli /\ lk[i].fd
                             THEN [lk[i] EXCEPT !.tobedisc = TRUE] ELSE lk[i]]
    /\ UNCHANGED <<cur, up, cnxcount>>

\* rtl_LapCloseBind with CLOSEBIND_DISC_NOW: every server link is closed.
CloseBindNow ==
    /\ Left("bind") /\ Spend("bind")
    /\ bound' = FALSE
    /\ tcp' = [c \in Conn |-> IF tcp[c] = "open" THEN (IF cur = c THEN "shut" ELSE "free")
                              ELSE DropBacklog(c)]
    /\ net' = [i \in Link |-> IF i \in Conn THEN <<>> ELSE net[i]]
    /\ lk' = [i \in Link |-> IF i # Cli /\ lk[i].fd THEN LapDisconnected(i, lk[i]) ELSE lk[i]]
    /\ cnxcount' = cnxcount - Cardinality({c \in Conn : lk[c].fd})
    /\ UNCHANGED <<cur, up>>

\* rtl_LapOpenBind
OpenBind ==
    /\ ~bound
    /\ bound' = TRUE
    /\ UNCHANGED <<lk, net, tcp, cur, up, cnxcount, used>>

LinkStep(i) ==
    \/ Recv(i)
    \/ Send(i)
    \/ ReadEof(i)
    \/ ReadError(i)
    \/ \E re \in BOOLEAN : ClockSc(i, re)
    \/ PutOutQueue(i)
    \/ \E evt \in {"STARTDTact", "STOPDTact", "TESTFRact"} : Request(i, evt)
    \/ Disc(i)

ConnStep(c) ==
    \/ Dial(c)
    \/ Handshake(c)
    \/ Accept(c)
    \/ AcceptRefused(c)
    \/ PollMarked(c)
    \/ Cut(c)

Next ==
    \/ ConnectDone
    \/ ConnectRejected
    \/ \E nice \in BOOLEAN : CloseBind(nice)
    \/ CloseBindNow
    \/ OpenBind
    \/ \E c \in Conn : ConnStep(c)
    \/ \E i \in Link : LinkStep(i)

Spec == Init /\ [][Next]_vars

\* The poll loop serves every ready socket and calls the clock every second
\* (every third call reconnects), and the kernel completes handshakes.
\* Users, the network's failures and ReadError owe nothing.  The fairness
\* of the four poll and clock actions is weak fairness with its enabling
\* condition written out, which TLC evaluates much faster than ENABLED.
ClockDue(i) == lk[i].fd /\ LapDoClockSc(i, lk[i], i = Cli) # lk[i]

Fairness ==
    /\ \A i \in Link :
        /\ []<>(~(lk[i].conn /\ ~lk[i].tobedisc /\ net[i] # <<>>)) \/ []<><<Recv(i)>>_vars
        /\ \/ []<>(~(lk[i].conn /\ ~lk[i].tobedisc /\ WantsPollOut(lk[i])))
           \/ []<><<Send(i)>>_vars
        /\ []<>(~(AtEof(i) /\ ~lk[i].tobedisc)) \/ []<><<ReadEof(i)>>_vars
        /\ []<>(~ClockDue(i)) \/ []<><<ClockSc(i, i = Cli)>>_vars
    /\ \A c \in Conn : /\ WF_vars(Handshake(c))
                        /\ WF_vars(Accept(c) \/ AcceptRefused(c))
                        /\ WF_vars(PollMarked(c))
    /\ WF_vars(ConnectDone)

FairSpec == Spec /\ Fairness

-----------------------------------------------------------------------------
(* Invariants *)

\* Every variable has its type; frames are handed to the network in the
\* step that writes them.
TypeOK ==
    /\ lk \in [Link -> LinkType]
    /\ \A i \in Link : lk[i].tx = <<>>
    /\ net \in [Link -> Seq(Frame)]
    /\ tcp \in [Conn -> {"free", "syn", "backlog", "open", "shut"}]
    /\ cur \in Conn \cup {NoConn}
    /\ up \in [Conn -> BOOLEAN]
    /\ bound \in BOOLEAN
    /\ cnxcount \in Int
    /\ used \in [Budget -> Nat]

\* The send window (LapRunOutQueue, LapRunAckQueue): the ack queue holds
\* exactly the messages numbered va..vs-1, in order, and never more than K.
WindowOf(l) ==
    /\ Len(l.ackqueue) = Dist(l.va, l.vs)
    /\ Len(l.ackqueue) <= K
    /\ \A j \in 1..Len(l.ackqueue) : l.ackqueue[j].ns = Advance(l.va, j-1)

SendWindow == \A i \in Link : WindowOf(lk[i])

\* IncomingFrame: fewer than W received I frames are waiting for an
\* acknowledgement, and while one is, T2 runs.
AckDebtOf(l) ==
    /\ Dist(l.vapeer, l.vr) < W
    /\ l.vapeer # l.vr => l.iFrmRcvAt # Off

AckDebt == \A i \in Link : AckDebtOf(lk[i])

\* The ends of connection c are both there and can talk.
Joined(c) == cur = c /\ up[c] /\ tcp[c] = "open" /\ lk[Cli].conn

\* The messages of the I frames in s, in order.
Payload(s) ==
    LET upto[n \in 0..Len(s)] ==
            IF n = 0 THEN <<>>
            ELSE IF s[n].type = "I" THEN Append(upto[n-1], s[n].msg)
            ELSE upto[n-1]
    IN  upto[Len(s)]

\* Between two xlap ends neither OKNR nor OKNS ever refuses a frame.
NoSeqError == \A i \in Link : ~lk[i].nberr

\* What one end delivered, followed by what is on the way, is what the other
\* end sent: in order, nothing lost, nothing twice.
InOrderDelivery ==
    \A c \in Conn : Joined(c) =>
        /\ lk[c].sent = lk[Cli].rcvd \o Payload(net[Cli])
        /\ lk[Cli].sent = lk[c].rcvd \o Payload(net[c])

Seen  == UNION {lk[i].seen : i \in Link}

\* A message leaves the ack queue as acknowledged (EVT_FRAME_ACKED) only
\* after the user at the other end was given it (EVT_FRAMEI).
AckedWasSeen == \A i \in Link : lk[i].acked \subseteq Seen

\* Every message a user put is in exactly one place: still queued, sent and
\* waiting for its acknowledgement, acknowledged, reported lost or purged.
Places(m) ==
    {<<i, "out">>  : i \in {k \in Link : m \in Elems(lk[k].outqueue)}} \cup
    {<<i, "ack">>  : i \in {k \in Link : m \in AckMsgs(lk[k].ackqueue)}} \cup
    {<<i, "acked">> : i \in {k \in Link : m \in lk[k].acked}} \cup
    {<<i, "lost">> : i \in {k \in Link : m \in lk[k].acklost}} \cup
    {<<i, "purged">> : i \in {k \in Link : m \in lk[k].purged}}

Accounted == \A m \in 1..used["put"] : Cardinality(Places(m)) = 1

\* Whatever is unacknowledged will be: its I frame is on the way, or the
\* other end runs T2 for it, or the acknowledgement is on the way.
AckComing ==
    \A c \in Conn : Joined(c) =>
        \A i \in {c, Cli} : lk[i].ackqueue # <<>> =>
            \/ \E j \in 1..Len(net[Peer(i)]) : net[Peer(i)][j].type = "I"
            \/ lk[Peer(i)].iFrmRcvAt # Off
            \/ \E j \in 1..Len(net[i]) :
                   net[i][j].type \in {"S", "I"} /\ net[i][j].nr = lk[i].vs

\* When nothing is on the way and no end waits for the other, both agree
\* whether data transfer is started.
Settled(l) == l.state \in {"STOPPED", "STARTED"}
StartAgreement ==
    \A c \in Conn :
        (Joined(c) /\ net[c] = <<>> /\ net[Cli] = <<>> /\ Settled(lk[c]) /\ Settled(lk[Cli]))
        => lk[c].state = lk[Cli].state

\* EventMasterSlave: an end that waits for acknowledgements before it
\* confirms STOPDTact confirms only once it has them all.
StopConfirmed ==
    [][\A i \in Link :
        (lk[i].state = "PENDING_UNCONFD" /\ lk'[i].state = "STOPPED")
            => lk'[i].ackqueue = <<>>]_vars

\* OKNR decides by a distance what its variant under #else finds by walking
\* from va to vs.
OKNRIsWalk ==
    \A i \in Link : \A nr \in SeqNo :
        OKNR(lk[i].va, lk[i].vs, nr) <=> OKNRLoop(lk[i].va, lk[i].vs, nr)

\* The listener counts its server links and stays within its limit.
CnxCount ==
    /\ cnxcount = Cardinality({c \in Conn : lk[c].fd})
    /\ maxConn # 0 => cnxcount <= maxConn

-----------------------------------------------------------------------------
(* Liveness *)

\* A message is due while it waits for its acknowledgement, or for a place in the
\* window of a link that transfers data.
Due(m) ==
    \E i \in Link : \/ m \in AckMsgs(lk[i].ackqueue)
                    \/ m \in Elems(lk[i].outqueue) /\ lk[i].state = "STARTED"

\* A message accepted by rtl_LapPutOutQueue is not due for ever: it is sent and
\* acknowledged, or its loss ends the connection (T1).  A link that is stopped, or
\* not connected, is excepted.  There LapRunOutQueue returns early, LapTimerAckQueue
\* looks at the ack queue only and the tests of T3 keep the connection: a message
\* in the out queue stays until the link is started again or reset.
MessageSettles == \A m \in Msg : Due(m) ~> ~Due(m)

\* T3 and T1: a link notices that the other end no longer answers.
DeadPeerNoticed ==
    \A c \in Conn : (lk[c].conn /\ ~up[c]) ~> ~lk[c].conn

\* CLOSEBIND_DISC_NICE: a marked server link is closed in the end, unless
\* its connection dies silently.  It is closed by its next poll event, so
\* the T3 tests of both ends matter.
NiceCloseEnds == \A c \in Conn : lk[c].tobedisc ~> (~lk[c].tobedisc \/ ~up[c])
=============================================================================
