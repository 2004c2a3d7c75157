-------------------------------- MODULE Elap --------------------------------
(***************************************************************************)
(* The elap links of lib/elap.c.  The protocol is that of xlap.c, handler  *)
(* by handler, and so each action here is the action of XlapLink it is     *)
(* named after together with what elap.c keeps beside it:                  *)
(*                                                                         *)
(*   - a link is not asked what it waits for: every handler that makes     *)
(*     work for the writer sets the epoll mask of the link itself;         *)
(*   - links with unacknowledged messages are on a list of the context;    *)
(*   - other threads put messages in an external queue, addressed to a     *)
(*     descriptor and the serial number it had, and the thread that owns   *)
(*     the links dispatches them.                                          *)
(*                                                                         *)
(* LapTimerAckQueue returns at once for every link: it goes on only for a  *)
(* link that is both a client and a server, and none is.                   *)
(***************************************************************************)
EXTENDS XlapLink

ASSUME ElapAssumption == ~AckTimer

VARIABLES
    ep,             \* ep[i]: what elap.c keeps beside link i, see Beside
    PHandSerial,    \* PHandSerial[p]: last serial number given in process p
    nexus,          \* nexus[p]: what rtl_eLapNexus may have told other threads of p
    extqueue,       \* extqueue[p]: ct_extqueue of process p, oldest first
    dest            \* dest[m]: the socket m was addressed to, 0 if to none

evars == <<ep, PHandSerial, nexus, extqueue, dest>>
allvars == <<vars, evars>>

Process == {"cli", "srv"}

\* pollout: the epoll mask of the socket has POLLOUT; inwaitack: the link is
\* on ct_waitacklist; serial: lk_serial, 0 without a socket; sock: which
\* socket of its process the link has, counted from 1 (not in the source).
Beside == [pollout : BOOLEAN, inwaitack : BOOLEAN, serial : Nat, sock : Nat]

\* A t_xlap_nexus: a descriptor, named by the link that has or had it, and a
\* serial number.  Messages in the external queue carry the same.
Nexus == [lk : Link, serial : Nat, sock : Nat]

\* Fault: lk_serial is reset to what lk_fd is reset to.
LapResetLink_Serial == [pollout |-> FALSE, inwaitack |-> FALSE, serial |-> -1, sock |-> 0]

\* LapResetLink
LapResetLink == [pollout |-> FALSE, inwaitack |-> FALSE, serial |-> 0, sock |-> 0]

\* Fault: the link stays on the list of links that wait.
LapDisconnectedClosed_KeepList ==
    ep' = [i \in Link |-> IF lk[i].fd /\ ~lk'[i].fd
                          THEN [LapResetLink EXCEPT !.inwaitack = ep[i].inwaitack]
                          ELSE ep[i]]

\* LapDisconnected, for every link that this step closes.
LapDisconnectedClosed ==
    ep' = [i \in Link |-> IF lk[i].fd /\ ~lk'[i].fd THEN LapResetLink ELSE ep[i]]

\* rtl_epollAdd of a socket of link i, whose process is p.
EpollAdd(p, i, mask) ==
    LET sock == Cardinality(nexus[p]) + 1
    IN  /\ PHandSerial' = [PHandSerial EXCEPT ![p] = @ + 1]
        /\ ep' = [ep EXCEPT ![i] = [pollout |-> mask, inwaitack |-> FALSE,
                                    serial |-> PHandSerial[p] + 1, sock |-> sock]]
        /\ nexus' = [nexus EXCEPT ![p] = @ \cup
                        {[lk |-> i, serial |-> PHandSerial[p] + 1, sock |-> sock]}]

AddWaitAckList(e, l) == [e EXCEPT !.inwaitack = @ \/ l.ackqueue # <<>>]
DelWaitAckList(e, l) == [e EXCEPT !.inwaitack = @ /\ l.ackqueue # <<>>]

EInit ==
    /\ Init
    /\ ep = [i \in Link |-> LapResetLink]
    /\ PHandSerial = [p \in Process |-> 0]
    /\ nexus = [p \in Process |-> {}]
    /\ extqueue = [p \in Process |-> <<>>]
    /\ dest = [m \in Msg |-> 0]

-----------------------------------------------------------------------------
(* Connections *)

\* rtl_eLapConnect: the mask is POLLOUT until the connect is done.
EDial(c) ==
    /\ Dial(c)
    /\ EpollAdd("cli", Cli, TRUE)
    /\ UNCHANGED <<extqueue, dest>>

\* CB_LapEvent, client not yet connected: from here on POLLIN.
EConnectDone ==
    /\ ConnectDone
    /\ ep' = [ep EXCEPT ![Cli].pollout = FALSE]
    /\ UNCHANGED <<PHandSerial, nexus, extqueue, dest>>

EConnectRejected ==
    /\ ConnectRejected
    /\ LapDisconnectedClosed
    /\ UNCHANGED <<PHandSerial, nexus, extqueue, dest>>

\* CB_LapEvent of the listener: a refused connection is never registered.
EAccept(c) ==
    /\ IF BelowLimit
       THEN Accept(c) /\ EpollAdd("srv", c, FALSE)
       ELSE AcceptRefused(c) /\ UNCHANGED <<ep, PHandSerial, nexus>>
    /\ UNCHANGED <<extqueue, dest>>

\* The kernel and the network (external).
ENetwork(c) == (Handshake(c) \/ Cut(c)) /\ UNCHANGED evars

\* rtl_eLapDisc
EDisc(i) ==
    /\ Disc(i)
    /\ LapDisconnectedClosed
    /\ UNCHANGED <<PHandSerial, nexus, extqueue, dest>>

\* rtl_eLapCloseBind in its three modes
ECloseBind ==
    /\ CloseBindNow \/ \E nice \in BOOLEAN : CloseBind(nice)
    /\ LapDisconnectedClosed
    /\ UNCHANGED <<PHandSerial, nexus, extqueue, dest>>

\* rtl_eLapOpenBind: rtl_eLapBind adds the listener's socket to the table.
EOpenBind ==
    /\ OpenBind
    /\ PHandSerial' = [PHandSerial EXCEPT !["srv"] = @ + 1]
    /\ UNCHANGED <<ep, nexus, extqueue, dest>>

-----------------------------------------------------------------------------
(* Events of a connected link *)

\* IncomingFrame, U frames
ERecvU(i) ==
    /\ Recv(i)
    /\ Head(net[i]).type \in UType
    /\ UNCHANGED evars

\* Fault: the acknowledgement does not wake the writer.
Acknowledged_NoRearm(e, l) == DelWaitAckList(e, l)

\* Fault: POLLOUT is asked for whatever there is to write.
Acknowledged_Always(e, l) == [DelWaitAckList(e, l) EXCEPT !.pollout = TRUE]

\* What the acceptance of nr does for the link, now l: off the list if
\* nothing waits any more, and POLLOUT if there is something to write.
Acknowledged(e, l) == [DelWaitAckList(e, l) EXCEPT !.pollout = @ \/ l.outqueue # <<>>]

\* IncomingFrame, S and I frames
ERecvSI(i) ==
    /\ Recv(i)
    /\ LET f == Head(net[i])
       IN  /\ f.type \in {"S", "I"}
           /\ ep' = IF OKNR(lk[i].va, lk[i].vs, f.nr)
                    THEN [ep EXCEPT ![i] = Acknowledged(@, lk'[i])]
                    ELSE ep
    /\ UNCHANGED <<PHandSerial, nexus, extqueue, dest>>

\* The window of a link is full: vs is (va + k) % n.
Full(l) == l.ackqueue # <<>> /\ l.vs = Advance(l.va, K)

\* Fault: the state of the link is not looked at.
RunOutQueue_AnyState(l, fail) ==
    LET r    == IF l.ackqueue = <<>> THEN [l EXCEPT !.vs = l.va] ELSE l
        room == IF Full(r) THEN 0 ELSE SendRoom(r)
    IN  SendFirst(r, IF fail < room THEN fail ELSE room)

\* LapRunOutQueue; fail is the number of writes that succeed.
RunOutQueue(l, fail) ==
    IF l.state # "STARTED" THEN l
    ELSE LET r    == IF l.ackqueue = <<>> THEN [l EXCEPT !.vs = l.va] ELSE l
             room == IF Full(r) THEN 0 ELSE SendRoom(r)
         IN  SendFirst(r, IF fail < room THEN fail ELSE room)

\* The mask that LapRunOutQueue sets, l being the link before and r after.
\* A link that is not started keeps its mask.
WriteMask(e, l, r) ==
    IF l.state # "STARTED" THEN e
    ELSE IF Full(l) THEN [e EXCEPT !.pollout = FALSE]
    ELSE [AddWaitAckList(e, r) EXCEPT !.pollout = r.outqueue # <<>>]

\* CB_LapEvent with POLLOUT.
ESend(i) ==
    /\ lk[i].conn /\ ~lk[i].tobedisc
    /\ ep[i].pollout
    /\ \E fail \in IF PeerThere(i) /\ up[ConnOf(i)] THEN {K} ELSE 0..K :
          Commit(i, RunOutQueue(lk[i], fail))
    /\ ep' = [ep EXCEPT ![i] = WriteMask(@, lk[i], lk'[i])]
    /\ UNCHANGED <<up, bound, used, PHandSerial, nexus, extqueue, dest>>

\* ReadSocket, end of the stream or failure; CB_LapEvent with POLLERR.
EReadEnd(i) ==
    /\ ReadEof(i) \/ ReadError(i)
    /\ LapDisconnectedClosed
    /\ UNCHANGED <<PHandSerial, nexus, extqueue, dest>>

\* A marked server link is closed.
MarkedClosed(c) ==
    /\ lk[c].tobedisc
    /\ Commit(c, LapDisconnected(c, lk[c]))
    /\ UNCHANGED <<up, bound, used>>

\* CB_LapEvent of a marked server link, whatever the event is.
EPollMarked(c) ==
    /\ net[c] # <<>> \/ AtEof(c) \/ ep[c].pollout
    /\ MarkedClosed(c)
    /\ LapDisconnectedClosed
    /\ UNCHANGED <<PHandSerial, nexus, extqueue, dest>>

\* One second goes by for a link.
Second(l) ==
    [l EXCEPT !.progAt    = Older(@, CnxDelay),
              !.uFrmSndAt = Older(@, T1),
              !.iFrmRcvAt = Older(@, T2),
              !.xFrmRcvAt = Older(@, T3)]

\* rtl_eLapDoClockScPeriod for one link, re on the calls that reconnect.
\* LapTimerAckQueue does nothing.
eLapDoClockSc(i, l, re) ==
    LapTimerT1T2T3(i, IF re THEN LapReConnect(i, Second(l)) ELSE Second(l))

EClockSc(i, re) ==
    /\ lk[i].fd
    /\ re => i = Cli
    /\ Commit(i, eLapDoClockSc(i, lk[i], re))
    /\ UNCHANGED <<up, bound, used>>
    /\ LapDisconnectedClosed
    /\ UNCHANGED <<PHandSerial, nexus, extqueue, dest>>

-----------------------------------------------------------------------------
(* The user, and the other threads *)

\* rtl_eLapEventRequest
ERequest(i, evt) == Request(i, evt) /\ UNCHANGED evars

\* How many messages may still be put, those in external queues included.
Room == used["put"] + Len(extqueue["cli"]) + Len(extqueue["srv"]) < MaxPut

\* rtl_eLapPutOutQueue, and rtl_eLapPutOutQueueNexus in the owner thread,
\* which does not look at the serial number.
EPutOutQueue(i) ==
    /\ Room
    /\ PutOutQueue(i)
    /\ ep' = [ep EXCEPT ![i].pollout = TRUE]
    /\ UNCHANGED <<PHandSerial, nexus, extqueue, dest>>

\* rtl_eLapPutOutQueueNexus in another thread: rtl_eLapPutOutQueueExt.
PutOutQueueExt(p) ==
    /\ Room
    /\ \E x \in nexus[p] : extqueue' = [extqueue EXCEPT ![p] = Append(@, x)]
    /\ UNCHANGED <<vars, ep, PHandSerial, nexus, dest>>

\* Fault: any link with that descriptor will do.
Reaches_AnySerial(x) == lk[x.lk].fd

\* The address x is that of a socket that still is the same.
Reaches(x) == lk[x.lk].fd /\ ep[x.lk].serial = x.serial

\* rtl_eLapDispatchQueueExt, one message of its loop: to the out queue of
\* the link if it is started, else dropped.
DispatchQueueExt(p) ==
    /\ extqueue[p] # <<>>
    /\ extqueue' = [extqueue EXCEPT ![p] = Tail(@)]
    /\ LET x == Head(extqueue[p])
       IN  IF Reaches(x) /\ lk[x.lk].state = "STARTED"
           THEN /\ PutOutQueue(x.lk)
                /\ ep' = [ep EXCEPT ![x.lk].pollout = TRUE]
                /\ dest' = [dest EXCEPT ![used["put"] + 1] = x.sock]
           ELSE UNCHANGED <<vars, ep, dest>>
    /\ UNCHANGED <<PHandSerial, nexus>>

ELinkStep(i) ==
    \/ ERecvU(i)
    \/ ERecvSI(i)
    \/ ESend(i)
    \/ EReadEnd(i)
    \/ \E re \in BOOLEAN : EClockSc(i, re)
    \/ EPutOutQueue(i)
    \/ \E evt \in {"STARTDTact", "STOPDTact", "TESTFRact"} : ERequest(i, evt)
    \/ EDisc(i)

EConnStep(c) ==
    \/ EDial(c)
    \/ ENetwork(c)
    \/ EAccept(c)
    \/ EPollMarked(c)

ENext ==
    \/ EConnectDone
    \/ EConnectRejected
    \/ ECloseBind
    \/ EOpenBind
    \/ \E c \in Conn : EConnStep(c)
    \/ \E i \in Link : ELinkStep(i)
    \/ \E p \in Process : PutOutQueueExt(p) \/ DispatchQueueExt(p)

ESpec == EInit /\ [][ENext]_allvars

-----------------------------------------------------------------------------
(* Properties *)

\* The variables that elap.c adds have their types.
ETypeOK ==
    /\ TypeOK
    /\ ep \in [Link -> Beside]
    /\ PHandSerial \in [Process -> Nat]
    /\ nexus \in [Process -> SUBSET Nexus]
    /\ extqueue \in [Process -> Seq(Nexus)]
    /\ dest \in [Msg -> Nat]

\* Elap implements xlap without T1 of I frames: the masks, LapRunOutQueue,
\* the external queue and what is kept beside the links change nothing of
\* the protocol, but that a marked link may also be closed by an event that
\* found nothing to write.
XlapSpec == Init /\ [][Next \/ \E c \in Conn : MarkedClosed(c)]_vars

\* No message is forgotten in an out queue (rtl_epollSetEvt2 in
\* PollLapPutOutQueue, LapRunOutQueue and IncomingFrame): a connected link
\* with something to write waits for POLLOUT, or for the acknowledgement
\* that opens its window.  The exception is what LK_LNK_NOFULLRESET kept
\* from the last connection: no handler asks for POLLOUT on its behalf, and
\* it stays until this connection carries data for another reason.
Forgotten(i) == i = Cli /\ KeepOutq /\ lk[i].sent = <<>> /\ lk[i].rcvd = <<>>

WriteArmed ==
    \A i \in Link :
        (lk[i].conn /\ lk[i].outqueue # <<>> /\ ~ep[i].pollout)
            => Full(lk[i]) \/ Forgotten(i)

\* The loop is not woken for a connected link with an empty out queue (a socket
\* is nearly always ready for writing: that would be a busy loop).  A link that is
\* stopped with messages in its out queue does wait for POLLOUT, LapRunOutQueue
\* returns before it looks at the mask, and epoll_wait returns at once until the
\* link is started again: that busy loop the property does not exclude.
NoIdleWrite ==
    \A i \in Link : (lk[i].conn /\ ep[i].pollout) => lk[i].outqueue # <<>>

\* ct_waitacklist holds the links with unacknowledged messages, and none
\* that is freed.
WaitAckExact == \A i \in Link : ep[i].inwaitack <=> lk[i].ackqueue # <<>>

\* Serial numbers (rtl_epollSerial) tell the sockets that one descriptor
\* names apart: a message that another thread addressed to one connection is
\* never queued for, or sent on, a later one, however long it stayed in the
\* external queue.  LK_LNK_NOFULLRESET, which keeps the out queue, excepted.
Addressed ==
    \A i \in Link : (i = Cli => ~KeepOutq) =>
        \A m \in Elems(lk[i].outqueue) \cup AckMsgs(lk[i].ackqueue) :
            dest[m] \in {0, ep[i].sock}
=============================================================================
