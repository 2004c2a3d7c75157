---------------------------- MODULE XlapDelivery ----------------------------
(***************************************************************************)
(* The links of XlapLink as their users see them.                          *)
(***************************************************************************)
EXTENDS XlapLink

\* The messages of an ack queue.
Names(q) == [j \in 1..Len(q) |-> q[j].msg]

\* What link i took and has not settled: sent but unacknowledged, then queued.
Holds(i) == Names(lk[i].ackqueue) \o lk[i].outqueue

Promise == INSTANCE Delivery WITH
    held    <- [i \in Link |-> Holds(i)],
    given   <- [i \in Link |-> lk[i].seen],
    acked   <- UNION {lk[i].acked : i \in Link},
    lost    <- UNION {lk[i].acklost : i \in Link},
    dropped <- UNION {lk[i].purged : i \in Link}

\* The links keep what Delivery promises, over the loss of a connection and
\* a reconnection of the client: nothing is given twice, out of order, or
\* after it was dropped, and nothing is acknowledged that was not given
\* (SendFirst, LapRunAckQueue, LapDisconnected, LapReset).
KeepsPromise == Promise!Spec
=============================================================================
