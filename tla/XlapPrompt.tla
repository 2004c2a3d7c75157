----------------------------- MODULE XlapPrompt -----------------------------
(***************************************************************************)
(* Two xlap ends in time: both poll loops serve their sockets promptly and *)
(* rtl_LapDoClockSc is called once a second on each side.  A second of one *)
(* end may begin before or after that of the other, and whatever a clock   *)
(* call writes is read before the next one.                                *)
(***************************************************************************)
EXTENDS XlapLink

\* T1 leaves time for T2 of the other end, one second of clock skew and one
\* second of rounding.
ASSUME TimeoutsFit == T1 > T2 + 2

\* A server waits to be started: two STARTDTact that cross are both ignored,
\* and T1 cuts the connection.
ASSUME ServerWaits == "srv" \in Slave \/ "srv" \notin AutoStart

VARIABLE ticked     \* the links whose clock was called in this second

pvars == <<vars, ticked>>

\* Neither poll loop has anything to do.
Idle ==
    /\ \A i \in Link : net[i] = <<>>
    /\ \A i \in Link : ~WantsPollOut(lk[i])
    /\ \A c \in Conn : tcp[c] \notin {"syn", "backlog"}
    /\ lk[Cli].fd => lk[Cli].conn

Live == {i \in Link : lk[i].conn}

\* The clock of link i; a new second begins when all had theirs.
Second(i) ==
    /\ Idle
    /\ i \in Live \ ticked
    /\ ClockSc(i, FALSE)
    /\ ticked' = IF Live \subseteq ticked \cup {i} THEN {} ELSE ticked \cup {i}

\* Everything else happens between two clock calls.  Requests are those of
\* the controlling station: with requests of both ends, two STOPDTact that
\* cross are both ignored, and T1 cuts the connection.
Prompt ==
    /\ \/ ConnectDone
       \/ \E c \in Conn : Dial(c) \/ Handshake(c) \/ Accept(c)
       \/ \E i \in Link : Recv(i) \/ Send(i) \/ PutOutQueue(i)
       \/ \E evt \in {"STARTDTact", "STOPDTact", "TESTFRact"} : Request(Cli, evt)
    /\ ticked' = ticked

PromptNext == Prompt \/ \E i \in Link : Second(i)

PromptSpec == Init /\ ticked = {} /\ [][PromptNext]_pvars

\* As long as both ends are served in time no timer of either end ever cuts
\* the connection: T1 is long enough for the T2 of the other end.
HealthyLink == [][\A c \in Conn : Joined(c) => Joined(c)']_pvars
=============================================================================
