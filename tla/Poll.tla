-------------------------------- MODULE Poll --------------------------------
(***************************************************************************)
(* The poll table of lib/poll.c: slots filled by rtl_pollAdd, emptied by   *)
(* rtl_pollRmv, and scanned by rtl_poll and rtl_pollRaw after poll(2).     *)
(* The event callbacks change the table while it is being scanned.         *)
(*                                                                         *)
(* Which events a slot asks for (rtl_pollSetEvt, the request callbacks) is *)
(* left out: POLLERR and POLLHUP come whether asked for or not, so any     *)
(* slot in use may be reported.                                            *)
(***************************************************************************)
EXTENDS Integers, Sequences, FiniteSets

CONSTANTS
    Fd,         \* file descriptors
    SzPoll,     \* SZPOLL: the table grows by this many slots
    MaxAdd      \* bound: registrations

ASSUME PollAssumption == SzPoll \in Nat \ {0} /\ MaxAdd \in Nat /\ -1 \notin Fd

VARIABLES
    table,      \* tbPoll and handPoll: the slots, Len(table) is szTbPoll
    nbPoll,
    at,         \* where rtl_poll is: "idle", in its loop, or in a callback
    pos,        \* the slot the loop of rtl_pollScan looks at
    called,     \* the registration whose fctevent runs, 0 for none
    regs        \* registrations made so far

vars == <<table, nbPoll, at, pos, called, regs>>

Free == -1
\* revents: no bit set, one that rtl_pollScan looks for, or only others.
Revents == {"none", "evt", "hup"}

Slot == [fd : Fd \cup {Free}, revents : Revents, fctevent : BOOLEAN, reg : 0..MaxAdd]

NewSlot == [fd |-> Free, revents |-> "none", fctevent |-> FALSE, reg |-> 0]

Used    == {i \in 1..Len(table) : table[i].fd # Free}

\* rtl_pollFind: the first slot of a descriptor, 0 if there is none.
Find(tb, fd) ==
    LET hits == {i \in 1..Len(tb) : tb[i].fd = fd}
    IN  IF hits = {} THEN 0 ELSE CHOOSE i \in hits : \A j \in hits : i <= j

\* Application code runs: between two calls of rtl_poll or in a callback.
UserRuns == at \in {"idle", "callback"}

Init ==
    /\ table = <<>>
    /\ nbPoll = 0
    /\ at = "idle" /\ pos = 0 /\ called = 0
    /\ regs = 0

-----------------------------------------------------------------------------

\* Fault: revents of the slot's last use is kept.
Fill_KeepRevents(tb, i, fd) ==
    [tb EXCEPT ![i].fd = fd, ![i].fctevent = TRUE, ![i].reg = regs + 1]

Fill(tb, i, fd) ==
    [tb EXCEPT ![i] = [fd |-> fd, revents |-> "none", fctevent |-> TRUE, reg |-> regs + 1]]

\* The table grows when it is full.
Grown == IF nbPoll = Len(table) THEN table \o [i \in 1..SzPoll |-> NewSlot] ELSE table

\* rtl_pollAdd of a descriptor that is not in the table.
Add(fd) ==
    /\ UserRuns
    /\ regs < MaxAdd
    /\ Find(table, fd) = 0
    /\ LET i == Find(Grown, Free)
       IN  IF i = 0
           THEN table' = Grown /\ UNCHANGED <<nbPoll, regs>>
           ELSE /\ table' = Fill(Grown, i, fd)
                /\ nbPoll' = nbPoll + 1
                /\ regs' = regs + 1
    /\ UNCHANGED <<at, pos, called>>

\* Fault: a caller whose descriptor is already -1 is not turned away.
Removable_Any(fd) == TRUE

Removable(fd) == fd # Free

\* rtl_pollRmv; revents is left as it is.
Rmv(fd) ==
    /\ UserRuns
    /\ Removable(fd)
    /\ LET i == Find(table, fd)
       IN  /\ i # 0
           /\ table' = [table EXCEPT ![i].fd = Free, ![i].fctevent = FALSE]
    /\ nbPoll' = nbPoll - 1
    /\ UNCHANGED <<at, pos, called, regs>>

\* rtl_pollChg: another event callback, or none.
Chg(fd, fct) ==
    /\ UserRuns
    /\ LET i == Find(table, fd)
       IN  /\ i # 0
           /\ table' = [table EXCEPT ![i].fctevent = fct]
    /\ UNCHANGED <<nbPoll, at, pos, called, regs>>

-----------------------------------------------------------------------------
(* rtl_poll and rtl_pollRaw *)

\* poll(2) reports some slots (external); a free slot is never reported.
PollReturns ==
    /\ at = "idle"
    /\ nbPoll >= 0
    /\ \E rep \in [1..Len(table) -> Revents] :
          /\ \A i \in 1..Len(table) : table[i].fd = Free => rep[i] = "none"
          /\ table' = [i \in 1..Len(table) |-> [table[i] EXCEPT !.revents = rep[i]]]
          /\ IF \E i \in 1..Len(table) : rep[i] # "none"
             THEN at' = "scan" /\ pos' = 1
             ELSE UNCHANGED <<at, pos>>
    /\ UNCHANGED <<nbPoll, called, regs>>

\* The loop of rtl_pollScan goes on; the table may have grown meanwhile.
Scanning == pos <= Len(table)

\* The callback of a slot that was reported is called.
ScanCall ==
    /\ at = "scan" /\ Scanning
    /\ table[pos].revents = "evt" /\ table[pos].fd # Free /\ table[pos].fctevent
    /\ at' = "callback"
    /\ called' = table[pos].reg
    /\ UNCHANGED <<table, nbPoll, pos, regs>>

\* A slot without event callback is emptied, and nbPoll is not told; a
\* reported slot that a callback has emptied is passed over.
ScanPass ==
    /\ at = "scan" /\ Scanning
    /\ ~(table[pos].revents = "evt" /\ table[pos].fd # Free /\ table[pos].fctevent)
    /\ table' = [table EXCEPT ![pos] =
          IF table[pos].fd # Free /\ ~table[pos].fctevent
          THEN [@ EXCEPT !.fd = Free, !.revents = "none"]
          ELSE IF table[pos].revents = "evt"
          THEN [@ EXCEPT !.revents = "none"]
          ELSE @]
    /\ pos' = pos + 1
    /\ UNCHANGED <<nbPoll, at, called, regs>>

\* The callback returns; whatever is in the slot now has no event left.
CallbackReturns ==
    /\ at = "callback"
    /\ table' = [table EXCEPT ![pos].revents = "none"]
    /\ at' = "scan" /\ pos' = pos + 1
    /\ called' = 0
    /\ UNCHANGED <<nbPoll, regs>>

ScanEnds ==
    /\ at = "scan" /\ ~Scanning
    /\ at' = "idle" /\ pos' = 0
    /\ UNCHANGED <<table, nbPoll, called, regs>>

Next ==
    \/ \E fd \in Fd : Add(fd)
    \/ \E fd \in Fd \cup {Free} : Rmv(fd)
    \/ \E fd \in Fd, fct \in BOOLEAN : Chg(fd, fct)
    \/ PollReturns
    \/ ScanCall
    \/ ScanPass
    \/ CallbackReturns
    \/ ScanEnds

Spec == Init /\ [][Next]_vars

-----------------------------------------------------------------------------
(* Properties *)

\* Every variable has its type.
TypeOK ==
    /\ table \in Seq(Slot)
    /\ nbPoll \in Nat
    /\ at \in {"idle", "scan", "callback"}
    /\ pos \in 0..(Len(table) + 1)
    /\ called \in 0..MaxAdd
    /\ regs \in 0..MaxAdd

\* nbPoll never falls below the slots in use nor exceeds the table: so
\* rtl_pollAdd, which grows the table only when nbPoll = szTbPoll, always
\* finds a free slot.
RoomKept ==
    /\ Cardinality(Used) <= nbPoll
    /\ nbPoll <= Len(table)

\* The slots whose callback rtl_pollScan still has to call in this round.
Pending ==
    {i \in Used : table[i].revents = "evt" /\
                  IF at = "scan" THEN pos <= i ELSE at = "callback" /\ pos < i}

Loop == INSTANCE EventLoop WITH
            Reg <- 1..MaxAdd, NoReg <- 0,
            live <- {table[i].reg : i \in Used},
            due <- {table[i].reg : i \in Pending},
            called <- called

\* rtl_pollScan implements a round of the event loop: although callbacks
\* add, remove and reuse slots under it, every reported registration is
\* served once unless removed, and none is given an event of another.
ServesRounds == Loop!Spec
=============================================================================
