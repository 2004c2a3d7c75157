------------------------------- MODULE Epoll -------------------------------
(***************************************************************************)
(* The epoll table of lib/epoll.c: one allocated handle per descriptor,    *)
(* whose address is what epoll_wait(2) gives back.  rtl_epollScan goes     *)
(* through the events of one epoll_wait; the event callbacks add and       *)
(* remove descriptors, and so allocate and free handles, under it.         *)
(*                                                                         *)
(* Which events a descriptor asks for (rtl_epollSetEvt, the request        *)
(* callbacks) is left out: EPOLLERR and EPOLLHUP come anyway, so any       *)
(* registered descriptor may be reported.                                  *)
(***************************************************************************)
EXTENDS Integers, Sequences, FiniteSets, SequencesExt

CONSTANTS
    Fd,         \* file descriptors, small numbers
    Addr,       \* addresses calloc can return for a handle
    NoAddr,     \* NULL
    SzPoll,     \* SZPOLL: the table grows by this many entries
    MaxEvents,  \* MAX_EVENTS_WAIT
    MaxAdd      \* bound: registrations

\* rtl_epollAdd grows the table once, by SzPoll: a descriptor further away
\* would be written outside of it.
ASSUME EpollAssumption ==
    /\ SzPoll \in Nat \ {0} /\ MaxEvents \in Nat \ {0} /\ MaxAdd \in Nat
    /\ Fd \subseteq 0..(2 * SzPoll - 1)
    /\ NoAddr \notin Addr

VARIABLES
    hdTb,       \* ep_hdTb: descriptor -> address of its handle
    szTb,       \* ep_szTb
    nbFd,       \* ep_nbFd
    hand,       \* the memory of the handles
    events,     \* what epoll_wait returned and is not scanned yet
    called,     \* the registration whose hd_fctevent runs, 0 for none
    regs        \* registrations made so far

vars == <<hdTb, szTb, nbFd, hand, events, called, regs>>

\* hd_magic is RTL_EPHD_MAGIC from rtl_epollAdd to rtl_epollRmv; reg names
\* the registration that the callback and references of the handle serve.
Hand == [magic : BOOLEAN, fd : Fd \cup {-1}, reg : 0..MaxAdd]
Event == [ptr : Addr, reg : 0..MaxAdd]

Init ==
    /\ hdTb = [fd \in Fd |-> NoAddr]
    /\ szTb = SzPoll
    /\ nbFd = 0
    /\ hand = [a \in Addr |-> [magic |-> FALSE, fd |-> -1, reg |-> 0]]
    /\ events = <<>>
    /\ called = 0
    /\ regs = 0

\* Application code runs: between two calls of rtl_epoll or in a callback.
UserRuns == called # 0 \/ events = <<>>

\* Addresses calloc may return: that of a handle freed a moment ago is one of
\* them, and events may still point to it.
CallocFrom == {a \in Addr : ~hand[a].magic}

\* The table knows fd, as every function but rtl_epollAdd tests first.
Known(fd) == fd < szTb /\ hdTb[fd] # NoAddr /\ hand[hdTb[fd]].fd = fd

-----------------------------------------------------------------------------

\* rtl_epollAdd; a descriptor that is there already is refused.
Add(fd, a) ==
    /\ UserRuns
    /\ regs < MaxAdd
    /\ szTb' = IF fd >= szTb THEN szTb + SzPoll ELSE szTb
    /\ hdTb[fd] = NoAddr
    /\ a \in CallocFrom
    /\ hand' = [hand EXCEPT ![a] = [magic |-> TRUE, fd |-> fd, reg |-> regs + 1]]
    /\ hdTb' = [hdTb EXCEPT ![fd] = a]
    /\ nbFd' = nbFd + 1
    /\ regs' = regs + 1
    /\ UNCHANGED <<events, called>>

\* Fault: the table keeps the freed handle.
Forget_Keep(fd) == hdTb

Forget(fd) == [hdTb EXCEPT ![fd] = NoAddr]

\* rtl_epollRmv: the descriptor leaves the kernel's set, its handle is freed.
Rmv(fd) ==
    /\ UserRuns
    /\ Known(fd)
    /\ hand' = [hand EXCEPT ![hdTb[fd]].magic = FALSE]
    /\ hdTb' = Forget(fd)
    /\ nbFd' = nbFd - 1
    /\ UNCHANGED <<szTb, events, called, regs>>

\* epoll_wait (external) reports up to MAX_EVENTS_WAIT registered
\* descriptors, in any order, or none when it times out.
EpollWait ==
    /\ events = <<>> /\ called = 0
    /\ nbFd >= 0
    /\ \E ready \in SUBSET {a \in Addr : \E fd \in Fd : hdTb[fd] = a} :
          /\ Cardinality(ready) <= MaxEvents
          /\ events' \in {[i \in 1..Len(s) |-> [ptr |-> s[i], reg |-> hand[s[i]].reg]] :
                             s \in SetToSeqs(ready)}
    /\ UNCHANGED <<hdTb, szTb, nbFd, hand, called, regs>>

\* Fault: the handle is taken for good.
Valid_Any(e) == TRUE

\* The handle an event points to is still one.
Valid(e) == hand[e.ptr].magic

\* rtl_epollScan, the next event: its handle's callback is called.
ScanCall ==
    /\ called = 0 /\ events # <<>>
    /\ Valid(Head(events))
    /\ called' = hand[Head(events).ptr].reg
    /\ UNCHANGED <<hdTb, szTb, nbFd, hand, events, regs>>

\* "we received one more event on disc": the handle was freed.
ScanPass ==
    /\ called = 0 /\ events # <<>>
    /\ ~Valid(Head(events))
    /\ events' = Tail(events)
    /\ UNCHANGED <<hdTb, szTb, nbFd, hand, called, regs>>

CallbackReturns ==
    /\ called # 0
    /\ called' = 0
    /\ events' = Tail(events)
    /\ UNCHANGED <<hdTb, szTb, nbFd, hand, regs>>

Next ==
    \/ \E fd \in Fd, a \in Addr : Add(fd, a)
    \/ \E fd \in Fd : Rmv(fd)
    \/ EpollWait
    \/ ScanCall
    \/ ScanPass
    \/ CallbackReturns

Spec == Init /\ [][Next]_vars

-----------------------------------------------------------------------------
(* Properties *)

\* Every variable has its type.
TypeOK ==
    /\ hdTb \in [Fd -> Addr \cup {NoAddr}]
    /\ szTb \in Nat
    /\ nbFd \in Nat
    /\ hand \in [Addr -> Hand]
    /\ events \in Seq(Event)
    /\ called \in 0..MaxAdd
    /\ regs \in 0..MaxAdd

\* The table and the heap agree: every entry points to the handle of its own
\* descriptor, no handle is lost, and nbFd counts them.
Handles ==
    /\ \A fd \in Fd : hdTb[fd] # NoAddr =>
          hand[hdTb[fd]].magic /\ hand[hdTb[fd]].fd = fd /\ fd < szTb
    /\ \A a \in Addr : hand[a].magic => hdTb[hand[a].fd] = a
    /\ nbFd = Cardinality({fd \in Fd : hdTb[fd] # NoAddr})

Live == {hand[hdTb[fd]].reg : fd \in {f \in Fd : hdTb[f] # NoAddr}}
ToScan == {events[i] : i \in (IF called = 0 THEN 1 ELSE 2)..Len(events)}

\* Registrations whose event is still to come.
Due == {e.reg : e \in ToScan} \cap Live

\* The registration whose handle is at a now.
Owner(a) == IF hand[a].magic THEN hand[a].reg ELSE 0

\* Events of registrations that are gone, and who would get them.
Stale == {<<e.reg, Owner(e.ptr)>> : e \in {x \in ToScan : x.reg \notin Live}}

Loop == INSTANCE LaxLoop WITH
            Reg <- 1..MaxAdd, NoReg <- 0,
            live <- Live, due <- Due, called <- called, stale <- Stale

\* rtl_epollScan implements a round of LaxLoop: every reported registration is
\* served once unless removed, and the magic number keeps an event of a removed
\* one from being given to anybody, as long as the allocator has not given its
\* handle to a registration made in the same round.
ServesRounds == Loop!LSpec

\* The stronger promise of the comment in rtl_epollScan, "hand is freed in
\* rtl_epollRmv() [...] but we received one more event on disc": the callback
\* that runs is that of the registration the event is of.
OwnEvent == called # 0 => Head(events).reg = called
=============================================================================
