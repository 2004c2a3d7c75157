----------------------------- MODULE EpollWalk -----------------------------
(***************************************************************************)
(* rtl_epollWalk goes through the table of Epoll a portion at a time, for  *)
(* the clocks of elap: each call goes on where the last one stopped and    *)
(* calls a function for a few handles.  That function closes and opens     *)
(* descriptors, so the table changes, and even grows, under the walk.      *)
(* (A negative result of the function would end the call; the one function *)
(* there is, WalkLink of elap.c, returns 0 or 1.)                          *)
(***************************************************************************)
EXTENDS Epoll

CONSTANTS
    Per,        \* per, clipped to 1..100: handles per call of a small table
    UIntMax     \* ep_walkrr is unsigned: it counts modulo UIntMax

\* The counter goes through the largest table at least once.
ASSUME WalkAssumption == Per \in 1..100 /\ UIntMax \in Nat /\ UIntMax >= 2 * SzPoll

VARIABLES
    walkrr,     \* ep_walkrr
    walk,       \* the running call: i, nb, max, and whether it is in fctwalk
    watched,    \* any one descriptor, the same for ever
    missed      \* entries looked at since watched was registered or served

wvars == <<walkrr, walk, watched, missed>>

Idle == [on |-> FALSE, in |-> FALSE, i |-> 0, nb |-> 0, max |-> 0]

WInit ==
    /\ Init
    /\ walkrr = 0
    /\ walk = Idle
    /\ watched \in Fd
    /\ missed = 0

\* A small table has no hundredth part: max is then the percentage itself.
WalkMax == IF szTb \div 100 > 0 THEN szTb \div 100 ELSE Per

\* Fault: every call starts at the first entry again.
WalkFrom_Start == 0

\* The loop starts where the last call stopped.
WalkFrom == walkrr

\* rtl_epollWalk is called between two rounds of rtl_epoll.
WalkBegin ==
    /\ ~walk.on
    /\ events = <<>> /\ called = 0
    /\ walk' = [Idle EXCEPT !.on = TRUE, !.max = WalkMax]
    /\ walkrr' = WalkFrom
    /\ UNCHANGED <<vars, watched, missed>>

Idx == walkrr % szTb

\* The entry that the loop looks at has a handle (one of elap: others, with
\* hd_ref or hd_ref2 NULL, are skipped like empty entries).
AtHandle == \E fd \in Fd : fd = Idx /\ hdTb[fd] # NoAddr

\* The next entry of the table: an empty one is skipped, for another the
\* function is called.
WalkNext ==
    /\ walk.on /\ ~walk.in
    /\ walk.i < szTb
    /\ walkrr' = (walkrr + 1) % UIntMax
    /\ walk' = IF AtHandle THEN [walk EXCEPT !.in = TRUE]
               ELSE [walk EXCEPT !.i = @ + 1]
    /\ missed' = IF Idx = watched \/ hdTb[watched] = NoAddr THEN 0 ELSE missed + 1
    /\ UNCHANGED <<vars, watched>>

\* The call returns.
WalkReturns == walk' = Idle /\ UNCHANGED <<vars, walkrr, watched, missed>>

\* The function returns, and the portion is done or it is not.
FctwalkReturns ==
    /\ walk.in
    /\ IF walk.nb + 1 >= walk.max
       THEN WalkReturns
       ELSE /\ walk' = [walk EXCEPT !.in = FALSE, !.i = @ + 1, !.nb = @ + 1]
            /\ UNCHANGED <<vars, walkrr, watched, missed>>

\* The whole table was gone through.
WalkEnds ==
    /\ walk.on /\ ~walk.in
    /\ walk.i >= szTb
    /\ WalkReturns

\* What Epoll does between the walks, or what the function does in one.
EpollStep ==
    /\ ~walk.on \/ walk.in
    /\ \/ \E fd \in Fd, a \in Addr : Add(fd, a)
       \/ \E fd \in Fd : Rmv(fd)
       \/ ~walk.on /\ (EpollWait \/ ScanCall \/ ScanPass \/ CallbackReturns)
    /\ missed' = IF hdTb'[watched] = NoAddr THEN 0 ELSE missed
    /\ UNCHANGED <<walkrr, walk, watched>>

WNext ==
    \/ EpollStep
    \/ WalkBegin
    \/ WalkNext
    \/ FctwalkReturns
    \/ WalkEnds

WSpec == WInit /\ [][WNext]_<<vars, wvars>>

\* However descriptors come and go, one that stays is served again before
\* the calls of rtl_epollWalk have looked at twice as many entries as the
\* table has (its user timers, T1, T2 and T3 depend on it).  Once is not
\* enough: the modulo jumps when the table grows, and over the rest of the
\* table when ep_walkrr wraps.
WalkServes == missed < 2 * szTb
=============================================================================
