-------------------------------- MODULE Imsg --------------------------------
(***************************************************************************)
(* The message and timer queue that threads share (lib/message.c).  Plain  *)
(* messages wait in iq_msglist, timers and delayed messages in             *)
(* iq_timerlist until their time comes.  Everything but rtl_imsgCancelDelay *)
(* happens under the mutex iq_CS, so a critical section is one step; the   *)
(* waiting calls are several sections, with a sleep on iq_CD between them. *)
(*                                                                         *)
(* The queue is a record q of the fields of t_iqmsg, with im, the messages *)
(* themselves, and cd, set by a step that broadcasts iq_CD.                *)
(***************************************************************************)
EXTENDS Integers, Sequences, FiniteSets, FiniteSetsExt

CONSTANTS
    Msg,        \* messages; each is allocated and added at most once
    NoMsg,      \* NULL
    Thread,     \* threads that wait on the queue
    To,         \* values of im_to
    Calls,      \* Calls[t]: the wait calls of thread t, records [mode, timed]
    Delta,      \* delays of timers and delayed messages, in ticks
    Second,     \* ticks of a second
    Anticip,    \* Anticip, 550 microseconds, in ticks
    MaxNow,     \* bound: the clock stops here
    MaxRemove,  \* bound: calls of the functions that remove messages
    MaxCancel,  \* bound: calls of rtl_imsgCancelDelay
    NbMax       \* bound: messages asked for in one call of rtl_imsgGetArray

Mode == {"MSG", "TIMER", "BOTH"}

ASSUME ImsgAssumption ==
    /\ IsFiniteSet(Msg) /\ NoMsg \notin Msg
    /\ Calls \in [Thread -> SUBSET [mode : Mode, timed : BOOLEAN]]
    /\ Delta \subseteq Nat
    /\ Second \in Nat \ {0} /\ Anticip \in Nat
    /\ MaxNow \in Nat /\ MaxRemove \in Nat /\ MaxCancel \in Nat /\ NbMax \in Nat

VARIABLES
    iq,     \* the queue
    th,     \* th[t]: where thread t is in its wait call
    now,    \* the monotonic clock, in ticks
    used    \* how much of each bound is used up

vars == <<iq, th, now, used>>

-----------------------------------------------------------------------------
(* Messages *)

\* st: not yet allocated, in the queue, given to a caller, or freed.
Imsg == [st : {"none", "queued", "fetched", "freed"},
         timer : BOOLEAN, delayed : BOOLEAN, end : Nat, to : To]

ImsgAlloc(to) ==
    [st |-> "none", timer |-> FALSE, delayed |-> FALSE, end |-> now, to |-> to]

TimerAlloc(delta, to) == [ImsgAlloc(to) EXCEPT !.timer = TRUE, !.end = now + delta]

\* Timers and delayed messages live in the timer list.
InTimers(x) == x.timer \/ x.delayed

Elems(s)  == {s[i] : i \in 1..Len(s)}

\* The messages of s that are in S, in their order.
Those(s, S) ==
    LET upto[n \in 0..Len(s)] ==
            IF n = 0 THEN <<>>
            ELSE IF s[n] \in S THEN Append(upto[n-1], s[n]) ELSE upto[n-1]
    IN  upto[Len(s)]

Without(s, S) == Those(s, Msg \ S)

-----------------------------------------------------------------------------
(* __MsgAdd *)

InsertAt(s, i, m) == SubSeq(s, 1, i - 1) \o <<m>> \o SubSeq(s, i, Len(s))

\* The place of a timer: at the end, unless the last timer is later.  Then
\* it goes before the last one that is not later, if there is one.
TimerPlace(q, m) ==
    LET l    == q.timerlist
        notlater == {i \in 1..Len(l) : q.im[l[i]].end <= q.im[m].end}
    IN  IF notlater = {} \/ Len(l) \in notlater THEN Len(l) + 1 ELSE Max(notlater)

\* Fault: a timer that is added is not counted.
AddTimerList_NoCount(q, m) == [q EXCEPT !.timerlist = InsertAt(@, TimerPlace(q, m), m)]

AddTimerList(q, m) ==
    [q EXCEPT !.timerlist  = InsertAt(@, TimerPlace(q, m), m),
              !.timercount = @ + 1,
              !.count      = @ + 1]

\* Fault: nobody is woken.
AddMsgList_Silent(q, m) ==
    [q EXCEPT !.msglist  = Append(@, m),
              !.msgcount = @ + 1,
              !.count    = @ + 1]

AddMsgList(q, m) ==
    [q EXCEPT !.msglist  = Append(@, m),
              !.msgcount = @ + 1,
              !.count    = @ + 1,
              !.cd       = TRUE]

\* __MsgAdd.  The serial number it gives the message is not read again.
MsgAdd(q0, m) ==
    LET q == [q0 EXCEPT !.im[m].st = "queued"]
    IN  IF InTimers(q.im[m]) THEN AddTimerList(q, m) ELSE AddMsgList(q, m)

-----------------------------------------------------------------------------
(* __MsgGet *)

\* A time is seconds and nanoseconds, im_end and im_endns.
Sec(t) == t \div Second

\* Fault: only the nanoseconds are compared.
Expired_Ns(x) == x.end % Second <= (now % Second) + Anticip

\* CMP_TIME of the clock and a timer is above -Anticip: within its last second a
\* timer is taken up to Anticip before its end, in the seconds before it never.
Expired(x) ==
    \/ Sec(now) > Sec(x.end)
    \/ Sec(now) = Sec(x.end) /\ x.end - now <= Anticip

\* A delayed message becomes a normal one.
Promoted(x) == [x EXCEPT !.timer = FALSE, !.delayed = FALSE]

\* Fault: the message is counted off but stays linked.
DelTimer_NoUnlink(q, m) == [q EXCEPT !.timercount = @ - 1, !.count = @ - 1]

\* A message leaves the timer list.
DelTimer(q, m) ==
    [q EXCEPT !.timerlist = Without(@, {m}), !.timercount = @ - 1, !.count = @ - 1]

\* Promote the delayed messages s[1..n] of the timer list, in order.
Promote(q, s) ==
    LET upto[n \in 0..Len(s)] ==
            IF n = 0 THEN q
            ELSE LET p == DelTimer(upto[n-1], s[n])
                 IN  MsgAdd([p EXCEPT !.im[s[n]] = Promoted(@)], s[n])
    IN  upto[Len(s)]

\* The part of __MsgGet on timers: the scan promotes every expired delayed
\* message until it meets an expired timer, which it returns.
GetTimer(q) ==
    LET due   == Those(q.timerlist, {m \in Msg : Expired(q.im[m])})
        stops == {i \in 1..Len(due) : ~q.im[due[i]].delayed}
    IN  IF stops = {} THEN [q |-> Promote(q, due), ret |-> NoMsg]
        ELSE LET n == Min(stops)
             IN  [q   |-> DelTimer(Promote(q, SubSeq(due, 1, n - 1)), due[n]),
                  ret |-> due[n]]

\* Fault: the newest message is taken.
GetMsg_Last(q) ==
    IF q.msglist = <<>> THEN [q |-> q, ret |-> NoMsg]
    ELSE [q   |-> [q EXCEPT !.msglist = SubSeq(@, 1, Len(@) - 1),
                            !.msgcount = @ - 1, !.count = @ - 1],
          ret |-> q.msglist[Len(q.msglist)]]

\* The part of __MsgGet on plain messages.
GetMsg(q) ==
    IF q.msglist = <<>> THEN [q |-> q, ret |-> NoMsg]
    ELSE [q   |-> [q EXCEPT !.msglist = Tail(@), !.msgcount = @ - 1, !.count = @ - 1],
          ret |-> Head(q.msglist)]

MsgGet(q, mode) ==
    LET g == IF mode = "MSG" THEN [q |-> q, ret |-> NoMsg] ELSE GetTimer(q)
        r == IF g.ret # NoMsg \/ mode = "TIMER" THEN g ELSE GetMsg(g.q)
    IN  IF r.ret = NoMsg THEN r ELSE [r EXCEPT !.q.im[r.ret].st = "fetched"]

\* rtl_imsgGetArray: up to nbmax messages in one critical section.  A call
\* of __MsgGet after one that returned NULL changes nothing.
MsgGetArray(q, mode, nbmax) ==
    LET upto[n \in 0..nbmax] == IF n = 0 THEN q ELSE MsgGet(upto[n-1], mode).q
    IN  upto[nbmax]

-----------------------------------------------------------------------------
(* The users of the queue *)

\* A critical section leaves queue q; whoever sleeps is woken by cd.
Leave(q) == iq' = [q EXCEPT !.cd = FALSE]
Woken(q, t) == IF q.cd /\ th[t].pc = "asleep" THEN [th[t] EXCEPT !.pc = "lock"] ELSE th[t]
WakeUp(q) == th' = [t \in Thread |-> Woken(q, t)]

Idle == [pc |-> "idle", call |-> [mode |-> "MSG", timed |-> FALSE]]

Budget == {"remove", "cancel"}
Bound(b) == IF b = "remove" THEN MaxRemove ELSE MaxCancel
Left(b)  == used[b] < Bound(b)
Spend(b) == used' = [used EXCEPT ![b] = @ + 1]

\* rtl_imsgInitIq
Init ==
    /\ \E to \in [Msg -> To] :
         iq = [msglist |-> <<>>, timerlist |-> <<>>,
               msgcount |-> 0, timercount |-> 0, count |-> 0,
               cd |-> FALSE,
               im |-> [m \in Msg |-> [st |-> "none", timer |-> FALSE, delayed |-> FALSE,
                                      end |-> 0, to |-> to[m]]]]
    /\ th = [t \in Thread |-> Idle]
    /\ now = 0
    /\ used = [b \in Budget |-> 0]

Unallocated(m) == iq.im[m].st = "none"

\* rtl_imsgAlloc or rtl_timerAlloc made x, rtl_imsgAdd puts it in the queue.
AddNew(m, x) ==
    LET q == MsgAdd([iq EXCEPT !.im[m] = x], m)
    IN  /\ Unallocated(m)
        /\ Leave(q) /\ WakeUp(q)
        /\ UNCHANGED <<now, used>>

Add(m) == AddNew(m, ImsgAlloc(iq.im[m].to))

\* The ends of timers stay within MaxNow so that they can come.
AddTimer(m) ==
    \E delta \in Delta :
        now + delta <= MaxNow /\ AddNew(m, TimerAlloc(delta, iq.im[m].to))

\* rtl_imsgAddDelayed, of a message or of a timer.
AddDelayed(m) ==
    \E delta \in Delta, timer \in BOOLEAN :
        /\ now + delta <= MaxNow
        /\ AddNew(m, [ImsgAlloc(iq.im[m].to) EXCEPT
                        !.timer = timer, !.delayed = TRUE, !.end = now + delta])

\* rtl_imsgGet
Get(mode) ==
    LET q == MsgGet(iq, mode).q
    IN  /\ q # iq
        /\ Leave(q) /\ WakeUp(q)
        /\ UNCHANGED <<now, used>>

\* rtl_imsgGetArray
GetArray(mode, nbmax) ==
    LET q == MsgGetArray(iq, mode, nbmax)
    IN  /\ q # iq
        /\ Leave(q) /\ WakeUp(q)
        /\ UNCHANGED <<now, used>>

-----------------------------------------------------------------------------
(* rtl_imsgWait and rtl_imsgWaitTime *)

\* Fault: timers are not looked for before the sleep.
WaitCall_NoTimers(t, call) ==
    /\ th[t].pc = "idle"
    /\ th' = [th EXCEPT ![t] = [pc |-> "lock", call |-> call]]
    /\ UNCHANGED <<iq, now, used>>

\* The call, up to the end of the first critical section, which looks for
\* timers (in mode MSG there is none).
WaitCall(t, call) ==
    LET g == IF call.mode = "MSG" THEN [q |-> iq, ret |-> NoMsg] ELSE MsgGet(iq, "TIMER")
    IN  /\ th[t].pc = "idle"
        /\ Leave(g.q)
        /\ th' = [u \in Thread |->
                    IF u # t THEN Woken(g.q, u)
                    ELSE IF g.ret # NoMsg THEN Idle
                    ELSE [pc |-> "lock", call |-> call]]
        /\ UNCHANGED <<now, used>>

\* The mutex is taken, for the second section or after a wake-up, and there
\* is no message: sleep.
WaitSleep(t) ==
    /\ th[t].pc = "lock"
    /\ iq.msgcount <= 0
    /\ th' = [th EXCEPT ![t].pc = "asleep"]
    /\ UNCHANGED <<iq, now, used>>

\* The mutex is taken and there is a message: __MsgGet and return.
WaitGet(t) ==
    LET q == MsgGet(iq, th[t].call.mode).q
    IN  /\ th[t].pc = "lock"
        /\ iq.msgcount > 0
        /\ Leave(q)
        /\ th' = [u \in Thread |-> IF u = t THEN Idle ELSE Woken(q, u)]
        /\ UNCHANGED <<now, used>>

\* A wake-up nobody asked for, which POSIX allows.
Spurious(t) ==
    /\ th[t].pc = "asleep"
    /\ th' = [th EXCEPT ![t].pc = "lock"]
    /\ UNCHANGED <<iq, now, used>>

\* pthread_cond_timedwait returns ETIMEDOUT, or EINVAL for a deadline whose
\* tv_nsec is 1000000000: the call returns without looking at the queue.
WaitTimeout(t) ==
    /\ th[t].pc = "asleep" /\ th[t].call.timed
    /\ th' = [th EXCEPT ![t] = Idle]
    /\ UNCHANGED <<iq, now, used>>

-----------------------------------------------------------------------------
(* Removing messages *)

\* rtl_imsgFree
Freed(x) == [x EXCEPT !.st = "freed", !.timer = FALSE, !.delayed = FALSE, !.end = 0]

\* Fault: delayed messages are taken for plain ones.
DelQueued_TimerOnly(q, m) ==
    IF q.im[m].timer
    THEN [DelTimer(q, m) EXCEPT !.im[m] = Freed(@)]
    ELSE [q EXCEPT !.msglist = Without(@, {m}), !.timerlist = Without(@, {m}),
                   !.msgcount = @ - 1, !.count = @ - 1, !.im[m] = Freed(@)]

\* A message is unlinked and freed, and the counter its flags select goes down.
DelQueued(q, m) ==
    IF InTimers(q.im[m])
    THEN [DelTimer(q, m) EXCEPT !.im[m] = Freed(@)]
    ELSE [q EXCEPT !.msglist = Without(@, {m}), !.timerlist = Without(@, {m}),
                   !.msgcount = @ - 1, !.count = @ - 1, !.im[m] = Freed(@)]

\* rtl_imsgRemove and rtl_imsgFastRemove, of a message still in the queue.
Remove(m) ==
    /\ iq.im[m].st = "queued"
    /\ Left("remove") /\ Spend("remove")
    /\ iq' = DelQueued(iq, m)
    /\ UNCHANGED <<th, now>>

\* All messages of S leave both lists.
DelAll(q, S) ==
    LET ms == S \cap Elems(q.msglist)
        ts == S \cap Elems(q.timerlist)
    IN  [q EXCEPT !.msglist    = Without(@, ms),
                  !.timerlist  = Without(@, ts),
                  !.msgcount   = @ - Cardinality(ms),
                  !.timercount = @ - Cardinality(ts),
                  !.count      = @ - Cardinality(ms) - Cardinality(ts),
                  !.im = [m \in Msg |-> IF m \in ms \cup ts
                                        THEN Freed(q.im[m])
                                        ELSE q.im[m]]]

\* rtl_imsgRemoveTo, rtl_imsgRemoveToType.  im_class and im_type are one with
\* im_to here: a value the messages to remove share.
RemoveTo(to) ==
    /\ Left("remove") /\ Spend("remove")
    /\ iq' = DelAll(iq, {m \in Msg : iq.im[m].to = to})
    /\ UNCHANGED <<th, now>>

RemoveAll ==
    /\ Left("remove") /\ Spend("remove")
    /\ iq' = DelAll(iq, Msg)
    /\ UNCHANGED <<th, now>>

\* rtl_imsgCancelDelay, without the mutex.  The timer list keeps its order.
CancelDelay(m) ==
    /\ iq.im[m].st = "queued" /\ iq.im[m].delayed
    /\ Left("cancel") /\ Spend("cancel")
    /\ iq' = [iq EXCEPT !.im[m].end = now]
    /\ UNCHANGED <<th, now>>

Tick ==
    /\ now < MaxNow
    /\ now' = now + 1
    /\ UNCHANGED <<iq, th, used>>

WaitStep(t) == WaitSleep(t) \/ WaitGet(t)

Next ==
    \/ \E m \in Msg : Add(m) \/ AddTimer(m) \/ AddDelayed(m) \/ Remove(m) \/ CancelDelay(m)
    \/ \E mode \in Mode : Get(mode) \/ \E nbmax \in 1..NbMax : GetArray(mode, nbmax)
    \/ \E t \in Thread :
          \/ \E call \in Calls[t] : WaitCall(t, call)
          \/ WaitStep(t) \/ Spurious(t) \/ WaitTimeout(t)
    \/ \E to \in To : RemoveTo(to)
    \/ RemoveAll
    \/ Tick

Spec == Init /\ [][Next]_vars

\* Threads that serve messages and timers in a loop of rtl_imsgWaitTime.
Consumer == {t \in Thread : Calls[t] = {[mode |-> "BOTH", timed |-> TRUE]}}

\* Time passes, a consumer whose call returned calls again, and a woken thread gets
\* the mutex.  This is weak fairness of Tick, WaitCall and WaitStep, said by what
\* these steps alone bring about (WaitCall returns at once finitely often, as there
\* are finitely many timers).  The deadline of a timed sleep is absolute, so that
\* spurious wake-ups cannot put it off: strong fairness of WaitTimeout.
Fairness ==
    /\ <>(now = MaxNow)
    /\ \A t \in Consumer : []<>(th[t].pc # "idle")
    /\ \A t \in Thread :
        /\ []<>(th[t].pc # "lock")
        /\ []<>(th[t].pc = "asleep" /\ th[t].call.timed) => []<><<WaitTimeout(t)>>_vars

FairSpec == Spec /\ Fairness

-----------------------------------------------------------------------------
(* Properties *)

\* Every field has its type; the counters never fall below zero.
TypeOK ==
    /\ iq \in [msglist : Seq(Msg), timerlist : Seq(Msg),
               msgcount : Nat, timercount : Nat, count : Nat,
               cd : {FALSE}, im : [Msg -> Imsg]]
    /\ th \in [Thread -> [pc : {"idle", "lock", "asleep"},
                          call : [mode : Mode, timed : BOOLEAN]]]
    /\ now \in 0..MaxNow
    /\ used \in [Budget -> Nat]

Occurs(m, s) == Cardinality({i \in 1..Len(s) : s[i] = m})

\* Every message that was added and neither fetched nor freed is linked
\* exactly once, in the list its flags im_timer and im_delayed tell (which is
\* what rtl_imsgRemove goes by), and no other message is linked.
Linked ==
    \A m \in Msg :
        LET x == iq.im[m]
        IN  /\ Occurs(m, iq.timerlist) = IF x.st = "queued" /\ InTimers(x) THEN 1 ELSE 0
            /\ Occurs(m, iq.msglist) = IF x.st = "queued" /\ ~InTimers(x) THEN 1 ELSE 0

\* The counters the waiting calls and rtl_imsgCount go by are the lengths of
\* the lists, whatever was added, promoted, fetched or removed.
Counted ==
    /\ iq.msgcount = Len(iq.msglist)
    /\ iq.timercount = Len(iq.timerlist)
    /\ iq.count = iq.msgcount + iq.timercount

\* Time t has come, or comes within this second and Anticip.
Near(t) == t <= now + Anticip /\ Sec(t) <= Sec(now)

\* __MsgGet: no timer is fetched, and no delayed message joins the plain
\* ones, more than the 550 microseconds of Anticip before its time, and none
\* before the second in which its time comes.
NotEarly ==
    \A m \in Msg :
        m \in Elems(iq.msglist) \/ iq.im[m].st = "fetched" => Near(iq.im[m].end)

\* The wake-up of __MsgAdd: no thread sleeps while a plain message waits,
\* be it a new one or a delayed one that another thread's call promoted.
NoLostWakeup == iq.msgcount > 0 => \A t \in Thread : th[t].pc # "asleep"

\* Plain messages form a queue: unless it removes messages, a step takes
\* them from the front of the list, and what it adds or promotes goes to the
\* back, in one order for all threads.
Fifo ==
    [][used'["remove"] = used["remove"] =>
        \E n \in 0..Len(iq.msglist) :
            LET kept == SubSeq(iq.msglist, n + 1, Len(iq.msglist))
            IN  /\ Len(kept) <= Len(iq'.msglist)
                /\ kept = SubSeq(iq'.msglist, 1, Len(kept))
                /\ \A i \in 1..n : iq'.im[iq.msglist[i]].st = "fetched"]_vars

\* Whatever is added, timers and delayed messages included, is fetched or removed
\* in the end, if there is a consumer, which calls rtl_imsgWaitTime in a loop and
\* sets *ms anew each time (a timeout leaves 0 there, and with 0 the call is
\* rtl_imsgWait).  The comments above both calls say that they "cannot be used with
\* timed/delayed messages".  For rtl_imsgWait, timed FALSE, that is so: neither the
\* end of a timer nor adding one wakes a thread, and Served fails if all calls are
\* of that kind.  For rtl_imsgWaitTime it is too strong: a call looks for timers
\* once, when it begins, so a timer whose time comes in the sleep is served by the
\* next call of the loop.  That is what Served says; that it may be late by a whole
\* *ms is what the comment warns of.
Served == \A m \in Msg : (iq.im[m].st = "queued") ~> (iq.im[m].st # "queued")
=============================================================================
