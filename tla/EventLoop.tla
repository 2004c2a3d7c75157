----------------------------- MODULE EventLoop -----------------------------
(***************************************************************************)
(* What rtl_poll and rtl_epoll promise their callers, one round at a time: *)
(* the kernel reports some registrations ready, the event callback of each *)
(* of them is called once in the round, unless the registration is removed *)
(* before its turn, and no other callback is called.  Callbacks register   *)
(* and remove descriptors themselves.                                      *)
(***************************************************************************)
CONSTANTS
    Reg,    \* registrations: one per successful rtl_pollAdd or rtl_epollAdd
    NoReg

VARIABLES
    live,   \* registrations in the table
    due,    \* registrations reported in this round and not served yet
    called  \* the registration whose callback runs, NoReg between callbacks

vars == <<live, due, called>>

TypeOK ==
    /\ live \in SUBSET Reg
    /\ due \in SUBSET Reg
    /\ called \in Reg \cup {NoReg}

Init == live = {} /\ due = {} /\ called = NoReg

Register(r) ==
    /\ r \notin live
    /\ live' = live \cup {r}
    /\ UNCHANGED <<due, called>>

Unregister(r) ==
    /\ r \in live
    /\ live' = live \ {r}
    /\ due' = due \ {r}
    /\ UNCHANGED called

\* A new round starts only when the previous one owes nothing.
Report(s) ==
    /\ due = {} /\ called = NoReg
    /\ due' = s
    /\ UNCHANGED <<live, called>>

Deliver(r) ==
    /\ called = NoReg
    /\ r \in due
    /\ called' = r
    /\ due' = due \ {r}
    /\ UNCHANGED live

Return ==
    /\ called # NoReg
    /\ called' = NoReg
    /\ UNCHANGED <<live, due>>

Next ==
    \/ \E r \in Reg : Register(r) \/ Unregister(r) \/ Deliver(r)
    \/ \E s \in SUBSET live : Report(s)
    \/ Return

Spec == Init /\ [][Next]_vars
=============================================================================
