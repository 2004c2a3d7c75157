------------------------------ MODULE LaxLoop ------------------------------
(***************************************************************************)
(* What rtl_epoll promises, which is less than EventLoop: it finds the     *)
(* registration of an event by the address of its handle.  If a reported   *)
(* registration is removed in the round, another one that is made later in *)
(* the round may get the memory of its handle, and then, by mistake, the   *)
(* event.  All that a round reports and that stays is still served once.   *)
(***************************************************************************)
EXTENDS EventLoop

VARIABLE
    stale   \* <<r, heir>>: r was reported and removed, and heir, if there is
            \* one, has its handle

lvars == <<vars, stale>>

LTypeOK == TypeOK /\ stale \in SUBSET (Reg \X (Reg \cup {NoReg}))

LInit == Init /\ stale = {}

\* The new registration may inherit from one that is gone.
LRegister(r) ==
    /\ Register(r)
    /\ \/ UNCHANGED stale
       \/ \E gone \in Reg :
             /\ <<gone, NoReg>> \in stale
             /\ stale' = (stale \ {<<gone, NoReg>>}) \cup {<<gone, r>>}

\* An heir that is removed leaves its handle to others.
LUnregister(r) ==
    /\ Unregister(r)
    /\ stale' = {<<p[1], IF p[2] = r THEN NoReg ELSE p[2]>> : p \in stale}
                \cup {<<r, NoReg>> : gone \in due \cap {r}}

\* All events of a round are gone before the next.
LReport(s) == Report(s) /\ stale = {} /\ UNCHANGED stale

LDeliver(r) == Deliver(r) /\ UNCHANGED stale

LReturn == Return /\ UNCHANGED stale

\* The event of a removed registration is dropped.
Drop(gone) ==
    /\ called = NoReg
    /\ <<gone, NoReg>> \in stale
    /\ stale' = stale \ {<<gone, NoReg>>}
    /\ UNCHANGED vars

\* The event of a removed registration goes to its heir.
Mistake(gone, heir) ==
    /\ called = NoReg
    /\ <<gone, heir>> \in stale
    /\ called' = heir
    /\ stale' = stale \ {<<gone, heir>>}
    /\ UNCHANGED <<live, due>>

LNext ==
    \/ \E r \in Reg : LRegister(r) \/ LUnregister(r) \/ LDeliver(r) \/ Drop(r)
    \/ \E s \in SUBSET live : LReport(s)
    \/ \E gone, heir \in Reg : Mistake(gone, heir)
    \/ LReturn

LSpec == LInit /\ [][LNext]_lvars
=============================================================================
