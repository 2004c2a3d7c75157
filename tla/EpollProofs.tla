----------------------------- MODULE EpollProofs -----------------------------
(***************************************************************************)
(* The epoll table: proofs that table and heap always agree, that a round  *)
(* of rtl_epollScan is a round of LaxLoop, and that the walk comes round.  *)
(***************************************************************************)
EXTENDS EpollWalk, FiniteSetTheorems, SequenceTheorems, TLAPS

(* The inductive invariant of the table *)

\* Handles counts only what is registered, so that it needs the handles to
\* be those of descriptors, and the table to be as large as it began.
TableInv ==
    /\ TypeOK
    /\ Handles
    /\ szTb >= SzPoll
    /\ \A a \in Addr : hand[a].magic => hand[a].fd \in Fd
    /\ called # 0 => events # <<>>

Taken == {fd \in Fd : hdTb[fd] # NoAddr}

LEMMA FdFinite == IsFiniteSet(Fd)
<1>1. IsFiniteSet(0..(2 * SzPoll - 1))
  BY FS_Interval, EpollAssumption
<1> QED
  BY <1>1, FS_Subset, EpollAssumption

LEMMA TakenFinite == IsFiniteSet(Taken)
BY FdFinite, FS_Subset DEF Taken

LEMMA TableInit == Init => TableInv
<1> SUFFICES ASSUME Init PROVE TableInv
  OBVIOUS
<1>1. TypeOK
  BY EpollAssumption DEF Init, TypeOK, Hand, Event
<1>2. Handles
  <2>1. {fd \in Fd : hdTb[fd] # NoAddr} = {}
    BY DEF Init
  <2>2. nbFd = Cardinality({fd \in Fd : hdTb[fd] # NoAddr})
    BY <2>1, FS_EmptySet DEF Init
  <2> QED
    BY <2>2 DEF Init, Handles
<1> QED
  BY <1>1, <1>2, EpollAssumption DEF Init, TableInv

\* Registering fd with the handle at a.
LEMMA AddTable ==
    ASSUME TableInv, NEW fd \in Fd, NEW a \in Addr, Add(fd, a)
    PROVE  TableInv'
<1>1. TypeOK'
  BY EpollAssumption DEF TableInv, TypeOK, Add, Hand, Event
<1>2. szTb' >= szTb /\ fd < szTb'
  BY EpollAssumption DEF TableInv, TypeOK, Add
<1>3. ~hand[a].magic
  BY DEF Add, CallocFrom
<1>4. nbFd' = Cardinality({f \in Fd : hdTb'[f] # NoAddr})
  <2>1. {f \in Fd : hdTb'[f] # NoAddr} = Taken \cup {fd}
    BY EpollAssumption DEF TableInv, TypeOK, Add, Taken
  <2>2. fd \notin Taken
    BY DEF Add, Taken
  <2>3. Cardinality(Taken \cup {fd}) = Cardinality(Taken) + 1
    BY <2>2, TakenFinite, FS_AddElement
  <2>4. nbFd' = Cardinality(Taken) + 1
    BY DEF TableInv, Handles, Add, Taken
  <2> QED
    BY <2>1, <2>3, <2>4
<1>5. \A f \in Fd : hdTb'[f] # NoAddr =>
          hand'[hdTb'[f]].magic /\ hand'[hdTb'[f]].fd = f /\ f < szTb'
  BY <1>2, <1>3, EpollAssumption DEF TableInv, TypeOK, Handles, Add, Hand
<1>6. \A b \in Addr : hand'[b].magic => hand'[b].fd \in Fd /\ hdTb'[hand'[b].fd] = b
  BY <1>3, EpollAssumption DEF TableInv, TypeOK, Handles, Add, Hand
<1> QED
  BY <1>1, <1>2, <1>4, <1>5, <1>6, EpollAssumption DEF TableInv, Handles, TypeOK, Add

\* Removing fd.
LEMMA RmvTable ==
    ASSUME TableInv, NEW fd \in Fd, Rmv(fd)
    PROVE  TableInv'
<1> DEFINE a == hdTb[fd]
<1>1. a \in Addr /\ hand[a].magic /\ hand[a].fd = fd /\ fd \in Taken
  BY DEF TableInv, TypeOK, Handles, Rmv, Known, Taken
<1>2. {f \in Fd : hdTb'[f] # NoAddr} = Taken \ {fd}
  BY DEF TableInv, TypeOK, Rmv, Forget, Taken
<1>3. nbFd' = Cardinality({f \in Fd : hdTb'[f] # NoAddr}) /\ nbFd' \in Nat
  <2>1. Cardinality(Taken \ {fd}) = Cardinality(Taken) - 1
    BY <1>1, TakenFinite, FS_RemoveElement
  <2>2. Cardinality(Taken \ {fd}) \in Nat
    BY TakenFinite, FS_Subset, FS_CardinalityType
  <2> QED
    BY <1>2, <2>1, <2>2 DEF TableInv, Handles, Rmv, Taken
<1>4. TypeOK'
  <2>1. hdTb' \in [Fd -> Addr \cup {NoAddr}]
    BY DEF TableInv, TypeOK, Rmv, Forget
  <2>2. hand' \in [Addr -> Hand]
    BY <1>1 DEF TableInv, TypeOK, Rmv, Hand
  <2>3. nbFd' \in Nat
    BY <1>3
  <2>4. /\ szTb' = szTb /\ events' = events /\ called' = called /\ regs' = regs
        /\ szTb \in Nat /\ events \in Seq(Event)
        /\ called \in 0..MaxAdd /\ regs \in 0..MaxAdd
    BY DEF TableInv, TypeOK, Rmv
  <2> QED
    BY <2>1, <2>2, <2>3, <2>4 DEF TypeOK
<1>5. \A f \in Fd : hdTb'[f] # NoAddr =>
          hand'[hdTb'[f]].magic /\ hand'[hdTb'[f]].fd = f /\ f < szTb'
  BY <1>1 DEF TableInv, TypeOK, Handles, Rmv, Forget, Hand
<1>6. \A b \in Addr : hand'[b].magic => hand'[b].fd \in Fd /\ hdTb'[hand'[b].fd] = b
  BY <1>1 DEF TableInv, TypeOK, Handles, Rmv, Forget, Hand
<1> QED
  BY <1>3, <1>4, <1>5, <1>6 DEF TableInv, Handles, Rmv

\* What epoll_wait returns: the events of different registered handles.
LEMMA WaitEvents ==
    ASSUME TypeOK, EpollWait
    PROVE  /\ events' \in Seq(Event)
           /\ \A i \in 1..Len(events') :
                 /\ \E fd \in Fd : hdTb[fd] = events'[i].ptr
                 /\ events'[i].reg = hand[events'[i].ptr].reg
           /\ \A i, j \in 1..Len(events') : i # j => events'[i].ptr # events'[j].ptr
<1>1. PICK ready \in SUBSET {a \in Addr : \E fd \in Fd : hdTb[fd] = a} :
        events' \in {[i \in 1..Len(s) |-> [ptr |-> s[i], reg |-> hand[s[i]].reg]] :
                        s \in SetToSeqs(ready)}
  BY DEF EpollWait
<1>2. PICK s \in SetToSeqs(ready) :
        events' = [i \in 1..Len(s) |-> [ptr |-> s[i], reg |-> hand[s[i]].reg]]
  BY <1>1
<1>3. ready \subseteq Addr \ {NoAddr} /\ Cardinality(ready) \in Nat
  <2> DEFINE from == {fd \in Fd : hdTb[fd] \in ready}
             f == [fd \in from |-> hdTb[fd]]
  <2>1. IsFiniteSet(from)
    BY FdFinite, FS_Subset
  <2>2. f \in Surjection(from, ready)
    BY DEF Surjection
  <2>3. IsFiniteSet(ready)
    BY <2>1, <2>2, FS_Surjection
  <2> QED
    BY <2>3, FS_CardinalityType, EpollAssumption DEF TypeOK
<1>4. /\ s \in Seq(ready) /\ Len(s) = Cardinality(ready)
      /\ \A i, j \in 1..Len(s) : i # j => s[i] # s[j]
  BY <1>3 DEF SetToSeqs
<1>5. /\ Len(events') = Len(s)
      /\ \A i \in 1..Len(s) : /\ s[i] \in ready
                              /\ events'[i] = [ptr |-> s[i], reg |-> hand[s[i]].reg]
  BY <1>2, <1>4
<1>6. events' \in Seq(Event)
  <2>1. \A i \in 1..Len(s) : [ptr |-> s[i], reg |-> hand[s[i]].reg] \in Event
    BY <1>3, <1>5 DEF TypeOK, Hand, Event
  <2> QED
    BY <1>2, <1>4, <2>1
<1> QED
  BY <1>4, <1>5, <1>6

LEMMA WaitTable ==
    ASSUME TableInv, EpollWait
    PROVE  TableInv'
<1>1. events' \in Seq(Event)
  BY WaitEvents DEF TableInv
<1> QED
  BY <1>1 DEF EpollWait, TableInv, TypeOK, Handles

LEMMA ScanTable ==
    ASSUME TableInv, ScanCall \/ ScanPass \/ CallbackReturns
    PROVE  TableInv'
<1>1. CASE ScanCall
  <2>1. Head(events) \in Event
    BY <1>1 DEF TableInv, TypeOK, ScanCall
  <2>2. called' \in 0..MaxAdd
    BY <1>1, <2>1 DEF TableInv, TypeOK, ScanCall, Event, Hand
  <2> QED
    BY <1>1, <2>2 DEF ScanCall, TableInv, TypeOK, Handles
<1>2. CASE ScanPass
  <2>1. Tail(events) \in Seq(Event)
    BY <1>2 DEF TableInv, TypeOK, ScanPass
  <2> QED
    BY <1>2, <2>1 DEF ScanPass, TableInv, TypeOK, Handles
<1>3. CASE CallbackReturns
  <2>1. Tail(events) \in Seq(Event) /\ 0 \in 0..MaxAdd
    BY <1>3, EpollAssumption DEF CallbackReturns, TableInv, TypeOK
  <2> QED
    BY <1>3, <2>1 DEF CallbackReturns, TableInv, TypeOK, Handles
<1> QED
  BY <1>1, <1>2, <1>3

LEMMA TableNext == TableInv /\ [Next]_vars => TableInv'
<1> SUFFICES ASSUME TableInv, [Next]_vars PROVE TableInv'
  OBVIOUS
<1>1. CASE UNCHANGED vars
  BY <1>1 DEF vars, TableInv, TypeOK, Handles
<1> QED
  BY <1>1, AddTable, RmvTable, WaitTable, ScanTable DEF Next

\* rtl_epollAdd, rtl_epollRmv and rtl_epollScan keep the types.
THEOREM TableTyped == Spec => []TypeOK
<1>1. TableInv => TypeOK
  BY DEF TableInv
<1> QED
  BY <1>1, TableInit, TableNext, PTL DEF Spec

\* Whatever callbacks add and remove, the entries of the table are the
\* handles of their own descriptors, every handle is in the table, and
\* ep_nbFd counts them.
THEOREM HandlesKept == Spec => []Handles
<1>1. TableInv => Handles
  BY DEF TableInv
<1> QED
  BY <1>1, TableInit, TableNext, PTL DEF Spec

-----------------------------------------------------------------------------
(* What is left of a round *)

\* S: events still to scan; L: live registrations; O: who owns the handle at
\* an address, 0 for nobody; n: registrations made.  Registrations have numbers
\* of their own, and a live one that is to be served has the handle that its
\* event points to.  That handle may have another owner only when it is gone:
\* the allocator gives out what is free.
Left(S, L, O, n) ==
    /\ O \in [Addr -> 0..n]
    /\ L = {O[a] : a \in Addr} \ {0}
    /\ \A a, b \in Addr : O[a] = O[b] /\ O[a] # 0 => a = b
    /\ \A e \in S : /\ e.ptr \in Addr /\ e.reg \in 1..n
                    /\ \A a \in Addr : O[a] = e.reg => a = e.ptr
    /\ \A e, f \in S : e.reg = f.reg \/ e.ptr = f.ptr => e = f

DueOf(S, L) == {e.reg : e \in S} \cap L
StaleOf(S, L, O) == {<<e.reg, O[e.ptr]>> : e \in {x \in S : x.reg \notin L}}

\* r gets the event of a registration that is gone, or it does not.
Inherits(T, U, n, r) ==
    \/ U = T
    \/ \E gone \in 1..n : <<gone, 0>> \in T /\ U = (T \ {<<gone, 0>>}) \cup {<<gone, r>>}

\* Another number r is registered, with the free handle at a.
LEMMA LeftAdd ==
    ASSUME NEW S, NEW L, NEW O, NEW n, Left(S, L, O, n), NEW r, r \notin 1..n, r # 0,
           NEW a \in Addr, O[a] = 0, NEW P, P[a] = r, \A b \in Addr \ {a} : P[b] = O[b],
           NEW M, M = L \cup {r}
    PROVE  /\ r \notin L
           /\ DueOf(S, M) = DueOf(S, L)
           /\ Inherits(StaleOf(S, L, O), StaleOf(S, M, P), n, r)
<1>1. r \notin L /\ \A e \in S : e.reg # r
  BY DEF Left
<1>2. \A e \in S : e.reg \in M <=> e.reg \in L
  BY <1>1
<1>3. DueOf(S, M) = DueOf(S, L)
  BY <1>1 DEF DueOf
<1>4. P[a] = r /\ \A b \in Addr \ {a} : P[b] = O[b]
  OBVIOUS
<1>5. CASE \A e \in S : e.ptr # a
  <2>1. \A e \in S : P[e.ptr] = O[e.ptr]
    BY <1>4, <1>5 DEF Left
  <2> QED
    BY <1>1, <1>2, <1>3, <2>1 DEF StaleOf, Inherits
<1>6. CASE \E e \in S : e.ptr = a
  <2>1. PICK e \in S : e.ptr = a
    BY <1>6
  <2>2. PICK gone \in 1..n : gone = e.reg
    BY DEF Left
  <2>3. e.reg \notin L
    <3>1. ASSUME e.reg \in L
          PROVE  FALSE
      <4>1. PICK b \in Addr : O[b] = e.reg /\ O[b] # 0
        BY <3>1 DEF Left
      <4> QED
        BY <2>1, <4>1 DEF Left
    <3> QED
      BY <3>1
  <2>4. \A f \in S \ {e} : f.reg # gone /\ f.ptr # a /\ f.ptr \in Addr
    BY <2>1, <2>2 DEF Left
  <2>5. \A f \in S \ {e} : P[f.ptr] = O[f.ptr]
    BY <1>4, <2>4
  <2>6. <<gone, 0>> \in StaleOf(S, L, O)
    BY <2>1, <2>2, <2>3 DEF StaleOf
  <2>7. ASSUME NEW x \in StaleOf(S, M, P)
        PROVE  x \in (StaleOf(S, L, O) \ {<<gone, 0>>}) \cup {<<gone, r>>}
    <3>1. PICK f \in S : f.reg \notin M /\ x = <<f.reg, P[f.ptr]>>
      BY <2>7 DEF StaleOf
    <3>2. CASE f = e
      BY <1>4, <2>1, <2>2, <3>1, <3>2
    <3>3. CASE f # e
      <4>1. f.reg # gone /\ f.reg \notin L /\ x = <<f.reg, O[f.ptr]>>
        BY <1>2, <2>4, <2>5, <3>1, <3>3
      <4>2. x \in StaleOf(S, L, O) /\ x # <<gone, 0>>
        BY <4>1 DEF StaleOf
      <4> QED
        BY <4>2
    <3> QED
      BY <3>2, <3>3
  <2>8. <<gone, r>> \in StaleOf(S, M, P)
    <3>1. e.reg \notin M /\ <<gone, r>> = <<e.reg, P[e.ptr]>>
      BY <1>2, <1>4, <2>1, <2>2, <2>3
    <3> QED
      BY <3>1 DEF StaleOf
  <2>9. ASSUME NEW x \in StaleOf(S, L, O), x # <<gone, 0>>
        PROVE  x \in StaleOf(S, M, P)
    <3>1. PICK f \in S : f.reg \notin L /\ x = <<f.reg, O[f.ptr]>>
      BY <2>9 DEF StaleOf
    <3>2. f # e
      BY <2>1, <2>2, <2>9, <3>1
    <3>3. f.reg \notin M /\ x = <<f.reg, P[f.ptr]>>
      BY <1>2, <2>5, <3>1, <3>2
    <3> QED
      BY <3>3 DEF StaleOf
  <2>10. StaleOf(S, M, P) = (StaleOf(S, L, O) \ {<<gone, 0>>}) \cup {<<gone, r>>}
    BY <2>7, <2>8, <2>9
  <2> QED
    BY <1>1, <1>3, <2>2, <2>6, <2>10 DEF Inherits
<1> QED
  BY <1>5, <1>6

\* The registration r of the handle at a ends.
LEMMA LeftRmv ==
    ASSUME NEW S, NEW L, NEW O, NEW n, Left(S, L, O, n),
           NEW a \in Addr, NEW r, r # 0, O[a] = r, NEW P, P[a] = 0, \A b \in Addr \ {a} : P[b] = O[b],
           NEW M, M = L \ {r}
    PROVE  /\ r \in L
           /\ DueOf(S, M) = DueOf(S, L) \ {r}
           /\ StaleOf(S, M, P) =
                 {<<p[1], IF p[2] = r THEN 0 ELSE p[2]>> : p \in StaleOf(S, L, O)}
                 \cup {<<r, 0>> : gone \in DueOf(S, L) \cap {r}}
<1>1. r \in L
  BY DEF Left
<1>2. DueOf(S, M) = DueOf(S, L) \ {r}
  BY DEF DueOf
<1>3. /\ P[a] = 0 /\ \A b \in Addr \ {a} : P[b] = O[b]
      /\ \A b \in Addr : O[b] = r => b = a
  BY DEF Left
<1>4. \A e \in S : P[e.ptr] = IF O[e.ptr] = r THEN 0 ELSE O[e.ptr]
  BY <1>3 DEF Left
<1> DEFINE T == {<<p[1], IF p[2] = r THEN 0 ELSE p[2]>> : p \in StaleOf(S, L, O)}
           U == {<<r, 0>> : gone \in DueOf(S, L) \cap {r}}
<1>5. ASSUME NEW x \in StaleOf(S, M, P)
      PROVE  x \in T \cup U
  <2>1. PICK e \in S : e.reg \notin M /\ x = <<e.reg, P[e.ptr]>>
    BY <1>5 DEF StaleOf
  <2>2. CASE e.reg = r
    <3>1. P[e.ptr] = 0
      BY <1>3, <2>2 DEF Left
    <3>2. r \in DueOf(S, L)
      BY <1>1, <2>2 DEF DueOf
    <3> QED
      BY <2>1, <2>2, <3>1, <3>2
  <2>3. CASE e.reg # r
    <3>1. e.reg \notin L
      BY <2>1, <2>3
    <3>2. PICK p \in StaleOf(S, L, O) : p = <<e.reg, O[e.ptr]>>
      BY <3>1 DEF StaleOf
    <3>3. x = <<p[1], IF p[2] = r THEN 0 ELSE p[2]>>
      BY <1>4, <2>1, <3>2
    <3> QED
      BY <3>3
  <2> QED
    BY <2>2, <2>3
<1>6. ASSUME NEW x \in T
      PROVE  x \in StaleOf(S, M, P)
  <2>1. PICK p \in StaleOf(S, L, O) : x = <<p[1], IF p[2] = r THEN 0 ELSE p[2]>>
    BY <1>6
  <2>2. PICK e \in S : e.reg \notin L /\ p = <<e.reg, O[e.ptr]>>
    BY DEF StaleOf
  <2>3. e.reg \notin M /\ x = <<e.reg, P[e.ptr]>>
    BY <1>4, <2>1, <2>2
  <2> QED
    BY <2>3 DEF StaleOf
<1>7. ASSUME NEW x \in U
      PROVE  x \in StaleOf(S, M, P)
  <2>1. x = <<r, 0>> /\ r \in DueOf(S, L)
    BY <1>7
  <2>2. PICK e \in S : e.reg = r
    BY <2>1 DEF DueOf
  <2>3. P[e.ptr] = 0 /\ e.reg \notin M
    BY <1>3, <2>2 DEF Left
  <2> QED
    BY <2>1, <2>2, <2>3 DEF StaleOf
<1>8. StaleOf(S, M, P) = T \cup U
  BY <1>5, <1>6, <1>7
<1> QED
  BY <1>1, <1>2, <1>8

\* The event e is scanned.  It is that of the owner of the handle, or that of a
\* registration which is gone.
LEMMA LeftScan ==
    ASSUME NEW S, NEW L, NEW O, NEW n, Left(S, L, O, n),
           NEW e \in S, NEW T, T = S \ {e}
    PROVE  /\ O[e.ptr] = e.reg =>
                 /\ e.reg \in DueOf(S, L) /\ DueOf(T, L) = DueOf(S, L) \ {e.reg}
                 /\ StaleOf(T, L, O) = StaleOf(S, L, O)
           /\ O[e.ptr] # e.reg =>
                 /\ <<e.reg, O[e.ptr]>> \in StaleOf(S, L, O)
                 /\ StaleOf(T, L, O) = StaleOf(S, L, O) \ {<<e.reg, O[e.ptr]>>}
                 /\ DueOf(T, L) = DueOf(S, L)
<1>1. e.ptr \in Addr /\ e.reg \in 1..n /\ \A f \in S : f.reg = e.reg => f = e
  BY DEF Left
<1>2. e.reg \in L <=> O[e.ptr] = e.reg
  <2>1. ASSUME e.reg \in L
        PROVE  O[e.ptr] = e.reg
    <3>1. PICK b \in Addr : O[b] = e.reg
      BY <2>1 DEF Left
    <3> QED
      BY <3>1 DEF Left
  <2>2. ASSUME O[e.ptr] = e.reg
        PROVE  e.reg \in L
    BY <1>1, <2>2 DEF Left
  <2> QED
    BY <2>1, <2>2
<1>3. {f.reg : f \in T} = {f.reg : f \in S} \ {e.reg}
  BY <1>1
<1>4. CASE O[e.ptr] = e.reg
  <2>1. {x \in T : x.reg \notin L} = {x \in S : x.reg \notin L}
    BY <1>2, <1>4
  <2>2. StaleOf(T, L, O) = StaleOf(S, L, O)
    BY <2>1 DEF StaleOf
  <2> QED
    BY <1>2, <1>3, <1>4, <2>2 DEF DueOf
<1>5. CASE O[e.ptr] # e.reg
  <2>1. DueOf(T, L) = DueOf(S, L)
    BY <1>2, <1>3, <1>5 DEF DueOf
  <2>2. <<e.reg, O[e.ptr]>> \in StaleOf(S, L, O)
    BY <1>2, <1>5 DEF StaleOf
  <2>3. ASSUME NEW x \in StaleOf(T, L, O)
        PROVE  x \in StaleOf(S, L, O) /\ x # <<e.reg, O[e.ptr]>>
    <3>1. PICK f \in T : f.reg \notin L /\ x = <<f.reg, O[f.ptr]>>
      BY <2>3 DEF StaleOf
    <3>2. f \in S /\ f.reg # e.reg
      BY <1>1
    <3> QED
      BY <3>1, <3>2 DEF StaleOf
  <2>4. ASSUME NEW x \in StaleOf(S, L, O), x # <<e.reg, O[e.ptr]>>
        PROVE  x \in StaleOf(T, L, O)
    <3>1. PICK f \in S : f.reg \notin L /\ x = <<f.reg, O[f.ptr]>>
      BY <2>4 DEF StaleOf
    <3>2. f \in T
      BY <2>4, <3>1
    <3> QED
      BY <3>1, <3>2 DEF StaleOf
  <2>5. StaleOf(T, L, O) = StaleOf(S, L, O) \ {<<e.reg, O[e.ptr]>>}
    BY <2>3, <2>4
  <2> QED
    BY <1>5, <2>1, <2>2, <2>5
<1> QED
  BY <1>4, <1>5

-----------------------------------------------------------------------------
(* Rounds *)

\* Registrations have numbers of their own.  Of the events of a round each is of
\* another registration and another handle, and one whose registration is still
\* there points to the handle of it.
RoundInv ==
    /\ \A a \in Addr : hand[a].magic => hand[a].reg \in 1..regs
    /\ \A a, b \in Addr :
          (hand[a].magic /\ hand[b].magic /\ hand[a].reg = hand[b].reg) => a = b
    /\ \A i \in 1..Len(events) :
          /\ events[i].reg \in 1..regs
          /\ \A a \in Addr : hand[a].magic /\ hand[a].reg = events[i].reg
                                => a = events[i].ptr
    /\ \A i, j \in 1..Len(events) :
          i # j => events[i].reg # events[j].reg /\ events[i].ptr # events[j].ptr

Owners == [a \in Addr |-> Owner(a)]

\* The live registrations are those of the handles.
LEMMA LiveHandles ==
    ASSUME TableInv, NEW r
    PROVE  r \in Live <=> \E a \in Addr : hand[a].magic /\ hand[a].reg = r
<1>1. hdTb \in [Fd -> Addr \cup {NoAddr}]
  BY DEF TableInv, TypeOK
<1>2. /\ \A fd \in Fd : hdTb[fd] # NoAddr => hand[hdTb[fd]].magic
      /\ \A a \in Addr : hand[a].magic => hand[a].fd \in Fd /\ hdTb[hand[a].fd] = a
  BY DEF TableInv, Handles
<1>3. ASSUME r \in Live
      PROVE  \E a \in Addr : hand[a].magic /\ hand[a].reg = r
  <2>1. PICK fd \in Fd : hdTb[fd] # NoAddr /\ r = hand[hdTb[fd]].reg
    BY <1>3 DEF Live
  <2>2. hdTb[fd] \in Addr
    BY <1>1, <2>1
  <2> QED
    BY <1>2, <2>1, <2>2
<1>4. ASSUME NEW a \in Addr, hand[a].magic, hand[a].reg = r
      PROVE  r \in Live
  <2>1. hand[a].fd \in Fd /\ hdTb[hand[a].fd] = a
    BY <1>2, <1>4
  <2>2. a # NoAddr
    BY EpollAssumption
  <2> QED
    BY <1>4, <2>1, <2>2 DEF Live
<1> QED
  BY <1>3, <1>4

LEMMA LiveHandlesNext ==
    ASSUME TableInv', NEW r
    PROVE  r \in Live' <=> \E a \in Addr : hand'[a].magic /\ hand'[a].reg = r
<1>1. hdTb' \in [Fd -> Addr \cup {NoAddr}]
  BY DEF TableInv, TypeOK
<1>2. /\ \A fd \in Fd : hdTb'[fd] # NoAddr => hand'[hdTb'[fd]].magic
      /\ \A a \in Addr : hand'[a].magic => hand'[a].fd \in Fd /\ hdTb'[hand'[a].fd] = a
  BY DEF TableInv, Handles
<1>3. ASSUME r \in Live'
      PROVE  \E a \in Addr : hand'[a].magic /\ hand'[a].reg = r
  <2>1. PICK fd \in Fd : hdTb'[fd] # NoAddr /\ r = hand'[hdTb'[fd]].reg
    BY <1>3 DEF Live
  <2>2. hdTb'[fd] \in Addr
    BY <1>1, <2>1
  <2> QED
    BY <1>2, <2>1, <2>2
<1>4. ASSUME NEW a \in Addr, hand'[a].magic, hand'[a].reg = r
      PROVE  r \in Live'
  <2>1. hand'[a].fd \in Fd /\ hdTb'[hand'[a].fd] = a
    BY <1>2, <1>4
  <2>2. a # NoAddr
    BY EpollAssumption
  <2> QED
    BY <1>4, <2>1, <2>2 DEF Live
<1> QED
  BY <1>3, <1>4

\* The mapping in the words of Left.
LEMMA MapIs ==
    ASSUME TableInv, RoundInv
    PROVE  /\ Left(ToScan, Live, Owners, regs) /\ regs \in Nat /\ regs <= MaxAdd
           /\ Due = DueOf(ToScan, Live) /\ Stale = StaleOf(ToScan, Live, Owners)
<1>1. regs \in 0..MaxAdd /\ events \in Seq(Event) /\ MaxAdd \in Nat
  BY EpollAssumption DEF TableInv, TypeOK
<1>2. \A e \in ToScan : \E i \in 1..Len(events) : e = events[i]
  BY <1>1 DEF ToScan
<1>3. \A e \in ToScan : e.ptr \in Addr
  <2>1. \A x \in Event : x.ptr \in Addr
    BY DEF Event
  <2>2. \A i \in 1..Len(events) : events[i] \in Event
    BY <1>1
  <2> QED
    BY <1>2, <2>1, <2>2
<1>4. Owners \in [Addr -> 0..regs]
  BY <1>1 DEF RoundInv, Owners, Owner
<1>5. \A a \in Addr : Owners[a] = IF hand[a].magic THEN hand[a].reg ELSE 0
  BY DEF Owners, Owner
<1>6. \A a \in Addr : hand[a].magic => hand[a].reg # 0
  BY <1>1 DEF RoundInv
<1>7. Live = {Owners[a] : a \in Addr} \ {0}
  <2>1. ASSUME NEW r
        PROVE  r \in Live <=> r \in {Owners[a] : a \in Addr} \ {0}
    <3>1. r \in Live <=> \E a \in Addr : hand[a].magic /\ hand[a].reg = r
      BY LiveHandles
    <3> QED
      BY <3>1, <1>5, <1>6
  <2> QED
    BY <2>1
<1>8. \A a, b \in Addr : Owners[a] = Owners[b] /\ Owners[a] # 0 => a = b
  BY <1>5 DEF RoundInv
<1>9. \A e \in ToScan : e.reg \in 1..regs /\ \A a \in Addr : Owners[a] = e.reg => a = e.ptr
  <2> SUFFICES ASSUME NEW e \in ToScan
               PROVE  e.reg \in 1..regs /\ \A a \in Addr : Owners[a] = e.reg => a = e.ptr
    OBVIOUS
  <2>1. PICK i \in 1..Len(events) : e = events[i]
    BY <1>2
  <2>2. e.reg \in 1..regs /\ e.reg # 0
    BY <1>1, <2>1 DEF RoundInv
  <2> QED
    BY <1>5, <2>1, <2>2 DEF RoundInv
<1>10. \A e, f \in ToScan : e.reg = f.reg \/ e.ptr = f.ptr => e = f
  <2> SUFFICES ASSUME NEW e \in ToScan, NEW f \in ToScan, e.reg = f.reg \/ e.ptr = f.ptr
               PROVE  e = f
    OBVIOUS
  <2>1. PICK i \in 1..Len(events) : e = events[i]
    BY <1>2
  <2>2. PICK j \in 1..Len(events) : f = events[j]
    BY <1>2
  <2>3. i = j
    BY <2>1, <2>2 DEF RoundInv
  <2> QED
    BY <2>1, <2>2, <2>3
<1>11. Stale = StaleOf(ToScan, Live, Owners)
  BY <1>3 DEF Stale, StaleOf, Owners
<1> QED
  BY <1>1, <1>3, <1>4, <1>7, <1>8, <1>9, <1>10, <1>11 DEF Left, Due, DueOf

LEMMA MapIsNext ==
    ASSUME TableInv'
    PROVE  Due' = DueOf(ToScan', Live') /\ Stale' = StaleOf(ToScan', Live', Owners')
<1>1. events' \in Seq(Event)
  BY DEF TableInv, TypeOK
<1>2. \A e \in ToScan' : e.ptr \in Addr
  <2>1. \A x \in Event : x.ptr \in Addr
    BY DEF Event
  <2>2. \A i \in 1..Len(events') : events'[i] \in Event
    BY <1>1
  <2>3. \A e \in ToScan' : \E i \in 1..Len(events') : e = events'[i]
    BY <1>1 DEF ToScan
  <2> QED
    BY <2>1, <2>2, <2>3
<1>3. \A e \in ToScan' : Owners'[e.ptr] = Owner(e.ptr)'
  BY <1>2 DEF Owners
<1> QED
  BY <1>3 DEF Due, DueOf, Stale, StaleOf

LEMMA RoundInit == Init => RoundInv
BY DEF Init, RoundInv

\* A registration is new and live, and may inherit from one that is gone.
LEMMA AddRound ==
    ASSUME TableInv, RoundInv, NEW fd \in Fd, NEW a \in Addr, Add(fd, a)
    PROVE  RoundInv' /\ Loop!LRegister(regs + 1)
<1>1. TableInv'
  BY AddTable
<1>2. ~hand[a].magic
  BY DEF Add, CallocFrom
<1>3. /\ hand'[a].magic /\ hand'[a].reg = regs + 1
      /\ \A b \in Addr \ {a} : hand'[b] = hand[b]
  BY DEF TableInv, TypeOK, Add
<1>4. regs \in Nat /\ regs' = regs + 1 /\ events' = events /\ called' = called
  BY EpollAssumption DEF TableInv, TypeOK, Add
<1>5. RoundInv'
  <2>1. \A b \in Addr : hand'[b].magic => hand'[b].reg \in 1..regs'
    BY <1>3, <1>4 DEF RoundInv
  <2>2. \A b \in Addr \ {a} : hand'[b].magic => hand'[b].reg # regs + 1
    BY <1>3, <1>4 DEF RoundInv
  <2>3. \A b, c \in Addr :
           (hand'[b].magic /\ hand'[c].magic /\ hand'[b].reg = hand'[c].reg) => b = c
    BY <1>3, <2>2 DEF RoundInv
  <2>4. \A i \in 1..Len(events) : events[i].reg \in 1..regs' /\ events[i].reg # regs + 1
    BY <1>4 DEF RoundInv
  <2>5. \A i \in 1..Len(events) : \A b \in Addr :
           hand'[b].magic /\ hand'[b].reg = events[i].reg => b = events[i].ptr
    BY <1>3, <2>4 DEF RoundInv
  <2>6. \A i, j \in 1..Len(events) :
           i # j => events[i].reg # events[j].reg /\ events[i].ptr # events[j].ptr
    BY DEF RoundInv
  <2> QED
    BY <1>4, <2>1, <2>3, <2>4, <2>5, <2>6 DEF RoundInv
<1>6. PICK S, L, O : S = ToScan /\ L = Live /\ O = Owners
  OBVIOUS
<1>7. PICK M, P : M = Live' /\ P = Owners'
  OBVIOUS
<1>8. Left(S, L, O, regs) /\ O[a] = 0
  BY <1>2, <1>6, MapIs DEF Owners, Owner
<1>9. ToScan' = S
  BY <1>4, <1>6 DEF ToScan
<1>10. P[a] = regs + 1 /\ \A b \in Addr \ {a} : P[b] = O[b]
  BY <1>3, <1>6, <1>7 DEF Owners, Owner
<1>11. M = L \cup {regs + 1}
  <2>1. \A r : r \in Live' <=> \E b \in Addr : hand'[b].magic /\ hand'[b].reg = r
    BY <1>1, LiveHandlesNext
  <2>2. \A r : r \in Live <=> \E b \in Addr : hand[b].magic /\ hand[b].reg = r
    BY LiveHandles
  <2>3. \A r : r \in Live' <=> r \in Live \/ r = regs + 1
    BY <2>1, <2>2, <1>2, <1>3
  <2> QED
    BY <2>3, <1>6, <1>7
<1>12. PICK n, r : n = regs /\ r = regs + 1
  OBVIOUS
<1>13. /\ r \notin L /\ DueOf(S, M) = DueOf(S, L)
       /\ Inherits(StaleOf(S, L, O), StaleOf(S, M, P), n, r)
  <2>1. r \notin 1..n /\ r # 0 /\ Left(S, L, O, n) /\ O[a] = 0
    BY <1>4, <1>8, <1>12
  <2>2. /\ P[a] = r /\ M = L \cup {r}
        /\ \A b \in Addr \ {a} : P[b] = O[b]
    BY <1>10, <1>11, <1>12
  <2> QED
    BY <2>1, <2>2, LeftAdd
<1>14. /\ Due = DueOf(S, L) /\ Stale = StaleOf(S, L, O)
       /\ Due' = DueOf(S, M) /\ Stale' = StaleOf(S, M, P)
  BY <1>1, <1>6, <1>7, <1>9, MapIs, MapIsNext
<1>15. 1..regs \subseteq 1..MaxAdd
  BY MapIs, EpollAssumption
<1>16. Loop!Register(regs + 1)
  BY <1>4, <1>6, <1>7, <1>11, <1>12, <1>13, <1>14 DEF Loop!Register
<1>17. Stale' = Stale \/ \E gone \in 1..MaxAdd :
                            /\ <<gone, 0>> \in Stale
                            /\ Stale' = (Stale \ {<<gone, 0>>}) \cup {<<gone, regs + 1>>}
  BY <1>12, <1>13, <1>14, <1>15 DEF Inherits
<1> QED
  BY <1>5, <1>16, <1>17 DEF Loop!LRegister

\* A registration ends: it is served no more, whether it had an event or not.
LEMMA RmvRound ==
    ASSUME TableInv, RoundInv, NEW fd \in Fd, Rmv(fd)
    PROVE  RoundInv' /\ \E r \in 1..MaxAdd : Loop!LUnregister(r)
<1>1. TableInv'
  BY RmvTable
<1>2. PICK a \in Addr, r \in 1..regs : a = hdTb[fd] /\ hand[a].magic /\ r = hand[a].reg
  BY DEF TableInv, TypeOK, Handles, Rmv, Known, RoundInv
<1>3. /\ ~hand'[a].magic
      /\ \A b \in Addr \ {a} : hand'[b] = hand[b]
  BY <1>2 DEF TableInv, TypeOK, Rmv, Hand
<1>4. regs' = regs /\ events' = events /\ called' = called
  BY DEF Rmv
<1>5. RoundInv'
  BY <1>3, <1>4 DEF RoundInv
<1>6. PICK S, L, O : S = ToScan /\ L = Live /\ O = Owners
  OBVIOUS
<1>7. PICK M, P : M = Live' /\ P = Owners'
  OBVIOUS
<1>8. Left(S, L, O, regs) /\ regs \in Nat /\ O[a] = r
  BY <1>2, <1>6, MapIs DEF Owners, Owner
<1>9. ToScan' = S
  BY <1>4, <1>6 DEF ToScan
<1>10. P[a] = 0 /\ \A b \in Addr \ {a} : P[b] = O[b]
  BY <1>3, <1>6, <1>7 DEF Owners, Owner
<1>11. M = L \ {r}
  <2>1. \A x : x \in Live' <=> \E b \in Addr : hand'[b].magic /\ hand'[b].reg = x
    BY <1>1, LiveHandlesNext
  <2>2. \A x : x \in Live <=> \E b \in Addr : hand[b].magic /\ hand[b].reg = x
    BY LiveHandles
  <2>3. \A b \in Addr : hand[b].magic /\ b # a => hand[b].reg # r
    BY <1>2 DEF RoundInv
  <2>4. \A x : x \in Live' <=> x \in Live /\ x # r
    BY <2>1, <2>2, <2>3, <1>2, <1>3
  <2> QED
    BY <2>4, <1>6, <1>7
<1>13. /\ r \in L
       /\ DueOf(S, M) = DueOf(S, L) \ {r}
       /\ StaleOf(S, M, P) =
             {<<p[1], IF p[2] = r THEN 0 ELSE p[2]>> : p \in StaleOf(S, L, O)}
             \cup {<<r, 0>> : gone \in DueOf(S, L) \cap {r}}
  <2>1. r # 0
    BY <1>8
  <2> QED
    BY <1>8, <1>10, <1>11, <2>1, LeftRmv
<1>14. /\ Due = DueOf(S, L) /\ Stale = StaleOf(S, L, O)
       /\ Due' = DueOf(S, M) /\ Stale' = StaleOf(S, M, P)
  BY <1>1, <1>6, <1>7, <1>9, MapIs, MapIsNext
<1>15. r \in 1..MaxAdd
  BY MapIs, EpollAssumption
<1>16. Loop!Unregister(r)
  BY <1>4, <1>6, <1>7, <1>11, <1>13, <1>14 DEF Loop!Unregister
<1>17. Stale' = {<<p[1], IF p[2] = r THEN 0 ELSE p[2]>> : p \in Stale}
                \cup {<<r, 0>> : gone \in Due \cap {r}}
  BY <1>13, <1>14
<1> QED
  BY <1>5, <1>15, <1>16, <1>17 DEF Loop!LUnregister

\* A round begins: what epoll_wait returned is due.
LEMMA WaitRound ==
    ASSUME TableInv, RoundInv, EpollWait
    PROVE  RoundInv' /\ \E s \in SUBSET Live : Loop!LReport(s)
<1>1. hdTb' = hdTb /\ hand' = hand /\ regs' = regs /\ called' = called
  BY DEF EpollWait
<1>2. events = <<>> /\ called = 0
  BY DEF EpollWait
<1>3. events' \in Seq(Event)
  BY WaitEvents DEF TableInv
<1>4. \A i \in 1..Len(events') :
         /\ events'[i].ptr \in Addr /\ hand[events'[i].ptr].magic
         /\ events'[i].reg = hand[events'[i].ptr].reg
  <2> SUFFICES ASSUME NEW i \in 1..Len(events')
               PROVE  /\ events'[i].ptr \in Addr /\ hand[events'[i].ptr].magic
                      /\ events'[i].reg = hand[events'[i].ptr].reg
    OBVIOUS
  <2>1. events'[i] \in Event
    BY <1>3
  <2>2. PICK fd \in Fd : hdTb[fd] = events'[i].ptr
    BY WaitEvents DEF TableInv
  <2>3. events'[i].ptr \in Addr \ {NoAddr}
    BY <2>1, EpollAssumption DEF Event
  <2>4. hand[events'[i].ptr].magic
    BY <2>2, <2>3 DEF TableInv, Handles
  <2> QED
    BY <2>3, <2>4, WaitEvents DEF TableInv
<1>5. \A i, j \in 1..Len(events') : i # j => events'[i].ptr # events'[j].ptr
  BY WaitEvents DEF TableInv
<1>6. RoundInv'
  BY <1>1, <1>4, <1>5 DEF RoundInv
<1>7. Live' = Live /\ ToScan = {}
  BY <1>1, <1>2 DEF Live, ToScan
<1>8. \A e \in ToScan' : e.reg \in Live
  <2>1. \A i \in 1..Len(events') : events'[i].reg \in Live
    BY <1>4, LiveHandles
  <2>2. ToScan' = {events'[i] : i \in 1..Len(events')}
    BY <1>1, <1>2 DEF ToScan
  <2> QED
    BY <2>1, <2>2
<1>9. Due = {} /\ Stale = {} /\ Due' \subseteq Live /\ Stale' = {}
  BY <1>7, <1>8 DEF Due, Stale
<1> QED
  BY <1>1, <1>2, <1>6, <1>7, <1>9 DEF Loop!LReport, Loop!Report

\* The events left when the first of them is done with.
LEMMA RestOfRound ==
    ASSUME TableInv, RoundInv, events # <<>>, events' = Tail(events),
           hand' = hand, regs' = regs
    PROVE  RoundInv'
<1>1. /\ Len(Tail(events)) = Len(events) - 1
      /\ \A i \in 1..Len(Tail(events)) : Tail(events)[i] = events[i + 1]
      /\ Len(events) \in Nat
  BY DEF TableInv, TypeOK
<1> QED
  BY <1>1 DEF RoundInv

\* Between callbacks the first event is to scan; then the others are left.
LEMMA FirstEvent ==
    ASSUME TableInv, RoundInv, called = 0, events # <<>>
    PROVE  /\ Head(events) \in ToScan
           /\ {events[i] : i \in 2..Len(events)} = ToScan \ {Head(events)}
           /\ {Tail(events)[i] : i \in 1..Len(Tail(events))}
                 = {events[i] : i \in 2..Len(events)}
<1>1. events \in Seq(Event) /\ Len(events) \in Nat /\ Len(events) >= 1
  BY DEF TableInv, TypeOK
<1>2. Head(events) = events[1] /\ ToScan = {events[i] : i \in 1..Len(events)}
  BY <1>1 DEF ToScan
<1>3. Head(events) \in ToScan
  BY <1>1, <1>2
<1>4. ASSUME NEW i \in 2..Len(events)
      PROVE  events[i] \in ToScan /\ events[i] # events[1]
  <2>1. i \in 1..Len(events) /\ 1 \in 1..Len(events) /\ i # 1
    BY <1>1
  <2>2. events[i].reg # events[1].reg
    BY <2>1 DEF RoundInv
  <2> QED
    BY <1>2, <2>1, <2>2
<1>5. ASSUME NEW e \in ToScan, e # events[1]
      PROVE  e \in {events[i] : i \in 2..Len(events)}
  <2>1. PICK i \in 1..Len(events) : e = events[i]
    BY <1>2
  <2>2. i \in 2..Len(events)
    BY <1>1, <1>5, <2>1
  <2> QED
    BY <2>1, <2>2
<1>6. {events[i] : i \in 2..Len(events)} = ToScan \ {events[1]}
  BY <1>4, <1>5
<1>7. /\ Len(Tail(events)) = Len(events) - 1
      /\ \A i \in 1..Len(Tail(events)) : Tail(events)[i] = events[i + 1]
  BY <1>1
<1>8. {Tail(events)[i] : i \in 1..Len(Tail(events))} = {events[i] : i \in 2..Len(events)}
  <2>1. ASSUME NEW i \in 1..Len(Tail(events))
        PROVE  Tail(events)[i] \in {events[j] : j \in 2..Len(events)}
    <3>1. i + 1 \in 2..Len(events)
      BY <1>1, <1>7
    <3> QED
      BY <1>7, <3>1
  <2>2. ASSUME NEW i \in 2..Len(events)
        PROVE  events[i] \in {Tail(events)[j] : j \in 1..Len(Tail(events))}
    <3>1. i - 1 \in 1..Len(Tail(events)) /\ (i - 1) + 1 = i
      BY <1>1, <1>7
    <3> QED
      BY <1>7, <3>1
  <2> QED
    BY <2>1, <2>2
<1> QED
  BY <1>2, <1>3, <1>6, <1>8

\* The first event is called or passed over: T is left to scan.
LEMMA Scanned ==
    ASSUME TableInv, TableInv', RoundInv, called = 0, events # <<>>,
           hdTb' = hdTb, hand' = hand, ToScan' = ToScan \ {Head(events)},
           NEW reg, reg = Head(events).reg, NEW heir, heir = Owner(Head(events).ptr)
    PROVE  /\ Live' = Live /\ reg \in 1..MaxAdd /\ Head(events).ptr \in Addr
           /\ heir = reg => reg \in Due /\ Due' = Due \ {reg} /\ Stale' = Stale
           /\ heir # reg => /\ <<reg, heir>> \in Stale /\ Due' = Due
                            /\ Stale' = Stale \ {<<reg, heir>>}
<1>1. PICK S, L, O, e, T : /\ S = ToScan /\ L = Live /\ O = Owners /\ e = Head(events)
                           /\ T = ToScan'
  OBVIOUS
<1>2. Live' = L /\ Owners' = O
  BY <1>1 DEF Live, Owners, Owner
<1>3. Left(S, L, O, regs) /\ regs \in Nat /\ regs <= MaxAdd
  BY <1>1, MapIs
<1>4. e \in S /\ T = S \ {e}
  BY <1>1, FirstEvent
<1>5. e.ptr \in Addr /\ e.reg \in 1..regs
  BY <1>3, <1>4 DEF Left
<1>6. reg = e.reg /\ heir = O[e.ptr]
  BY <1>1, <1>5 DEF Owners
<1>8. /\ O[e.ptr] = e.reg =>
            /\ e.reg \in DueOf(S, L) /\ DueOf(T, L) = DueOf(S, L) \ {e.reg}
            /\ StaleOf(T, L, O) = StaleOf(S, L, O)
      /\ O[e.ptr] # e.reg =>
            /\ <<e.reg, O[e.ptr]>> \in StaleOf(S, L, O)
            /\ StaleOf(T, L, O) = StaleOf(S, L, O) \ {<<e.reg, O[e.ptr]>>}
            /\ DueOf(T, L) = DueOf(S, L)
  BY <1>3, <1>4, LeftScan
<1>9. /\ Due = DueOf(S, L) /\ Stale = StaleOf(S, L, O)
      /\ Due' = DueOf(T, L) /\ Stale' = StaleOf(T, L, O)
  BY <1>1, <1>2, MapIs, MapIsNext
<1>10. reg \in 1..MaxAdd
  BY <1>3, <1>5, <1>6, EpollAssumption
<1> QED
  BY <1>1, <1>2, <1>5, <1>6, <1>8, <1>9, <1>10

\* The callback of the handle of the first event is called.
LEMMA CallRound ==
    ASSUME TableInv, RoundInv, ScanCall
    PROVE  /\ RoundInv'
           /\ \/ \E r \in 1..MaxAdd : Loop!LDeliver(r)
              \/ \E gone, heir \in 1..MaxAdd : Loop!Mistake(gone, heir)
<1>1. TableInv'
  BY ScanTable
<1>2. /\ events # <<>> /\ called = 0 /\ hand[Head(events).ptr].magic
      /\ called' = hand[Head(events).ptr].reg
      /\ hdTb' = hdTb /\ hand' = hand /\ regs' = regs /\ events' = events
  BY DEF ScanCall, Valid
<1>3. PICK reg, heir : reg = Head(events).reg /\ heir = Owner(Head(events).ptr)
  OBVIOUS
<1>4. Head(events).ptr \in Addr
  <2>1. events \in Seq(Event)
    BY DEF TableInv, TypeOK
  <2>2. Head(events) \in Event
    BY <1>2, <2>1
  <2> QED
    BY <2>2 DEF Event
<1>5. called' = heir /\ heir \in 1..MaxAdd /\ called' # 0
  BY <1>2, <1>3, <1>4, EpollAssumption DEF Owner, RoundInv, TableInv, TypeOK
<1>6. ToScan' = ToScan \ {Head(events)}
  <2>1. ToScan' = {events[i] : i \in 2..Len(events)}
    BY <1>2, <1>5 DEF ToScan
  <2> QED
    BY <2>1, <1>2, FirstEvent
<1>7. RoundInv'
  BY <1>2 DEF RoundInv
<1>8. /\ Live' = Live /\ reg \in 1..MaxAdd
      /\ heir = reg => reg \in Due /\ Due' = Due \ {reg} /\ Stale' = Stale
      /\ heir # reg => /\ <<reg, heir>> \in Stale /\ Due' = Due
                       /\ Stale' = Stale \ {<<reg, heir>>}
  BY <1>1, <1>2, <1>3, <1>6, Scanned
<1>9. CASE heir = reg
  <2>1. Loop!LDeliver(reg)
    BY <1>2, <1>5, <1>8, <1>9 DEF Loop!LDeliver, Loop!Deliver
  <2> QED
    BY <1>7, <1>8, <2>1
<1>10. CASE heir # reg
  <2>1. Loop!Mistake(reg, heir)
    BY <1>2, <1>5, <1>8, <1>10 DEF Loop!Mistake
  <2> QED
    BY <1>5, <1>7, <1>8, <2>1
<1> QED
  BY <1>9, <1>10

\* An event of a registration that is gone is passed over.
LEMMA PassRound ==
    ASSUME TableInv, RoundInv, ScanPass
    PROVE  RoundInv' /\ \E r \in 1..MaxAdd : Loop!Drop(r)
<1>1. TableInv'
  BY ScanTable
<1>2. /\ events # <<>> /\ called = 0 /\ ~hand[Head(events).ptr].magic
      /\ events' = Tail(events)
      /\ hdTb' = hdTb /\ hand' = hand /\ regs' = regs /\ called' = called
  BY DEF ScanPass, Valid
<1>3. PICK reg, heir : reg = Head(events).reg /\ heir = Owner(Head(events).ptr)
  OBVIOUS
<1>4. heir = 0
  BY <1>2, <1>3 DEF Owner
<1>5. ToScan' = ToScan \ {Head(events)}
  <2>1. ToScan' = {Tail(events)[i] : i \in 1..Len(Tail(events))}
    BY <1>2 DEF ToScan
  <2> QED
    BY <2>1, <1>2, FirstEvent
<1>6. /\ Live' = Live /\ reg \in 1..MaxAdd
      /\ heir # reg => /\ <<reg, heir>> \in Stale /\ Due' = Due
                       /\ Stale' = Stale \ {<<reg, heir>>}
  BY <1>1, <1>2, <1>3, <1>5, Scanned
<1>7. Loop!Drop(reg)
  BY <1>2, <1>4, <1>6 DEF Loop!Drop, Loop!vars
<1> QED
  BY <1>2, <1>6, <1>7, RestOfRound

LEMMA ReturnRound ==
    ASSUME TableInv, RoundInv, CallbackReturns
    PROVE  RoundInv' /\ Loop!LReturn
<1>1. /\ called # 0 /\ called' = 0 /\ events' = Tail(events)
      /\ hdTb' = hdTb /\ hand' = hand /\ regs' = regs
  BY DEF CallbackReturns
<1>2. events # <<>> /\ events \in Seq(Event)
  BY <1>1 DEF TableInv, TypeOK
<1>3. ToScan' = ToScan
  <2>1. /\ Len(Tail(events)) = Len(events) - 1 /\ Len(events) \in Nat
        /\ \A i \in 1..Len(Tail(events)) : Tail(events)[i] = events[i + 1]
    BY <1>2
  <2>2. ASSUME NEW i \in 1..Len(Tail(events))
        PROVE  Tail(events)[i] \in {events[j] : j \in 2..Len(events)}
    <3>1. i + 1 \in 2..Len(events)
      BY <2>1
    <3> QED
      BY <2>1, <3>1
  <2>3. ASSUME NEW i \in 2..Len(events)
        PROVE  events[i] \in {Tail(events)[j] : j \in 1..Len(Tail(events))}
    <3>1. i - 1 \in 1..Len(Tail(events)) /\ (i - 1) + 1 = i
      BY <2>1
    <3> QED
      BY <2>1, <3>1
  <2>4. {Tail(events)[j] : j \in 1..Len(Tail(events))} = {events[j] : j \in 2..Len(events)}
    BY <2>2, <2>3
  <2> QED
    BY <1>1, <2>4 DEF ToScan
<1>4. Live' = Live /\ Due' = Due /\ Stale' = Stale
  BY <1>1, <1>3 DEF Live, Due, Stale, Owner
<1>5. Loop!LReturn
  BY <1>1, <1>4 DEF Loop!LReturn, Loop!Return
<1> QED
  BY <1>1, <1>2, <1>5, RestOfRound

\* Every step is a step of the event loop or leaves it alone.
LEMMA StepServes ==
    ASSUME TableInv, RoundInv, [Next]_vars
    PROVE  RoundInv' /\ [Loop!LNext]_(Loop!lvars)
<1>1. ASSUME NEW fd \in Fd, NEW a \in Addr, Add(fd, a)
      PROVE  RoundInv' /\ Loop!LNext
  <2>1. regs + 1 \in 1..MaxAdd
    BY <1>1, EpollAssumption DEF TableInv, TypeOK, Add
  <2> QED
    BY <1>1, <2>1, AddRound DEF Loop!LNext
<1>2. ASSUME NEW fd \in Fd, Rmv(fd)
      PROVE  RoundInv' /\ Loop!LNext
  BY <1>2, RmvRound DEF Loop!LNext
<1>3. ASSUME EpollWait PROVE RoundInv' /\ Loop!LNext
  BY <1>3, WaitRound DEF Loop!LNext
<1>4. ASSUME ScanCall PROVE RoundInv' /\ Loop!LNext
  BY <1>4, CallRound DEF Loop!LNext
<1>5. ASSUME ScanPass PROVE RoundInv' /\ Loop!LNext
  BY <1>5, PassRound DEF Loop!LNext
<1>6. ASSUME CallbackReturns PROVE RoundInv' /\ Loop!LNext
  BY <1>6, ReturnRound DEF Loop!LNext
<1>7. ASSUME UNCHANGED vars PROVE RoundInv' /\ UNCHANGED Loop!lvars
  BY <1>7 DEF vars, RoundInv, Loop!lvars, Loop!vars, Live, ToScan, Due, Stale, Owner
<1> QED
  BY <1>1, <1>2, <1>3, <1>4, <1>5, <1>6, <1>7 DEF Next

LEMMA InitServes == Init => Loop!LInit
<1> SUFFICES ASSUME Init PROVE Loop!LInit
  OBVIOUS
<1>1. Live = {} /\ ToScan = {}
  BY DEF Init, Live, ToScan
<1> QED
  BY <1>1 DEF Init, Loop!LInit, Loop!Init, Due, Stale

\* Whatever callbacks add and remove, and wherever calloc puts new handles, each
\* registration that epoll_wait reports is served once in the round unless it is
\* removed, and no other is served but one that was made in the round and got
\* the handle of one that was removed in it.
THEOREM RoundsServed == Spec => ServesRounds
<1>1. TableInv /\ RoundInv /\ [Next]_vars => RoundInv' /\ [Loop!LNext]_(Loop!lvars)
  BY StepServes
<1> QED
  BY <1>1, TableInit, TableNext, RoundInit, InitServes, PTL DEF Spec, ServesRounds, Loop!LSpec

-----------------------------------------------------------------------------
(* The walk *)

\* Entries before that of descriptor d when the counter is w and the table
\* has s entries, if the counter does not wrap.
Ahead(w, d, s) == IF w % s <= d THEN d - (w % s) ELSE d - (w % s) + s

Straight(w, d, s) == w + Ahead(w, d, s) < UIntMax

\* Entries before that of d, whether it wraps or not.
Before(w, d, s) == IF Straight(w, d, s) THEN Ahead(w, d, s) ELSE UIntMax - w + d

\* Descriptor d was passed over m times and has its turn in time.  While the
\* table is as large as it began, either the counter has wrapped and is
\* before d, or m is small enough for the jumps that are still to come.
Waits(m, w, d, s) ==
    /\ m + Before(w, d, s) <= 2 * s - 2
    /\ s = SzPoll =>
          \/ w <= d
          \/ Straight(w, d, s) /\ m + Ahead(w, d, s) < SzPoll
          \/ ~Straight(w, d, s) /\ m + (UIntMax - w) < SzPoll

WalkInv ==
    /\ walkrr \in 0..(UIntMax - 1) /\ missed \in Nat /\ watched \in Fd
    /\ szTb \in {SzPoll, 2 * SzPoll}
    /\ hdTb[watched] = NoAddr => missed = 0
    /\ hdTb[watched] # NoAddr => Waits(missed, walkrr, watched, szTb)

\* The remainder of a division is determined.
LEMMA OneRemainder ==
    ASSUME NEW s \in Nat, NEW a \in Int, NEW b \in Int,
           NEW p \in 0..(s-1), NEW q \in 0..(s-1), s * a + p = s * b + q
    PROVE  p = q
<1>1. s * (a - b) = q - p
  OBVIOUS
<1>2. CASE a - b >= 1
  <2>1. s * (a - b) >= s
    BY <1>2
  <2> QED
    BY <1>1, <2>1
<1>3. CASE a - b <= -1
  <2>1. s * (a - b) <= -s
    BY <1>3
  <2> QED
    BY <1>1, <2>1
<1>4. CASE a - b = 0
  BY <1>4
<1> QED
  BY <1>2, <1>3, <1>4

\* The next entry of a table, and the first ones.
LEMMA NextEntry ==
    ASSUME NEW s \in Nat \ {0}, NEW w \in Nat
    PROVE  /\ w % s \in 0..(s-1)
           /\ w < s => w % s = w
           /\ (w + 1) % s = IF w % s = s - 1 THEN 0 ELSE (w % s) + 1
<1>1. w % s \in 0..(s-1) /\ (w < s => w % s = w)
  OBVIOUS
<1>2. PICK a, b \in Int : w = s * a + (w % s) /\ w + 1 = s * b + ((w + 1) % s)
  <2>1. ASSUME NEW x \in Nat
        PROVE  x \div s \in Int /\ x = s * (x \div s) + (x % s)
    OBVIOUS
  <2>2. w + 1 \in Nat
    OBVIOUS
  <2> QED
    BY <2>1, <2>2
<1>3. (w + 1) % s \in 0..(s-1)
  OBVIOUS
<1>4. PICK p, q \in 0..(s-1) : p = w % s /\ q = (w + 1) % s
  BY <1>1, <1>3
<1>5. s * a + p + 1 = s * b + q
  BY <1>2, <1>4
<1>6. CASE p = s - 1
  <2>1. s * (a + 1) + 0 = s * b + q
    <3>1. s * (a + 1) = s * a + s
      OBVIOUS
    <3> QED
      BY <1>5, <1>6, <3>1
  <2>2. 0 \in 0..(s-1) /\ a + 1 \in Int
    OBVIOUS
  <2>3. 0 = q
    BY <2>1, <2>2, OneRemainder
  <2> QED
    BY <1>1, <1>4, <1>6, <2>3
<1>7. CASE p # s - 1
  <2>1. s * a + (p + 1) = s * b + q
    BY <1>5
  <2>2. p + 1 \in 0..(s-1)
    BY <1>7
  <2>3. p + 1 = q
    BY <2>1, <2>2, OneRemainder
  <2> QED
    BY <1>1, <1>4, <1>7, <2>3
<1> QED
  BY <1>6, <1>7

\* A descriptor of the table is less than a turn ahead.
LEMMA AheadRange ==
    ASSUME NEW s \in Nat \ {0}, NEW w \in Nat, NEW d \in 0..(s-1)
    PROVE  /\ Ahead(w, d, s) \in 0..(s-1)
           /\ Ahead(w, d, s) = 0 <=> w % s = d
           /\ w <= d => Ahead(w, d, s) = d - w
           /\ w % s # d => Ahead(w + 1, d, s) = Ahead(w, d, s) - 1
<1>1. PICK r \in 0..(s-1) : r = w % s
  BY NextEntry
<1>2. (w + 1) % s = IF r = s - 1 THEN 0 ELSE r + 1
  BY <1>1, NextEntry
<1>3. Ahead(w, d, s) = IF r <= d THEN d - r ELSE d - r + s
  BY <1>1 DEF Ahead
<1>4. w <= d => r = w
  <2>1. w <= d => w < s
    OBVIOUS
  <2> QED
    BY <1>1, <2>1, NextEntry
<1>5. r # d => Ahead(w + 1, d, s) = IF r < d THEN d - r - 1 ELSE d - r - 1 + s
  BY <1>2 DEF Ahead
<1> QED
  BY <1>1, <1>3, <1>4, <1>5

LEMMA WalkSizes == SzPoll \in Nat \ {0} /\ UIntMax \in Nat /\ UIntMax >= 2 * SzPoll
BY EpollAssumption, WalkAssumption

\* A descriptor that was just registered or served has its turn in time.
LEMMA WaitsFresh ==
    ASSUME NEW w \in 0..(UIntMax - 1), NEW s \in {SzPoll, 2 * SzPoll}, NEW d \in 0..(s-1)
    PROVE  Waits(0, w, d, s)
<1>1. s \in Nat \ {0} /\ w \in Nat /\ UIntMax \in Nat /\ SzPoll \in Nat
  BY WalkSizes
<1>2. PICK a \in 0..(s-1) : a = Ahead(w, d, s)
  BY <1>1, AheadRange
<1>3. Straight(w, d, s) <=> w + a < UIntMax
  BY <1>2 DEF Straight
<1>4. Before(w, d, s) = IF w + a < UIntMax THEN a ELSE UIntMax - w + d
  BY <1>2, <1>3 DEF Before
<1> QED
  BY <1>1, <1>2, <1>3, <1>4 DEF Waits

\* The walk looks at another entry.
LEMMA WaitsOn ==
    ASSUME NEW w \in 0..(UIntMax - 1), NEW s \in {SzPoll, 2 * SzPoll}, NEW d \in 0..(s-1),
           NEW m \in Nat, Waits(m, w, d, s), w % s # d
    PROVE  Waits(m + 1, (w + 1) % UIntMax, d, s)
<1>1. /\ s \in Nat \ {0} /\ w \in Nat /\ UIntMax \in Nat \ {0} /\ SzPoll \in Nat
      /\ d < UIntMax
  BY WalkSizes
<1>2. PICK a \in 1..(s-1) : a = Ahead(w, d, s) /\ a - 1 = Ahead(w + 1, d, s)
  <2>1. Ahead(w, d, s) \in 0..(s-1) /\ Ahead(w, d, s) # 0
        /\ Ahead(w + 1, d, s) = Ahead(w, d, s) - 1
    BY <1>1, AheadRange
  <2> QED
    BY <2>1
<1>3. Straight(w, d, s) <=> w + a < UIntMax
  BY <1>2 DEF Straight
<1>4. Before(w, d, s) = IF w + a < UIntMax THEN a ELSE UIntMax - w + d
  BY <1>2, <1>3 DEF Before
<1>5. CASE w = UIntMax - 1
  <2>1. (w + 1) % UIntMax = 0
    <3>1. w % UIntMax = UIntMax - 1
      <4>1. w < UIntMax
        BY <1>1
      <4> QED
        BY <1>1, <1>5, <4>1, NextEntry
    <3> QED
      BY <1>1, <3>1, NextEntry
  <2>2. Ahead(0, d, s) = d
    BY <1>1, AheadRange
  <2>3. Straight(0, d, s)
    BY <1>1, <2>2 DEF Straight
  <2>4. Before(0, d, s) = d
    BY <2>2, <2>3 DEF Before
  <2>5. m + (1 + d) <= 2 * s - 2
    BY <1>1, <1>2, <1>4, <1>5 DEF Waits
  <2>6. Waits(m + 1, 0, d, s)
    BY <1>1, <2>4, <2>5 DEF Waits
  <2> QED
    BY <2>1, <2>6
<1>6. CASE w # UIntMax - 1
  <2>1. (w + 1) % UIntMax = w + 1
    <3>1. w + 1 \in Nat /\ w + 1 < UIntMax
      BY <1>1, <1>6
    <3> QED
      BY <1>1, <3>1, NextEntry
  <2>2. Straight(w + 1, d, s) <=> w + a < UIntMax
    BY <1>1, <1>2 DEF Straight
  <2>3. Before(w + 1, d, s) = IF w + a < UIntMax THEN a - 1 ELSE UIntMax - w + d - 1
    BY <1>1, <1>2, <2>2 DEF Before
  <2>4. m + 1 + Before(w + 1, d, s) <= 2 * s - 2
    <3>1. m + Before(w, d, s) <= 2 * s - 2
      BY DEF Waits
    <3> QED
      BY <1>1, <1>2, <1>4, <2>3, <3>1
  <2>5. w # d
    BY <1>1, NextEntry
  <2>6. Waits(m + 1, w + 1, d, s)
    <3>1. ASSUME s = SzPoll
          PROVE  \/ w + 1 <= d
                 \/ Straight(w + 1, d, s) /\ m + 1 + Ahead(w + 1, d, s) < SzPoll
                 \/ ~Straight(w + 1, d, s) /\ m + 1 + (UIntMax - (w + 1)) < SzPoll
      <4>1. \/ w <= d
            \/ w + a < UIntMax /\ m + a < SzPoll
            \/ ~(w + a < UIntMax) /\ m + (UIntMax - w) < SzPoll
        BY <1>2, <1>3, <3>1 DEF Waits
      <4> QED
        BY <1>1, <1>2, <2>2, <2>5, <4>1
    <3> QED
      BY <2>4, <3>1 DEF Waits
  <2> QED
    BY <2>1, <2>6
<1> QED
  BY <1>5, <1>6

\* The table grows: the walk may jump back by a turn of the new table, and
\* the counter may wrap after that.
LEMMA WaitsLarger ==
    ASSUME NEW w \in 0..(UIntMax - 1), NEW d \in 0..(SzPoll - 1),
           NEW m \in Nat, Waits(m, w, d, SzPoll)
    PROVE  Waits(m, w, d, 2 * SzPoll)
<1>1. PICK s, t \in Nat \ {0} : s = SzPoll /\ t = 2 * s
  BY WalkSizes
<1>2. UIntMax \in Nat /\ UIntMax >= t /\ w \in Nat /\ d < s /\ d \in 0..(t-1) /\ d \in 0..(s-1)
  BY <1>1, WalkSizes
<1>3. PICK a \in 0..(t-1) : a = Ahead(w, d, t)
  BY <1>1, <1>2, AheadRange
<1>4. Straight(w, d, t) <=> w + a < UIntMax
  BY <1>3 DEF Straight
<1>5. Before(w, d, t) = IF w + a < UIntMax THEN a ELSE UIntMax - w + d
  BY <1>3, <1>4 DEF Before
<1>6. CASE w <= d
  <2>1. a = d - w /\ Ahead(w, d, s) = d - w
    BY <1>1, <1>2, <1>3, <1>6, AheadRange
  <2>2. Straight(w, d, s)
    BY <1>1, <1>2, <2>1 DEF Straight
  <2>3. m + (d - w) <= 2 * s - 2
    BY <1>1, <2>1, <2>2 DEF Waits, Before
  <2>4. m + Before(w, d, t) <= 2 * t - 2
    BY <1>1, <1>2, <1>5, <2>1, <2>3
  <2> QED
    BY <1>1, <2>4 DEF Waits
<1>7. CASE ~(w <= d)
  <2>1. PICK b \in 0..(s-1) : b = Ahead(w, d, s)
    BY <1>1, <1>2, AheadRange
  <2>2. \/ m + b < s
        \/ m + (UIntMax - w) < s
    BY <1>1, <1>7, <2>1 DEF Waits
  <2>3. m < s
    BY <1>1, <1>2, <2>1, <2>2
  <2>4. m + Before(w, d, t) <= 2 * t - 2
    BY <1>1, <1>2, <1>3, <1>5, <2>3
  <2> QED
    BY <1>1, <2>4 DEF Waits
<1> QED
  BY <1>6, <1>7

LEMMA WalkInit == WInit => TableInv /\ WalkInv
<1>1. WInit => TableInv
  BY TableInit DEF WInit
<1>2. ASSUME WInit
      PROVE  WalkInv
  <2>1. hdTb[watched] = NoAddr /\ watched \in Fd /\ szTb = SzPoll /\ walkrr = 0 /\ missed = 0
    BY <1>2 DEF WInit, Init
  <2> QED
    BY <2>1, WalkSizes DEF WalkInv
<1> QED
  BY <1>1, <1>2

\* Only a new registration, and only once, makes the table larger.
LEMMA TableSize ==
    ASSUME TableInv, WalkInv, [Next]_vars
    PROVE  /\ szTb' \in {SzPoll, 2 * SzPoll}
           /\ szTb' # szTb => szTb = SzPoll
           /\ (hdTb'[watched] # NoAddr /\ hdTb[watched] = NoAddr) \/ hdTb'[watched] = hdTb[watched]
              \/ hdTb'[watched] = NoAddr
<1>1. SzPoll \in Nat \ {0} /\ Fd \subseteq 0..(2 * SzPoll - 1) /\ watched \in Fd
      /\ szTb \in {SzPoll, 2 * SzPoll} /\ hdTb \in [Fd -> Addr \cup {NoAddr}]
  BY EpollAssumption DEF WalkInv, TableInv, TypeOK
<1>2. CASE \E fd \in Fd, a \in Addr : Add(fd, a)
  BY <1>1, <1>2 DEF Add
<1>3. CASE \E fd \in Fd : Rmv(fd)
  BY <1>1, <1>3 DEF Rmv, Forget
<1>4. CASE UNCHANGED <<hdTb, szTb>>
  BY <1>1, <1>4
<1> QED
  BY <1>2, <1>3, <1>4 DEF Next, vars, EpollWait, ScanCall, ScanPass, CallbackReturns

\* What Epoll does, between the walks or in one, keeps the turn of watched.
LEMMA EpollWalks ==
    ASSUME TableInv, TableInv', WalkInv, [Next]_vars,
           walkrr' = walkrr, watched' = watched,
           missed' = IF hdTb'[watched] = NoAddr THEN 0 ELSE missed
    PROVE  WalkInv'
<1>1. /\ walkrr' = walkrr /\ watched' = watched /\ watched \in Fd /\ missed \in Nat
      /\ walkrr \in 0..(UIntMax - 1) /\ szTb' \in {SzPoll, 2 * SzPoll}
      /\ SzPoll \in Nat \ {0} /\ Fd \subseteq 0..(2 * SzPoll - 1)
  BY TableSize, EpollAssumption DEF WalkInv
<1>2. hdTb'[watched] # NoAddr => watched \in 0..(szTb' - 1)
  BY <1>1 DEF TableInv, Handles
<1>3. hdTb[watched] # NoAddr => watched \in 0..(szTb - 1)
  BY <1>1 DEF TableInv, Handles, WalkInv
<1>4. ASSUME hdTb'[watched] # NoAddr
      PROVE  Waits(missed, walkrr, watched, szTb')
  <2>1. CASE hdTb[watched] = NoAddr
    <3>1. missed = 0
      BY <2>1 DEF WalkInv
    <3> QED
      BY <1>1, <1>2, <1>4, <3>1, WaitsFresh
  <2>2. CASE hdTb[watched] # NoAddr /\ szTb' = szTb
    BY <2>2 DEF WalkInv
  <2>3. CASE hdTb[watched] # NoAddr /\ szTb' # szTb
    <3>1. szTb = SzPoll /\ szTb' = 2 * SzPoll
      BY <1>1, <2>3, TableSize
    <3>2. Waits(missed, walkrr, watched, SzPoll)
      BY <2>3, <3>1 DEF WalkInv
    <3> QED
      BY <1>1, <1>3, <2>3, <3>1, <3>2, WaitsLarger
  <2> QED
    BY <2>1, <2>2, <2>3
<1>5. Waits(missed, walkrr, watched, szTb') => Waits(missed, walkrr', watched', szTb')
  BY <1>1
<1>6. hdTb'[watched'] # NoAddr => Waits(missed', walkrr', watched', szTb')
  BY <1>1, <1>4, <1>5
<1>7. Waits(missed', walkrr', watched', szTb') => Waits(missed, walkrr, watched, szTb)'
  BY DEF Waits, Before, Straight, Ahead
<1> QED
  BY <1>1, <1>6, <1>7 DEF WalkInv

\* The walk looks at the next entry.
LEMMA LookWalks ==
    ASSUME TableInv, WalkInv, WalkNext
    PROVE  WalkInv'
<1>1. /\ walkrr' = (walkrr + 1) % UIntMax /\ watched' = watched /\ szTb' = szTb /\ hdTb' = hdTb
      /\ missed' = IF walkrr % szTb = watched \/ hdTb[watched] = NoAddr THEN 0 ELSE missed + 1
  BY DEF WalkNext, Idx, vars
<1>2. /\ watched \in Fd /\ missed \in Nat /\ walkrr \in 0..(UIntMax - 1)
      /\ szTb \in {SzPoll, 2 * SzPoll} /\ UIntMax \in Nat \ {0}
      /\ SzPoll \in Nat \ {0} /\ Fd \subseteq 0..(2 * SzPoll - 1)
  BY WalkSizes, EpollAssumption DEF WalkInv
<1>3. walkrr' \in 0..(UIntMax - 1)
  BY <1>1, <1>2, NextEntry
<1>4. ASSUME hdTb[watched] # NoAddr
      PROVE  Waits(missed', walkrr', watched, szTb)
  <2>1. watched \in 0..(szTb - 1)
    BY <1>2, <1>4 DEF TableInv, Handles
  <2>2. CASE walkrr % szTb = watched
    BY <1>1, <1>2, <1>3, <2>1, <2>2, WaitsFresh
  <2>3. CASE walkrr % szTb # watched
    <3>1. Waits(missed, walkrr, watched, szTb)
      BY <1>4 DEF WalkInv
    <3>2. Waits(missed + 1, (walkrr + 1) % UIntMax, watched, szTb)
      BY <1>2, <2>1, <2>3, <3>1, WaitsOn
    <3> QED
      BY <1>1, <1>4, <2>3, <3>2
  <2> QED
    BY <2>2, <2>3
<1>5. hdTb'[watched'] # NoAddr => Waits(missed', walkrr', watched', szTb')
  BY <1>1, <1>4
<1>6. Waits(missed', walkrr', watched', szTb') => Waits(missed, walkrr, watched, szTb)'
  BY DEF Waits, Before, Straight, Ahead
<1>7. missed' \in Nat /\ (hdTb'[watched'] = NoAddr => missed' = 0)
  BY <1>1, <1>2
<1> QED
  BY <1>1, <1>2, <1>3, <1>5, <1>6, <1>7 DEF WalkInv

LEMMA WalkStep ==
    ASSUME TableInv, WalkInv, [WNext]_<<vars, wvars>>
    PROVE  TableInv' /\ WalkInv'
<1>1. [Next]_vars
  BY DEF WNext, EpollStep, Next, WalkBegin, WalkNext, FctwalkReturns, WalkEnds, WalkReturns
<1>2. TableInv'
  BY <1>1, TableNext
<1>3. CASE EpollStep
  <2>1. /\ walkrr' = walkrr /\ watched' = watched
        /\ missed' = IF hdTb'[watched] = NoAddr THEN 0 ELSE missed
    BY <1>3 DEF EpollStep
  <2> QED
    BY <1>1, <1>2, <2>1, EpollWalks
<1>4. CASE WalkNext
  BY <1>2, <1>4, LookWalks
<1>5. CASE UNCHANGED <<hdTb, szTb, walkrr, watched, missed>>
  <2>1. /\ hdTb' = hdTb /\ szTb' = szTb /\ walkrr' = walkrr /\ watched' = watched
        /\ missed' = missed
    BY <1>5
  <2>2. Waits(missed, walkrr, watched, szTb)' <=> Waits(missed, walkrr, watched, szTb)
    BY <2>1 DEF Waits, Before, Straight, Ahead
  <2>3. hdTb'[watched'] # NoAddr => Waits(missed, walkrr, watched, szTb)'
    BY <2>1, <2>2 DEF WalkInv
  <2>4. hdTb'[watched'] = NoAddr => missed' = 0
    BY <2>1 DEF WalkInv
  <2>5. /\ walkrr' \in 0..(UIntMax - 1) /\ missed' \in Nat /\ watched' \in Fd
        /\ szTb' \in {SzPoll, 2 * SzPoll}
    BY <2>1 DEF WalkInv
  <2> QED
    BY <1>2, <2>3, <2>4, <2>5 DEF WalkInv
<1> QED
  BY <1>2, <1>3, <1>4, <1>5 DEF WNext, WalkBegin, WalkFrom, FctwalkReturns, WalkEnds,
     WalkReturns, vars, wvars

\* A descriptor that stays is served before rtl_epollWalk has looked at twice
\* as many entries as the table has, though the table grows and the counter
\* wraps under it (WalkServes).
THEOREM WalkCorrect == WSpec => []WalkServes
<1>1. TableInv /\ WalkInv => WalkServes
  <2> SUFFICES ASSUME TableInv, WalkInv
               PROVE  missed < 2 * szTb
    BY DEF WalkServes
  <2>1. /\ watched \in Fd /\ missed \in Nat /\ walkrr \in 0..(UIntMax - 1)
        /\ szTb \in Nat \ {0} /\ UIntMax \in Nat /\ Fd \subseteq Nat
    BY WalkSizes, EpollAssumption DEF WalkInv
  <2>2. CASE hdTb[watched] = NoAddr
    BY <2>1, <2>2 DEF WalkInv
  <2>3. CASE hdTb[watched] # NoAddr
    <3>1. watched \in 0..(szTb - 1)
      BY <2>1, <2>3 DEF TableInv, Handles
    <3>2. Ahead(walkrr, watched, szTb) \in 0..(szTb - 1)
      BY <2>1, <3>1, AheadRange
    <3>3. Before(walkrr, watched, szTb) \in Nat
      BY <2>1, <3>1, <3>2 DEF Before
    <3>4. missed + Before(walkrr, watched, szTb) <= 2 * szTb - 2
      BY <2>3 DEF WalkInv, Waits
    <3> QED
      BY <2>1, <3>3, <3>4
  <2> QED
    BY <2>2, <2>3
<1>2. WInit => TableInv /\ WalkInv
  BY WalkInit
<1>3. TableInv /\ WalkInv /\ [WNext]_<<vars, wvars>> => (TableInv /\ WalkInv)'
  BY WalkStep
<1> QED
  BY <1>1, <1>2, <1>3, PTL DEF WSpec
=============================================================================
