----------------------------- MODULE PollProofs -----------------------------
(***************************************************************************)
(* The poll table: proofs that rtl_pollAdd always finds room and that a    *)
(* round of rtl_pollScan is a round of the event loop.                     *)
(***************************************************************************)
EXTENDS Poll, FiniteSetTheorems, SequenceTheorems, WellFoundedInduction, TLAPS

\* A set of numbers that is not empty has a least one.
LEMMA LeastOf ==
    ASSUME NEW S \in SUBSET Nat, S # {}
    PROVE  \E i \in S : \A j \in S : i <= j
<1>1. PICK i \in S : \A j \in S : ~(<<j, i>> \in OpToRel(<, Nat))
  BY NatLessThanWellFounded, WFMin
<1>2. \A j \in S : ~(j < i)
  BY <1>1 DEF OpToRel
<1> QED
  BY <1>2

\* rtl_pollFind finds a slot of the descriptor if there is one.
LEMMA Found ==
    ASSUME NEW tb \in Seq(Slot), NEW fd
    PROVE  \/ Find(tb, fd) = 0 /\ \A i \in 1..Len(tb) : tb[i].fd # fd
           \/ Find(tb, fd) \in 1..Len(tb) /\ tb[Find(tb, fd)].fd = fd
<1> DEFINE hits == {i \in 1..Len(tb) : tb[i].fd = fd}
<1>1. CASE hits = {}
  BY <1>1 DEF Find
<1>2. CASE hits # {}
  <2>1. \E i \in hits : \A j \in hits : i <= j
    <3>1. hits \in SUBSET Nat
      OBVIOUS
    <3> HIDE DEF hits
    <3> QED
      BY <1>2, <3>1, LeastOf
  <2>2. Find(tb, fd) \in hits
    BY <1>2, <2>1 DEF Find
  <2> QED
    BY <2>2
<1> QED
  BY <1>1, <1>2

(* The inductive invariant of the table *)

\* RoomKept needs the types; registrations have numbers of their own; a
\* callback runs for the slot the scan is at, and for no other reason.
TableInv ==
    /\ TypeOK
    /\ RoomKept
    /\ \A i \in Used : table[i].reg \in 1..regs
    /\ \A i, j \in Used : table[i].reg = table[j].reg => i = j
    /\ called = 0 <=> at # "callback"
    /\ at # "idle" => pos >= 1
    /\ at = "callback" => pos <= Len(table)

LEMMA UsedFinite ==
    ASSUME NEW tb \in Seq(Slot)
    PROVE  /\ IsFiniteSet({i \in 1..Len(tb) : tb[i].fd # Free})
           /\ Cardinality({i \in 1..Len(tb) : tb[i].fd # Free}) \in Nat
<1>1. IsFiniteSet(1..Len(tb))
  BY FS_Interval
<1> QED
  BY <1>1, FS_Subset, FS_CardinalityType

LEMMA TableInit == Init => TableInv
<1> SUFFICES ASSUME Init PROVE TableInv
  OBVIOUS
<1>1. Used = {}
  BY DEF Init, Used
<1>2. Cardinality(Used) = 0
  BY <1>1, FS_EmptySet
<1> QED
  BY <1>1, <1>2, PollAssumption DEF Init, TableInv, TypeOK, RoomKept

\* The table after it has grown if it had to: nothing but free slots is new.
LEMMA GrownTable ==
    ASSUME TableInv
    PROVE  /\ Grown \in Seq(Slot)
           /\ Len(Grown) >= Len(table) /\ nbPoll < Len(Grown)
           /\ \A i \in 1..Len(table) : Grown[i] = table[i]
           /\ \A i \in 1..Len(Grown) : i > Len(table) => Grown[i] = NewSlot
<1>1. table \in Seq(Slot) /\ NewSlot \in Slot /\ SzPoll \in Nat \ {0} /\ nbPoll \in Nat
  BY PollAssumption DEF TableInv, TypeOK, NewSlot, Slot, Revents
<1>2. nbPoll <= Len(table)
  BY DEF TableInv, RoomKept
<1>3. CASE nbPoll = Len(table)
  <2> DEFINE more == [i \in 1..SzPoll |-> NewSlot]
  <2>1. more \in Seq(Slot) /\ Len(more) = SzPoll
    BY <1>1
  <2>2. Grown = table \o more
    BY <1>3 DEF Grown
  <2> HIDE DEF more
  <2>3. /\ Grown \in Seq(Slot) /\ Len(Grown) = Len(table) + SzPoll
        /\ \A i \in 1..Len(Grown) : Grown[i] = IF i <= Len(table) THEN table[i]
                                               ELSE more[i - Len(table)]
    BY <1>1, <2>1, <2>2, ConcatProperties
  <2>4. \A i \in 1..SzPoll : more[i] = NewSlot
    BY DEF more
  <2> QED
    BY <1>1, <1>3, <2>3, <2>4
<1>4. CASE nbPoll # Len(table)
  BY <1>1, <1>2, <1>4 DEF Grown
<1> QED
  BY <1>3, <1>4

\* There is a free slot when rtl_pollAdd looks for one.
LEMMA RoomToAdd ==
    ASSUME TableInv
    PROVE  \E i \in 1..Len(Grown) : Grown[i].fd = Free
<1>1. table \in Seq(Slot) /\ SzPoll \in Nat \ {0} /\ nbPoll \in Nat
  BY PollAssumption DEF TableInv, TypeOK
<1>2. CASE nbPoll = Len(table)
  <2>1. Len(table) + 1 \in 1..Len(Grown) /\ Grown[Len(table) + 1] = NewSlot
    BY <1>1, <1>2, GrownTable
  <2> QED
    BY <2>1 DEF NewSlot
<1>3. CASE nbPoll # Len(table)
  <2>1. Grown = table /\ Cardinality(Used) < Len(table)
    <3>1. Cardinality(Used) \in Nat
      BY <1>1, UsedFinite DEF Used
    <3> QED
      BY <1>1, <1>3, <3>1 DEF Grown, TableInv, RoomKept
  <2>2. Used # 1..Len(table)
    <3>1. Len(table) \in Nat /\ Cardinality(1..Len(table)) = 1 + Len(table) - 1
      <4>1. Len(table) \in Nat
        BY <1>1
      <4> HIDE DEF TableInv
      <4>2. Cardinality(1..Len(table)) = IF 1 > Len(table) THEN 0 ELSE Len(table) - 1 + 1
        BY <4>1, FS_Interval
      <4> QED
        BY <4>1, <4>2
    <3>2. SUFFICES ASSUME Used = 1..Len(table) PROVE FALSE
      OBVIOUS
    <3> QED
      BY <2>1, <3>1, <3>2
  <2> QED
    BY <1>1, <2>1, <2>2 DEF Used
<1> QED
  BY <1>2, <1>3

\* What rtl_pollAdd does to the table: one free slot is filled.
LEMMA AddSlot ==
    ASSUME TableInv, NEW fd \in Fd, Add(fd)
    PROVE  \E i \in 1..Len(table') :
              /\ i \notin Used /\ Used' = Used \cup {i}
              /\ \A j \in Used : table'[j] = table[j]
              /\ table'[i] = [fd |-> fd, revents |-> "none", fctevent |-> TRUE,
                              reg |-> regs + 1]
              /\ table' \in Seq(Slot) /\ Len(table') >= Len(table)
              /\ nbPoll < Len(table') /\ nbPoll' = nbPoll + 1 /\ regs' = regs + 1
<1> DEFINE i == Find(Grown, Free)
           slot == [fd |-> fd, revents |-> "none", fctevent |-> TRUE, reg |-> regs + 1]
<1>1. /\ Grown \in Seq(Slot)
      /\ Len(Grown) >= Len(table) /\ nbPoll < Len(Grown)
      /\ \A j \in 1..Len(table) : Grown[j] = table[j]
      /\ \A j \in 1..Len(Grown) : j > Len(table) => Grown[j] = NewSlot
  BY GrownTable
<1>2. i \in 1..Len(Grown) /\ Grown[i].fd = Free
  <2>1. \/ i = 0 /\ \A j \in 1..Len(Grown) : Grown[j].fd # Free
        \/ i \in 1..Len(Grown) /\ Grown[i].fd = Free
    BY <1>1, Found
  <2> HIDE DEF i
  <2> QED
    BY <2>1, RoomToAdd
<1>3. i # 0
  BY <1>1, <1>2
<1>4. table' = [Grown EXCEPT ![i] = slot] /\ nbPoll' = nbPoll + 1 /\ regs' = regs + 1
  BY <1>3 DEF Add, Fill
<1>5. slot \in Slot
  BY PollAssumption DEF Add, TableInv, TypeOK, Slot, Revents
<1>6. fd # Free
  BY PollAssumption DEF Free
<1> HIDE DEF i, slot
<1>7. /\ table' \in Seq(Slot) /\ Len(table') = Len(Grown)
      /\ table'[i] = slot
      /\ \A j \in 1..Len(Grown) : j # i => table'[j] = Grown[j]
  BY <1>1, <1>2, <1>4, <1>5, ExceptSeq
<1>8. slot.fd # Free
  BY <1>6 DEF slot
<1>9. table \in Seq(Slot)
  BY DEF TableInv, TypeOK
<1>10. i \notin Used
  BY <1>1, <1>2 DEF Used
<1>11. \A j \in 1..Len(Grown) : j # i => (table'[j].fd # Free <=> j \in Used)
  <2> SUFFICES ASSUME NEW j \in 1..Len(Grown), j # i
               PROVE  table'[j].fd # Free <=> j \in Used
    OBVIOUS
  <2>1. CASE j <= Len(table)
    BY <1>1, <1>7, <1>9, <2>1 DEF Used
  <2>2. CASE j > Len(table)
    BY <1>1, <1>7, <1>9, <2>2 DEF Used, NewSlot
  <2> QED
    BY <1>1, <1>9, <2>1, <2>2
<1>12. Used' = Used \cup {i}
  <2>1. Used' = {j \in 1..Len(Grown) : table'[j].fd # Free}
    BY <1>7 DEF Used
  <2>2. Used \subseteq 1..Len(Grown)
    BY <1>1, <1>9 DEF Used
  <2> QED
    BY <2>1, <2>2, <1>2, <1>7, <1>8, <1>11
<1>13. \A j \in Used : table'[j] = table[j]
  BY <1>1, <1>7, <1>9, <1>10 DEF Used
<1> QED
  BY <1>1, <1>2, <1>4, <1>7, <1>10, <1>12, <1>13 DEF slot

-----------------------------------------------------------------------------
(* Steps *)

Live == {table[i].reg : i \in Used}
Due  == {table[i].reg : i \in Pending}

\* A registration is new: it is live and has no event in this round.
LEMMA AddKeeps ==
    ASSUME TableInv, NEW fd \in Fd, Add(fd)
    PROVE  TableInv' /\ \E r \in 1..MaxAdd : Loop!Register(r)
<1>1. PICK i \in 1..Len(table') :
              /\ i \notin Used /\ Used' = Used \cup {i}
              /\ \A j \in Used : table'[j] = table[j]
              /\ table'[i] = [fd |-> fd, revents |-> "none", fctevent |-> TRUE,
                              reg |-> regs + 1]
              /\ table' \in Seq(Slot) /\ Len(table') >= Len(table)
              /\ nbPoll < Len(table') /\ nbPoll' = nbPoll + 1 /\ regs' = regs + 1
  BY AddSlot
<1>2. /\ at' = at /\ pos' = pos /\ called' = called /\ regs < MaxAdd
      /\ nbPoll \in Nat /\ regs \in Nat /\ table \in Seq(Slot)
  BY PollAssumption DEF Add, TableInv, TypeOK
<1>3. TypeOK'
  BY <1>1, <1>2, PollAssumption DEF TableInv, TypeOK
<1>4. RoomKept'
  <2>1. IsFiniteSet(Used) /\ Cardinality(Used) \in Nat
    BY <1>2, UsedFinite DEF Used
  <2>2. Cardinality(Used') = Cardinality(Used) + 1
    BY <1>1, <2>1, FS_AddElement
  <2> QED
    BY <1>1, <1>2, <2>1, <2>2 DEF TableInv, RoomKept, TypeOK
<1>5. /\ \A j \in Used' : table'[j].reg \in 1..regs'
      /\ \A j, k \in Used' : table'[j].reg = table'[k].reg => j = k
  BY <1>1, <1>2 DEF TableInv
<1>6. TableInv'
  BY <1>1, <1>2, <1>3, <1>4, <1>5 DEF TableInv, TypeOK
<1>7. Live' = Live \cup {regs + 1}
  BY <1>1 DEF Live
<1>8. Due' = Due
  <2>1. Pending' = Pending
    BY <1>1, <1>2 DEF Pending
  <2>2. \A j \in Pending : table'[j] = table[j]
    BY <1>1 DEF Pending
  <2> QED
    BY <2>1, <2>2 DEF Due
<1>9. regs + 1 \notin Live /\ regs + 1 \in 1..MaxAdd
  BY <1>2, PollAssumption DEF Live, TableInv
<1> QED
  BY <1>2, <1>6, <1>7, <1>8, <1>9 DEF Loop!Register, Live, Due

\* The slot i gives up its registration, by rtl_pollRmv or by the scan.
LEMMA Emptied ==
    ASSUME TableInv, NEW i \in Used,
           table' \in Seq(Slot), Len(table') = Len(table), table'[i].fd = Free,
           \A j \in Used \ {i} : table'[j].fd # Free /\ table'[j].reg = table[j].reg,
           \A j \in 1..Len(table) : j \notin Used => table'[j].fd = Free
    PROVE  /\ Used' = Used \ {i}
           /\ Cardinality(Used') = Cardinality(Used) - 1
           /\ Cardinality(Used') \in Nat
           /\ Live' = Live \ {table[i].reg} /\ table[i].reg \in Live
           /\ table[i].reg \in 1..regs
           /\ \A j, k \in Used' : table'[j].reg = table'[k].reg => j = k
<1>1. Used' = Used \ {i}
  BY DEF Used
<1>2. table \in Seq(Slot)
  BY DEF TableInv, TypeOK
<1>3. IsFiniteSet(Used)
  BY <1>2, UsedFinite DEF Used
<1>4. Cardinality(Used') = Cardinality(Used) - 1
  BY <1>1, <1>3, FS_RemoveElement
<1>5. Cardinality(Used') \in Nat
  BY <1>1, <1>3, FS_Subset, FS_CardinalityType
<1>6. Live' = Live \ {table[i].reg}
  BY <1>1 DEF Live, TableInv
<1> QED
  BY <1>1, <1>4, <1>5, <1>6 DEF Live, TableInv

\* A registration ends: it is served no more, whether it had an event or not.
LEMMA RmvKeeps ==
    ASSUME TableInv, NEW fd \in Fd \cup {Free}, Rmv(fd)
    PROVE  TableInv' /\ \E r \in 1..MaxAdd : Loop!Unregister(r)
<1> DEFINE i == Find(table, fd)
<1>1. /\ table \in Seq(Slot) /\ nbPoll \in Nat /\ regs \in 0..MaxAdd
      /\ at' = at /\ pos' = pos /\ called' = called /\ regs' = regs
      /\ nbPoll' = nbPoll - 1 /\ fd # Free /\ i # 0
      /\ table' = [table EXCEPT ![i].fd = Free, ![i].fctevent = FALSE]
  BY DEF Rmv, Removable, TableInv, TypeOK
<1>2. i \in 1..Len(table) /\ table[i].fd = fd
  BY <1>1, Found
<1> HIDE DEF i
<1>3. i \in Used
  BY <1>1, <1>2 DEF Used
<1>4. table[i] \in Slot
  BY <1>1, <1>2
<1> DEFINE slot == [table[i] EXCEPT !.fd = Free, !.fctevent = FALSE]
<1>5. slot \in Slot /\ slot.fd = Free /\ table' = [table EXCEPT ![i] = slot]
  BY <1>1, <1>2, <1>4 DEF Slot
<1> HIDE DEF slot
<1>6. /\ table' \in Seq(Slot) /\ Len(table') = Len(table)
      /\ table'[i].fd = Free
      /\ \A j \in 1..Len(table) : j # i => table'[j] = table[j]
  <2>1. table \in Seq(Slot)
    BY <1>1
  <2>2. /\ table' \in Seq(Slot) /\ Len(table') = Len(table) /\ table'[i] = slot
        /\ \A j \in 1..Len(table) : j # i => table'[j] = table[j]
    BY <1>2, <1>5, <2>1, ExceptSeq
  <2> QED
    BY <1>5, <2>2
<1>7. /\ Used' = Used \ {i}
      /\ Cardinality(Used') = Cardinality(Used) - 1
      /\ Cardinality(Used') \in Nat
      /\ Live' = Live \ {table[i].reg} /\ table[i].reg \in Live
      /\ table[i].reg \in 1..regs
      /\ \A j, k \in Used' : table'[j].reg = table'[k].reg => j = k
  <2>1. /\ \A j \in Used \ {i} : table'[j].fd # Free /\ table'[j].reg = table[j].reg
        /\ \A j \in 1..Len(table) : j \notin Used => table'[j].fd = Free
    BY <1>3, <1>6 DEF Used
  <2> QED
    BY <1>3, <1>6, <2>1, Emptied
<1>8. Cardinality(Used) \in Nat
  BY <1>1, UsedFinite DEF Used
<1>9. TypeOK'
  BY <1>1, <1>6, <1>7, <1>8 DEF TableInv, TypeOK, RoomKept
<1>10. RoomKept'
  BY <1>1, <1>6, <1>7, <1>8 DEF TableInv, RoomKept
<1>11. \A j \in Used' : table'[j].reg \in 1..regs'
  BY <1>1, <1>6, <1>7 DEF TableInv, Used
<1>12. TableInv'
  BY <1>1, <1>6, <1>7, <1>9, <1>10, <1>11 DEF TableInv
<1>13. Due' = Due \ {table[i].reg}
  <2>1. Pending' = Pending \ {i}
    BY <1>1, <1>6, <1>7 DEF Pending, Used
  <2>2. \A j \in Pending : j # i => table'[j] = table[j] /\ table[j].reg # table[i].reg
    BY <1>3, <1>6 DEF Pending, Used, TableInv
  <2> QED
    BY <2>1, <2>2 DEF Due
<1>14. table[i].reg \in 1..MaxAdd
  BY <1>1, <1>7, PollAssumption
<1> QED
  BY <1>1, <1>7, <1>12, <1>13, <1>14 DEF Loop!Unregister, Live, Due

\* Steps that leave the registrations and their numbers alone.
LEMMA SameSlots ==
    ASSUME TableInv, table' \in Seq(Slot), Len(table') = Len(table),
           \A j \in 1..Len(table) :
              table'[j].fd = table[j].fd /\ table'[j].reg = table[j].reg,
           nbPoll' = nbPoll, regs' = regs
    PROVE  /\ Used' = Used /\ Live' = Live /\ RoomKept'
           /\ \A i \in Used' : table'[i].reg \in 1..regs'
           /\ \A i, j \in Used' : table'[i].reg = table'[j].reg => i = j
<1>1. Used' = Used
  BY DEF Used
<1>2. Used \subseteq 1..Len(table)
  BY DEF Used
<1>3. Live' = Live
  BY <1>1, <1>2 DEF Live
<1> QED
  BY <1>1, <1>2, <1>3 DEF TableInv, RoomKept

\* Another callback for a slot: the round is the same.
LEMMA ChgKeeps ==
    ASSUME TableInv, NEW fd \in Fd, NEW fct \in BOOLEAN, Chg(fd, fct)
    PROVE  TableInv' /\ UNCHANGED <<Live, Due, called>>
<1> DEFINE i == Find(table, fd)
<1>1. /\ table \in Seq(Slot)
      /\ at' = at /\ pos' = pos /\ called' = called /\ regs' = regs
      /\ nbPoll' = nbPoll /\ i # 0
      /\ table' = [table EXCEPT ![i].fctevent = fct]
  BY DEF Chg, TableInv, TypeOK
<1>2. i \in 1..Len(table)
  BY <1>1, Found
<1> HIDE DEF i
<1>3. table[i] \in Slot
  BY <1>1, <1>2
<1> DEFINE slot == [table[i] EXCEPT !.fctevent = fct]
<1>4. /\ slot \in Slot /\ table' = [table EXCEPT ![i] = slot]
      /\ slot.fd = table[i].fd /\ slot.reg = table[i].reg /\ slot.revents = table[i].revents
  BY <1>1, <1>2, <1>3 DEF Slot
<1> HIDE DEF slot
<1>5. /\ table' \in Seq(Slot) /\ Len(table') = Len(table) /\ table'[i] = slot
      /\ \A j \in 1..Len(table) : j # i => table'[j] = table[j]
  BY <1>1, <1>2, <1>4, ExceptSeq
<1>6. \A j \in 1..Len(table) : /\ table'[j].fd = table[j].fd /\ table'[j].reg = table[j].reg
                               /\ table'[j].revents = table[j].revents
  BY <1>4, <1>5
<1>7. TableInv' /\ Used' = Used /\ Live' = Live
  BY <1>1, <1>5, <1>6, SameSlots DEF TableInv, TypeOK
<1>8. Due' = Due
  BY <1>1, <1>6, <1>7 DEF Due, Pending, Used
<1> QED
  BY <1>1, <1>7, <1>8

\* A round begins: what poll(2) reported is due.
LEMMA ReportKeeps ==
    ASSUME TableInv, PollReturns
    PROVE  TableInv' /\ \E s \in SUBSET Live : Loop!Report(s)
<1>1. PICK rep \in [1..Len(table) -> Revents] :
          /\ \A i \in 1..Len(table) : table[i].fd = Free => rep[i] = "none"
          /\ table' = [i \in 1..Len(table) |-> [table[i] EXCEPT !.revents = rep[i]]]
          /\ IF \E i \in 1..Len(table) : rep[i] # "none"
             THEN at' = "scan" /\ pos' = 1
             ELSE UNCHANGED <<at, pos>>
  BY DEF PollReturns
<1>2. /\ at = "idle" /\ called = 0 /\ nbPoll' = nbPoll /\ regs' = regs /\ called' = called
      /\ table \in Seq(Slot) /\ Len(table) \in Nat
  BY DEF PollReturns, TableInv, TypeOK
<1>3. \A i \in 1..Len(table) : [table[i] EXCEPT !.revents = rep[i]] \in Slot
  <2> TAKE i \in 1..Len(table)
  <2>1. table[i] \in Slot /\ rep[i] \in Revents
    BY <1>2
  <2> QED
    BY <2>1 DEF Slot
<1>4. table' \in Seq(Slot) /\ Len(table') = Len(table)
  BY <1>1, <1>2, <1>3
<1>5. \A j \in 1..Len(table) :
              table'[j].fd = table[j].fd /\ table'[j].reg = table[j].reg
  <2> TAKE j \in 1..Len(table)
  <2>1. table[j] \in Slot /\ table'[j] = [table[j] EXCEPT !.revents = rep[j]]
    BY <1>1, <1>2
  <2> QED
    BY <2>1 DEF Slot
<1>6. /\ Used' = Used /\ Live' = Live /\ RoomKept'
      /\ \A i \in Used' : table'[i].reg \in 1..regs'
      /\ \A i, j \in Used' : table'[i].reg = table'[j].reg => i = j
  BY <1>2, <1>4, <1>5, SameSlots
<1>7. \/ at' = "scan" /\ pos' = 1
      \/ at' = "idle" /\ pos' = pos
  BY <1>1, <1>2
<1>8. TypeOK'
  BY <1>2, <1>4, <1>7 DEF TableInv, TypeOK
<1>9. TableInv'
  BY <1>2, <1>6, <1>7, <1>8 DEF TableInv
<1>10. Due = {} /\ Due' \subseteq Live
  <2>1. Pending = {} /\ Pending' \subseteq Used'
    BY <1>2 DEF Pending
  <2>2. Due' \subseteq Live'
    BY <2>1 DEF Due, Live
  <2> QED
    BY <1>6, <2>1, <2>2 DEF Due
<1> QED
  BY <1>2, <1>6, <1>9, <1>10 DEF Loop!Report, Live, Due

\* The callback of the slot that the loop looks at is called.
LEMMA CallKeeps ==
    ASSUME TableInv, ScanCall
    PROVE  TableInv' /\ \E r \in 1..MaxAdd : Loop!Deliver(r)
<1>1. /\ at = "scan" /\ at' = "callback" /\ called = 0 /\ called' = table[pos].reg
      /\ table' = table /\ nbPoll' = nbPoll /\ pos' = pos /\ regs' = regs
      /\ pos \in 1..Len(table) /\ table[pos].revents = "evt" /\ table[pos].fd # Free
      /\ regs \in 0..MaxAdd /\ Len(table) \in Nat
  BY DEF ScanCall, Scanning, TableInv, TypeOK
<1>2. pos \in Used /\ pos \in Pending
  BY <1>1 DEF Used, Pending
<1>3. table[pos].reg \in 1..MaxAdd
  BY <1>1, <1>2, PollAssumption DEF TableInv
<1>4. Used' = Used /\ Live' = Live
  BY <1>1 DEF Used, Live
<1>5. TableInv'
  BY <1>1, <1>3, <1>4, PollAssumption DEF TableInv, TypeOK, RoomKept
<1>6. Pending' = Pending \ {pos}
  BY <1>1, <1>4 DEF Pending, Used
<1>7. \A i \in Pending : i # pos => table[i].reg # table[pos].reg
  BY <1>2 DEF Pending, TableInv
<1>8. Due' = Due \ {table[pos].reg} /\ table[pos].reg \in Due
  BY <1>1, <1>2, <1>6, <1>7 DEF Due
<1> QED
  BY <1>1, <1>3, <1>4, <1>5, <1>8 DEF Loop!Deliver, Live, Due

\* A slot in use that has no callback is emptied by the scan.
LEMMA DropKeeps ==
    ASSUME TableInv, ScanPass, table[pos].fd # Free, ~table[pos].fctevent
    PROVE  TableInv' /\ \E r \in 1..MaxAdd : Loop!Unregister(r)
<1> DEFINE slot == [table[pos] EXCEPT !.fd = Free, !.revents = "none"]
<1>1. /\ at = "scan" /\ at' = at /\ called' = called /\ nbPoll' = nbPoll /\ regs' = regs
      /\ pos \in 1..Len(table) /\ pos' = pos + 1 /\ Len(table) \in Nat
      /\ table \in Seq(Slot) /\ regs \in 0..MaxAdd
  BY DEF ScanPass, Scanning, TableInv, TypeOK
<1>2. table' = [table EXCEPT ![pos] = slot]
  BY DEF ScanPass
<1>3. slot \in Slot /\ slot.fd = Free
  <2>1. table[pos] \in Slot
    BY <1>1
  <2> QED
    BY <2>1 DEF Slot, Revents
<1> HIDE DEF slot
<1>4. /\ table' \in Seq(Slot) /\ Len(table') = Len(table) /\ table'[pos] = slot
      /\ \A j \in 1..Len(table) : j # pos => table'[j] = table[j]
  BY <1>1, <1>2, <1>3, ExceptSeq
<1>5. pos \in Used
  BY <1>1 DEF Used
<1>6. /\ Used' = Used \ {pos}
      /\ Cardinality(Used') = Cardinality(Used) - 1
      /\ Cardinality(Used') \in Nat
      /\ Live' = Live \ {table[pos].reg} /\ table[pos].reg \in Live
      /\ table[pos].reg \in 1..regs
      /\ \A j, k \in Used' : table'[j].reg = table'[k].reg => j = k
  <2>1. /\ \A j \in Used \ {pos} : table'[j].fd # Free /\ table'[j].reg = table[j].reg
        /\ \A j \in 1..Len(table) : j \notin Used => table'[j].fd = Free
        /\ table'[pos].fd = Free
    BY <1>3, <1>4, <1>5 DEF Used
  <2>2. table' \in Seq(Slot) /\ Len(table') = Len(table)
    BY <1>4
  <2> QED
    BY <1>5, <2>1, <2>2, Emptied
<1>7. Cardinality(Used) \in Nat
  BY <1>1, UsedFinite DEF Used
<1>8. TypeOK'
  BY <1>1, <1>4 DEF TableInv, TypeOK
<1>9. RoomKept'
  BY <1>1, <1>4, <1>6, <1>7 DEF TableInv, TypeOK, RoomKept
<1>10. \A j \in Used' : table'[j].reg \in 1..regs'
  BY <1>1, <1>4, <1>6 DEF TableInv, Used
<1>11. TableInv'
  BY <1>1, <1>6, <1>8, <1>9, <1>10 DEF TableInv
<1>12. Due' = Due \ {table[pos].reg}
  <2>1. Pending' = Pending \ {pos}
    BY <1>1, <1>4, <1>6 DEF Pending, Used
  <2>2. \A j \in Pending : j # pos => table'[j] = table[j] /\ table[j].reg # table[pos].reg
    BY <1>4, <1>5 DEF Pending, Used, TableInv
  <2> QED
    BY <2>1, <2>2 DEF Due
<1>13. table[pos].reg \in 1..MaxAdd
  BY <1>1, <1>6, PollAssumption
<1> QED
  BY <1>1, <1>6, <1>11, <1>12, <1>13 DEF Loop!Unregister, Live, Due

\* Any other slot without a callback to call is passed over: it owes nothing.
LEMMA PassKeeps ==
    ASSUME TableInv, ScanPass, table[pos].fd = Free \/ table[pos].fctevent
    PROVE  TableInv' /\ UNCHANGED <<Live, Due, called>>
<1> DEFINE slot == IF table[pos].revents = "evt"
                   THEN [table[pos] EXCEPT !.revents = "none"]
                   ELSE table[pos]
<1>1. /\ at = "scan" /\ at' = at /\ called' = called /\ nbPoll' = nbPoll /\ regs' = regs
      /\ pos \in 1..Len(table) /\ pos' = pos + 1 /\ Len(table) \in Nat
      /\ table \in Seq(Slot)
      /\ table[pos].fd = Free \/ table[pos].revents # "evt"
  BY DEF ScanPass, Scanning, TableInv, TypeOK
<1>2. table' = [table EXCEPT ![pos] = slot]
  <2>1. ~(table[pos].fd # Free /\ ~table[pos].fctevent)
    OBVIOUS
  <2> QED
    BY <2>1 DEF ScanPass
<1>3. slot \in Slot /\ slot.fd = table[pos].fd /\ slot.reg = table[pos].reg
  <2>1. table[pos] \in Slot
    BY <1>1
  <2> QED
    BY <2>1 DEF Slot, Revents
<1> HIDE DEF slot
<1>4. /\ table' \in Seq(Slot) /\ Len(table') = Len(table) /\ table'[pos] = slot
      /\ \A j \in 1..Len(table) : j # pos => table'[j] = table[j]
  BY <1>1, <1>2, <1>3, ExceptSeq
<1>5. \A j \in 1..Len(table) :
              table'[j].fd = table[j].fd /\ table'[j].reg = table[j].reg
  BY <1>3, <1>4
<1>6. /\ Used' = Used /\ Live' = Live /\ RoomKept'
      /\ \A i \in Used' : table'[i].reg \in 1..regs'
      /\ \A i, j \in Used' : table'[i].reg = table'[j].reg => i = j
  BY <1>1, <1>4, <1>5, SameSlots
<1>7. TypeOK'
  BY <1>1, <1>4 DEF TableInv, TypeOK
<1>8. TableInv'
  BY <1>1, <1>6, <1>7 DEF TableInv
<1>9. Pending' = Pending
  BY <1>1, <1>4, <1>6 DEF Pending, Used
<1>10. Due' = Due
  BY <1>5, <1>9 DEF Due, Pending, Used
<1> QED
  BY <1>1, <1>6, <1>8, <1>10

\* The callback returns: its slot has had its turn, whoever is in it now.
LEMMA ReturnKeeps ==
    ASSUME TableInv, CallbackReturns
    PROVE  TableInv' /\ Loop!Return
<1> DEFINE slot == [table[pos] EXCEPT !.revents = "none"]
<1>1. /\ at = "callback" /\ at' = "scan" /\ called # 0 /\ called' = 0
      /\ nbPoll' = nbPoll /\ regs' = regs
      /\ pos \in 1..Len(table) /\ pos' = pos + 1 /\ Len(table) \in Nat
      /\ table \in Seq(Slot)
  BY DEF CallbackReturns, TableInv, TypeOK
<1>2. table' = [table EXCEPT ![pos] = slot]
  BY DEF CallbackReturns
<1>3. slot \in Slot /\ slot.fd = table[pos].fd /\ slot.reg = table[pos].reg
  <2>1. table[pos] \in Slot
    BY <1>1
  <2> QED
    BY <2>1 DEF Slot, Revents
<1> HIDE DEF slot
<1>4. /\ table' \in Seq(Slot) /\ Len(table') = Len(table) /\ table'[pos] = slot
      /\ \A j \in 1..Len(table) : j # pos => table'[j] = table[j]
  BY <1>1, <1>2, <1>3, ExceptSeq
<1>5. \A j \in 1..Len(table) :
              table'[j].fd = table[j].fd /\ table'[j].reg = table[j].reg
  BY <1>3, <1>4
<1>6. /\ Used' = Used /\ Live' = Live /\ RoomKept'
      /\ \A i \in Used' : table'[i].reg \in 1..regs'
      /\ \A i, j \in Used' : table'[i].reg = table'[j].reg => i = j
  BY <1>1, <1>4, <1>5, SameSlots
<1>7. TypeOK'
  BY <1>1, <1>4, PollAssumption DEF TableInv, TypeOK
<1>8. TableInv'
  BY <1>1, <1>6, <1>7 DEF TableInv
<1>9. Pending' = Pending
  BY <1>1, <1>4, <1>6 DEF Pending, Used
<1>10. Due' = Due
  BY <1>5, <1>9 DEF Due, Pending, Used
<1> QED
  BY <1>1, <1>6, <1>8, <1>10 DEF Loop!Return, Live, Due

\* Behind the last slot nothing is owed.
LEMMA EndKeeps ==
    ASSUME TableInv, ScanEnds
    PROVE  TableInv' /\ UNCHANGED <<Live, Due, called>>
<1>1. /\ at = "scan" /\ at' = "idle" /\ pos' = 0 /\ pos > Len(table)
      /\ table' = table /\ nbPoll' = nbPoll /\ called' = called /\ regs' = regs
      /\ pos \in Nat /\ Len(table) \in Nat
  BY DEF ScanEnds, Scanning, TableInv, TypeOK
<1>2. Used' = Used /\ Live' = Live
  BY <1>1 DEF Used, Live
<1>3. TableInv'
  BY <1>1, <1>2 DEF TableInv, TypeOK, RoomKept
<1>4. Pending = {} /\ Pending' = {}
  BY <1>1 DEF Pending, Used
<1>5. Due' = Due
  BY <1>4 DEF Due
<1> QED
  BY <1>1, <1>2, <1>3, <1>5

\* Every step is a step of the event loop or leaves it alone.
LEMMA StepServes ==
    ASSUME TableInv, [Next]_vars
    PROVE  TableInv' /\ [Loop!Next]_(Loop!vars)
<1>1. ASSUME NEW fd \in Fd, Add(fd) PROVE TableInv' /\ Loop!Next
  BY <1>1, AddKeeps DEF Loop!Next
<1>2. ASSUME NEW fd \in Fd \cup {Free}, Rmv(fd) PROVE TableInv' /\ Loop!Next
  BY <1>2, RmvKeeps DEF Loop!Next
<1>3. ASSUME NEW fd \in Fd, NEW fct \in BOOLEAN, Chg(fd, fct)
      PROVE  TableInv' /\ UNCHANGED Loop!vars
  BY <1>3, ChgKeeps DEF Loop!vars, Live, Due
<1>4. ASSUME PollReturns PROVE TableInv' /\ Loop!Next
  BY <1>4, ReportKeeps DEF Loop!Next, Live
<1>5. ASSUME ScanCall PROVE TableInv' /\ Loop!Next
  BY <1>5, CallKeeps DEF Loop!Next
<1>6. ASSUME ScanPass PROVE TableInv' /\ [Loop!Next]_(Loop!vars)
  <2>1. CASE table[pos].fd # Free /\ ~table[pos].fctevent
    BY <1>6, <2>1, DropKeeps DEF Loop!Next
  <2>2. CASE table[pos].fd = Free \/ table[pos].fctevent
    BY <1>6, <2>2, PassKeeps DEF Loop!vars, Live, Due
  <2> QED
    BY <2>1, <2>2
<1>7. ASSUME CallbackReturns PROVE TableInv' /\ Loop!Next
  BY <1>7, ReturnKeeps DEF Loop!Next
<1>8. ASSUME ScanEnds PROVE TableInv' /\ UNCHANGED Loop!vars
  BY <1>8, EndKeeps DEF Loop!vars, Live, Due
<1>9. ASSUME UNCHANGED vars PROVE TableInv' /\ UNCHANGED Loop!vars
  BY <1>9 DEF vars, TableInv, TypeOK, RoomKept, Used, Pending, Loop!vars
<1> QED
  BY <1>1, <1>2, <1>3, <1>4, <1>5, <1>6, <1>7, <1>8, <1>9 DEF Next

LEMMA InitServes == Init => Loop!Init
<1> SUFFICES ASSUME Init PROVE Loop!Init
  OBVIOUS
<1>1. Used = {} /\ Pending = {} /\ called = 0
  BY DEF Init, Used, Pending
<1> QED
  BY <1>1 DEF Loop!Init

\* rtl_pollAdd, rtl_pollRmv, rtl_pollChg and rtl_pollScan keep the types.
THEOREM TableTyped == Spec => []TypeOK
<1>1. TableInv => TypeOK
  BY DEF TableInv
<1>2. TableInv /\ [Next]_vars => TableInv'
  BY StepServes
<1> QED
  BY <1>1, <1>2, TableInit, PTL DEF Spec

\* nbPoll lies between the slots in use and the size of the table, so
\* rtl_pollAdd finds a free slot, although the scan empties slots without
\* telling nbPoll.
THEOREM RoomIsKept == Spec => []RoomKept
<1>1. TableInv => RoomKept
  BY DEF TableInv
<1>2. TableInv /\ [Next]_vars => TableInv'
  BY StepServes
<1> QED
  BY <1>1, <1>2, TableInit, PTL DEF Spec

\* A round of rtl_pollScan is a round of the event loop: every reported
\* registration is served once unless it was removed, no other is, and a
\* slot that is used again in the round has no event of its last user.
THEOREM RoundsServed == Spec => ServesRounds
<1>1. TableInv /\ [Next]_vars => TableInv' /\ [Loop!Next]_(Loop!vars)
  BY StepServes
<1> QED
  BY <1>1, TableInit, InitServes, PTL DEF Spec, ServesRounds, Loop!Spec
=============================================================================
