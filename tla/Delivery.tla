------------------------------ MODULE Delivery ------------------------------
(***************************************************************************)
(* What xlap promises the users of its links, whatever becomes of the      *)
(* connections.  A message that a link took (rtl_LapPutOutQueue) is held,  *)
(* in order, until the user is told that it was acknowledged               *)
(* (EVT_FRAME_ACKED) or lost (EVT_FRAME_ACKLOST), or it is dropped with    *)
(* the out queue.  It is given to the user of one other link at most, and  *)
(* to each in the order of the puts; acknowledged means given, dropped     *)
(* means never given, and lost says nothing.                               *)
(***************************************************************************)
EXTENDS Naturals, SequencesExt

CONSTANTS
    Link,
    Msg     \* messages, numbered in the order they are put

VARIABLES
    held,       \* held[i]: what link i has not settled, oldest first
    given,      \* given[i]: the messages given to the user of link i
    acked, lost, dropped

dvars == <<held, given, acked, lost, dropped>>

Given == UNION {given[i] : i \in Link}

\* The first n messages of link i, and those after them.
First(i, n) == ToSet(SubSeq(held[i], 1, n))
After(i, n) == SubSeq(held[i], n + 1, Len(held[i]))

Init ==
    /\ held = [i \in Link |-> <<>>]
    /\ given = [i \in Link |-> {}]
    /\ acked = {} /\ lost = {} /\ dropped = {}

Put(i, m) ==
    /\ \A k \in Link : m \notin ToSet(held[k])
    /\ m \notin acked \cup lost \cup dropped
    /\ held' = [held EXCEPT ![i] = Append(@, m)]
    /\ UNCHANGED <<given, acked, lost, dropped>>

\* The user of link i is given m, which another link holds or has given up.
MayGive(i, m) ==
    /\ m \in lost \/ \E k \in Link \ {i} : m \in ToSet(held[k])
    /\ m \notin Given
    /\ \A x \in given[i] : x < m

\* One frame may acknowledge the oldest messages of link i and carry a
\* message for its user.
Exchange(i, n, ms) ==
    /\ First(i, n) \subseteq Given
    /\ \A m \in ms : MayGive(i, m)
    /\ held' = [held EXCEPT ![i] = After(i, n)]
    /\ acked' = acked \cup First(i, n)
    /\ given' = [given EXCEPT ![i] = @ \cup ms]
    /\ UNCHANGED <<lost, dropped>>

\* Connections are lost.  The oldest n[i] messages of link i were sent and
\* are lost; the others wait for the next connection, or are dropped with
\* the queue of a link in drop, if nobody was given them.
Disconnect(n, drop) ==
    /\ \A i \in drop : ToSet(After(i, n[i])) \cap Given = {}
    /\ held' = [i \in Link |-> IF i \in drop THEN <<>> ELSE After(i, n[i])]
    /\ lost' = lost \cup UNION {First(i, n[i]) : i \in Link}
    /\ dropped' = dropped \cup UNION {ToSet(After(i, n[i])) : i \in drop}
    /\ UNCHANGED <<given, acked>>

Holders == {i \in Link : held[i] # <<>>}
Losses  == {n \in [Link -> 0..Cardinality(Msg)] : \A i \in Link : n[i] <= Len(held[i])}

Next ==
    \/ \E i \in Link, m \in Msg : Put(i, m)
    \/ \E i \in Link : \E n \in 0..Len(held[i]) :
          \E ms \in {{}} \cup {{m} : m \in Msg} : Exchange(i, n, ms)
    \/ \E n \in Losses, drop \in SUBSET Holders : Disconnect(n, drop)

Spec == Init /\ [][Next]_dvars
=============================================================================
