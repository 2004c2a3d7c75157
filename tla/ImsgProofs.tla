----------------------------- MODULE ImsgProofs -----------------------------
(***************************************************************************)
(* The message and timer queue, for any set of threads and calls, any      *)
(* number of messages and any delays: proofs that lists, flags and         *)
(* counters agree, that nothing is earlier than Anticip allows, that no    *)
(* wake-up is lost and that plain messages form a queue.                   *)
(*                                                                         *)
(* QueueInv is the invariant of a queue outside a critical section, and    *)
(* QueueBut the same while one message is between two lists.  What a part  *)
(* of a critical section does to the messages that wait is Passes.         *)
(***************************************************************************)
EXTENDS Imsg, FiniteSetTheorems, FunctionTheorems, SequenceTheorems,
        WellFoundedInduction, TLAPS

-----------------------------------------------------------------------------
(* Recursive functions *)

LEMMA LeastOf ==
    ASSUME NEW S \in SUBSET Nat, S # {}
    PROVE  \E i \in S : \A j \in S : i <= j
<1>1. PICK i \in S : \A j \in S : ~(<<j, i>> \in OpToRel(<, Nat))
  BY NatLessThanWellFounded, WFMin
<1>2. \A j \in S : ~(j < i)
  BY <1>1 DEF OpToRel
<1> QED
  BY <1>2

\* What holds of 0, and of k if it holds of k - 1, holds up to n.
LEMMA UpTo ==
    ASSUME NEW n \in Nat, NEW S, 0 \in S, \A k \in 1..n : k-1 \in S => k \in S
    PROVE  \A k \in 0..n : k \in S
<1> DEFINE Bad == {k \in 0..n : k \notin S}
<1> SUFFICES ASSUME Bad # {}
             PROVE  FALSE
  OBVIOUS
<1>1. PICK k \in Bad : \A j \in Bad : k <= j
  <2>1. Bad \in SUBSET Nat
    OBVIOUS
  <2> HIDE DEF Bad
  <2> QED
    BY <2>1, LeastOf
<1>2. k \in 0..n /\ k # 0
  BY <1>1
<1>3. k \in 1..n /\ k-1 \in 0..n /\ ~(k <= k-1)
  BY <1>2
<1>4. k-1 \in S
  BY <1>1, <1>3
<1> QED
  BY <1>1, <1>3, <1>4

\* f starts from a and goes by the steps G in X.
Walks(f, X, a, n, G) ==
    f \in [0..n -> X] /\ f[0] = a /\ \A k \in 1..n : f[k] = G[k][f[k-1]]

\* A function defined by its value at 0 and its steps exists.
LEMMA Recursion ==
    ASSUME NEW X, NEW a \in X, NEW n \in Nat, NEW G \in [1..n -> [X -> X]]
    PROVE  \E f : Walks(f, X, a, n, G)
<1> DEFINE Good(k, f) == f[0] = a /\ \A j \in 1..k : f[j] = G[j][f[j-1]]
           S == {k \in 0..n : \E f \in [0..k -> X] : Good(k, f)}
<1>1. 0 \in S
  <2> DEFINE g == [j \in 0..0 |-> a]
  <2>1. g \in [0..0 -> X] /\ Good(0, g)
    OBVIOUS
  <2>2. 0 \in 0..n
    OBVIOUS
  <2> HIDE DEF g, Good
  <2> QED
    BY <2>1, <2>2
<1>2. ASSUME NEW k \in 1..n, k-1 \in S
      PROVE  k \in S
  <2>1. PICK f \in [0..(k-1) -> X] : Good(k-1, f)
    BY <1>2
  <2>2. k \in Nat /\ k-1 \in 0..(k-1) /\ k \in 0..n
    OBVIOUS
  <2>3. PICK x \in X : x = G[k][f[k-1]]
    <3>1. f[k-1] \in X /\ G[k] \in [X -> X]
      BY <2>2
    <3> QED
      BY <3>1
  <2> DEFINE g == [j \in 0..k |-> IF j = k THEN x ELSE f[j]]
  <2>4. g \in [0..k -> X]
    BY <2>2
  <2>5. g[k] = x /\ \A j \in 0..(k-1) : g[j] = f[j]
    BY <2>2
  <2> HIDE DEF g
  <2>6. Good(k, g)
    <3>1. g[0] = a
      BY <2>1, <2>2, <2>5
    <3>2. ASSUME NEW j \in 1..k
          PROVE  g[j] = G[j][g[j-1]]
      <4>1. CASE j = k
        BY <4>1, <2>2, <2>3, <2>5
      <4>2. CASE j # k
        <5>1. j \in 1..(k-1) /\ j \in 0..(k-1) /\ j-1 \in 0..(k-1)
          BY <4>2, <2>2
        <5> QED
          BY <5>1, <2>1, <2>5
      <4> QED
        BY <4>1, <4>2
    <3> QED
      BY <3>1, <3>2
  <2> QED
    BY <2>2, <2>4, <2>6
<1> HIDE DEF S
<1>3. \A k \in 0..n : k \in S
  BY <1>1, <1>2, UpTo
<1>4. n \in S
  BY <1>3
<1> QED
  BY <1>4 DEF S, Walks

-----------------------------------------------------------------------------
(* Times *)

\* Seconds grow with the clock.
LEMMA SecGrows ==
    ASSUME NEW t \in Nat, NEW n \in Nat, t <= n
    PROVE  Sec(t) <= Sec(n)
<1>1. PICK s \in Nat : s = Second /\ s > 0
  BY ImsgAssumption
<1>2. PICK a \in Nat, b \in 0..(s-1) : a = t \div s /\ t = s * a + b
  BY <1>1
<1>3. PICK c \in Nat, d \in 0..(s-1) : c = n \div s /\ n = s * c + d
  BY <1>1
<1>4. ASSUME a > c
      PROVE  FALSE
  <2>1. PICK k \in Nat : a = c + 1 + k
    BY <1>4
  <2>2. s * a = s * c + s + s * k
    BY <2>1, <1>1
  <2>3. s * k >= 0
    BY <1>1, <2>1
  <2>4. PICK x \in Int, y \in Int, z \in Int : x = s * a /\ y = s * c /\ z = s * k
    BY <1>1, <2>1
  <2>5. x + b <= y + d /\ x = y + s + z /\ z >= 0
    BY <2>2, <2>3, <2>4, <1>2, <1>3
  <2> QED
    BY <2>4, <2>5, <1>1
<1> QED
  BY <1>1, <1>2, <1>3, <1>4 DEF Sec

\* A time that has come is near.
LEMMA PastNear ==
    ASSUME now \in Nat, NEW t \in Nat, t <= now
    PROVE  Near(t)
<1>1. Sec(t) <= Sec(now)
  BY SecGrows
<1> QED
  BY <1>1, ImsgAssumption DEF Near

\* What is near stays near.
LEMMA NearLater ==
    ASSUME NEW n \in Nat, NEW l \in Nat, n <= l,
           NEW t \in Nat, t <= n + Anticip, Sec(t) <= Sec(n)
    PROVE  t <= l + Anticip /\ Sec(t) <= Sec(l)
<1>1. Sec(n) <= Sec(l)
  BY SecGrows
<1>2. Anticip \in Nat
  BY ImsgAssumption
<1>3. Sec(t) \in Int /\ Sec(n) \in Int /\ Sec(l) \in Int
  BY ImsgAssumption DEF Sec
<1>4. Sec(t) <= Sec(l)
  BY <1>1, <1>3
<1> QED
  BY <1>2, <1>4

\* What is due is near.
LEMMA ExpiredNear ==
    ASSUME now \in Nat, NEW x, x.end \in Nat, Expired(x)
    PROVE  Near(x.end)
<1>1. PICK t \in Nat : t = x.end
  OBVIOUS
<1>2. Sec(t) \in Int /\ Sec(now) \in Int
  BY <1>1, ImsgAssumption DEF Sec
<1>3. CASE Sec(now) > Sec(t)
  <2>1. ~(now <= t)
    BY <1>2, <1>3, SecGrows
  <2> QED
    BY <2>1, <1>1, PastNear
<1>4. CASE Sec(now) = Sec(t) /\ t - now <= Anticip
  BY <1>1, <1>2, <1>4, ImsgAssumption DEF Near
<1> QED
  BY <1>1, <1>3, <1>4 DEF Expired

-----------------------------------------------------------------------------
(* Lists of messages *)

Distinct(s) == \A i, j \in 1..Len(s) : s[i] = s[j] => i = j

\* What a list of messages is.
LEMMA List ==
    ASSUME NEW s \in Seq(Msg)
    PROVE  /\ Len(s) \in Nat
           /\ \A i \in 1..Len(s) : s[i] \in Msg
           /\ Elems(s) \in SUBSET Msg
<1>1. Len(s) \in Nat
  BY LenProperties
<1>2. \A i \in 1..Len(s) : s[i] \in Msg
  BY ElementOfSeq
<1>3. QED
  BY <1>1, <1>2 DEF Elems

\* The empty list.
LEMMA EmptyList == <<>> \in Seq(Msg) /\ Len(<<>>) = 0 /\ Elems(<<>>) = {} /\ Distinct(<<>>)
<1>1. <<>> \in Seq(Msg) /\ Len(<<>>) = 0
  BY EmptySeq
<1>2. QED
  BY <1>1 DEF Elems, Distinct

\* A list without repetition is as long as its set of messages is large.
LEMMA DistinctLen ==
    ASSUME NEW s \in Seq(Msg), Distinct(s)
    PROVE  IsFiniteSet(Elems(s)) /\ Cardinality(Elems(s)) = Len(s)
<1>1. PICK n \in Nat : n = Len(s)
  BY LenProperties
<1>2. IsFiniteSet(1..n) /\ Cardinality(1..n) = n
  <2>1. 1 \in Int /\ n \in Int
    OBVIOUS
  <2>2. IsFiniteSet(1..n) /\ Cardinality(1..n) = IF 1 > n THEN 0 ELSE n-1+1
    BY <2>1, FS_Interval
  <2>3. QED
    BY <2>2
<1>3. s \in [1..n -> Elems(s)]
  <2>1. s \in [1..n -> Msg]
    BY <1>1, LenProperties
  <2>2. \A i \in 1..n : s[i] \in Elems(s)
    BY <1>1 DEF Elems
  <2>3. QED
    BY <2>1, <2>2
<1>4. \A x \in Elems(s) : \E i \in 1..n : s[i] = x
  BY <1>1 DEF Elems
<1>5. s \in Surjection(1..n, Elems(s))
  BY <1>3, <1>4 DEF Surjection
<1>6. s \in Injection(1..n, Elems(s))
  BY <1>1, <1>3 DEF Injection, IsInjective, Distinct
<1>7. QED
  BY <1>1, <1>2, <1>5, <1>6, FS_Surjection

\* A message at the end of a list.
LEMMA Appended ==
    ASSUME NEW s \in Seq(Msg), NEW m \in Msg
    PROVE  /\ Append(s, m) \in Seq(Msg)
           /\ Len(Append(s, m)) = Len(s) + 1
           /\ Elems(Append(s, m)) = Elems(s) \cup {m}
           /\ Distinct(s) /\ m \notin Elems(s) => Distinct(Append(s, m))
<1>1. PICK n \in Nat : n = Len(s)
  BY LenProperties
<1>2. PICK t \in Seq(Msg) : t = Append(s, m)
  BY AppendProperties
<1>3. Len(t) = n + 1 /\ (\A i \in 1..n : t[i] = s[i]) /\ t[n+1] = m
  BY <1>1, <1>2, AppendProperties
<1>4. Elems(t) = Elems(s) \cup {m}
  BY <1>1, <1>3 DEF Elems
<1>5. ASSUME Distinct(s), m \notin Elems(s)
      PROVE  Distinct(t)
  <2>1. \A i \in 1..n : s[i] # m
    BY <1>1, <1>5 DEF Elems
  <2>2. ASSUME NEW i \in 1..(n+1), NEW j \in 1..(n+1), t[i] = t[j]
        PROVE  i = j
    <3>1. (i = n+1 \/ i \in 1..n) /\ (j = n+1 \/ j \in 1..n)
      OBVIOUS
    <3>2. QED
      BY <3>1, <2>1, <2>2, <1>1, <1>3, <1>5 DEF Distinct
  <2>3. QED
    BY <2>2, <1>3 DEF Distinct
<1>6. QED
  BY <1>1, <1>2, <1>3, <1>4, <1>5

\* Two lists after each other.
LEMMA JoinedLists ==
    ASSUME NEW s \in Seq(Msg), NEW t \in Seq(Msg)
    PROVE  /\ s \o t \in Seq(Msg)
           /\ Len(s \o t) = Len(s) + Len(t)
           /\ \A i \in 1..(Len(s) + Len(t)) :
                 (s \o t)[i] = IF i <= Len(s) THEN s[i] ELSE t[i - Len(s)]
BY ConcatProperties

\* A message put into a list.
LEMMA Inserted ==
    ASSUME NEW s \in Seq(Msg), NEW p \in 1..(Len(s) + 1), NEW m \in Msg
    PROVE  /\ InsertAt(s, p, m) \in Seq(Msg)
           /\ Len(InsertAt(s, p, m)) = Len(s) + 1
           /\ Elems(InsertAt(s, p, m)) = Elems(s) \cup {m}
           /\ Distinct(s) /\ m \notin Elems(s) => Distinct(InsertAt(s, p, m))
<1>1. PICK n \in Nat : n = Len(s)
  BY LenProperties
<1>2. p \in 1..(n+1) /\ \A i \in 1..n : s[i] \in Msg
  BY <1>1, List
<1>3. PICK a \in Seq(Msg) : a = SubSeq(s, 1, p - 1)
                            /\ Len(a) = p - 1 /\ \A i \in 1..(p-1) : a[i] = s[i]
  <2>1. 1 \in Int /\ p - 1 \in Int /\ \A i \in 1..(p-1) : s[i] \in Msg
    BY <1>2
  <2>2. /\ SubSeq(s, 1, p-1) \in Seq(Msg)
        /\ Len(SubSeq(s, 1, p-1)) = IF 1 <= p-1 THEN p-1-1+1 ELSE 0
        /\ \A i \in 1..(p-1-1+1) : SubSeq(s, 1, p-1)[i] = s[1+i-1]
    BY <2>1, SubSeqProperties
  <2>3. PICK x \in Seq(Msg) : x = SubSeq(s, 1, p-1)
    BY <2>2
  <2>4. Len(x) = p - 1 /\ \A i \in 1..(p-1) : x[i] = s[i]
    BY <2>2, <2>3, <1>2
  <2>5. QED
    BY <2>3, <2>4
<1>4. PICK b \in Seq(Msg) : b = SubSeq(s, p, n)
                            /\ Len(b) = n - p + 1 /\ \A i \in 1..(n-p+1) : b[i] = s[p+i-1]
  <2>1. p \in Int /\ n \in Int /\ \A i \in p..n : s[i] \in Msg
    BY <1>2
  <2>2. /\ SubSeq(s, p, n) \in Seq(Msg)
        /\ Len(SubSeq(s, p, n)) = IF p <= n THEN n-p+1 ELSE 0
        /\ \A i \in 1..(n-p+1) : SubSeq(s, p, n)[i] = s[p+i-1]
    BY <2>1, SubSeqProperties
  <2>3. PICK x \in Seq(Msg) : x = SubSeq(s, p, n)
    BY <2>2
  <2>4. Len(x) = n - p + 1 /\ \A i \in 1..(n-p+1) : x[i] = s[p+i-1]
    BY <2>2, <2>3, <1>2
  <2>5. QED
    BY <2>3, <2>4
<1>5. <<m>> \in Seq(Msg) /\ Len(<<m>>) = 1 /\ <<m>>[1] = m
  OBVIOUS
<1>6. PICK c \in Seq(Msg) : c = a \o <<m>>
  BY <1>5, JoinedLists
<1>7. Len(c) = p /\ \A i \in 1..p : c[i] = IF i <= p-1 THEN s[i] ELSE m
  <2>1. Len(c) = p /\ \A i \in 1..p : c[i] = IF i <= p-1 THEN a[i] ELSE <<m>>[i - (p-1)]
    BY <1>2, <1>3, <1>5, <1>6, JoinedLists
  <2>2. QED
    BY <2>1, <1>2, <1>3, <1>5
<1>8. PICK t \in Seq(Msg) : t = c \o b
  BY JoinedLists
<1>9. /\ Len(t) = n + 1
       /\ \A i \in 1..(n+1) : t[i] = IF i < p THEN s[i] ELSE IF i = p THEN m ELSE s[i-1]
  <2>1. Len(t) = n + 1 /\ \A i \in 1..(n+1) : t[i] = IF i <= p THEN c[i] ELSE b[i - p]
    <3>1. /\ Len(t) = Len(c) + Len(b)
          /\ \A i \in 1..(Len(c) + Len(b)) : t[i] = IF i <= Len(c) THEN c[i] ELSE b[i - Len(c)]
      BY <1>8, JoinedLists
    <3>2. Len(c) = p /\ Len(c) + Len(b) = n + 1
      BY <1>2, <1>4, <1>7
    <3>3. QED
      BY <3>1, <3>2
  <2>2. ASSUME NEW i \in 1..(n+1)
        PROVE  t[i] = IF i < p THEN s[i] ELSE IF i = p THEN m ELSE s[i-1]
    <3>1. CASE i <= p
      BY <3>1, <2>1, <1>2, <1>7
    <3>2. CASE i > p
      <4>1. i - p \in 1..(n-p+1) /\ p + (i - p) - 1 = i - 1
        BY <3>2, <1>2
      <4>2. t[i] = b[i-p] /\ b[i-p] = s[i-1]
        BY <3>2, <4>1, <2>1, <1>2, <1>4
      <4>3. QED
        BY <3>2, <4>2, <1>2
    <3>3. QED
      BY <3>1, <3>2, <1>2
  <2>3. QED
    BY <2>1, <2>2
<1>10. t = InsertAt(s, p, m)
  BY <1>1, <1>3, <1>4, <1>6, <1>8 DEF InsertAt
<1>11. Elems(t) = Elems(s) \cup {m}
  <2>1. ASSUME NEW x \in Elems(t)
        PROVE  x \in Elems(s) \cup {m}
    <3>1. PICK i \in 1..(n+1) : x = t[i]
      BY <2>1, <1>9 DEF Elems
    <3>2. i < p => i \in 1..n
      BY <1>2
    <3>3. i > p => i-1 \in 1..n
      BY <1>2
    <3>4. QED
      BY <3>1, <3>2, <3>3, <1>1, <1>2, <1>9 DEF Elems
  <2>2. m \in Elems(t)
    BY <1>2, <1>9 DEF Elems
  <2>3. ASSUME NEW i \in 1..n
        PROVE  s[i] \in Elems(t)
    <3>1. CASE i < p
      <4>1. i \in 1..(n+1) /\ t[i] = s[i]
        BY <3>1, <1>9
      <4>2. QED
        BY <4>1, <1>9 DEF Elems
    <3>2. CASE i >= p
      <4>1. i+1 \in 1..(n+1) /\ t[i+1] = s[i]
        BY <3>2, <1>2, <1>9
      <4>2. QED
        BY <4>1, <1>9 DEF Elems
    <3>3. QED
      BY <3>1, <3>2, <1>2
  <2>4. Elems(s) \subseteq Elems(t)
    BY <2>3, <1>1 DEF Elems
  <2>5. QED
    BY <2>1, <2>2, <2>4
<1>12. ASSUME Distinct(s), m \notin Elems(s)
       PROVE  Distinct(t)
  <2>1. \A i \in 1..n : s[i] # m
    BY <1>1, <1>12 DEF Elems
  <2>2. ASSUME NEW i \in 1..(n+1), NEW j \in 1..(n+1), t[i] = t[j]
        PROVE  i = j
    <3>1. (i < p => i \in 1..n) /\ (j < p => j \in 1..n)
      BY <1>2
    <3>2. (i > p => i-1 \in 1..n) /\ (j > p => j-1 \in 1..n)
      BY <1>2
    <3>3. \A k, l \in 1..n : s[k] = s[l] => k = l
      BY <1>1, <1>12 DEF Distinct
    <3>4. CASE i < p /\ j < p
      BY <3>4, <2>2, <3>1, <3>3, <1>2, <1>9
    <3>5. CASE i > p /\ j > p
      <4>1. s[i-1] = s[j-1]
        BY <3>5, <2>2, <1>2, <1>9
      <4>2. QED
        BY <3>5, <4>1, <3>2, <3>3
    <3>6. CASE i < p /\ j > p
      <4>1. s[i] = s[j-1] /\ i # j-1
        BY <3>6, <2>2, <1>2, <1>9
      <4>2. QED
        BY <3>6, <4>1, <3>1, <3>2, <3>3
    <3>7. CASE i > p /\ j < p
      <4>1. s[i-1] = s[j] /\ i-1 # j
        BY <3>7, <2>2, <1>2, <1>9
      <4>2. QED
        BY <3>7, <4>1, <3>1, <3>2, <3>3
    <3>8. CASE i = p /\ j # p
      <4>1. t[j] # m
        <5>1. j < p => t[j] = s[j]
          BY <1>9
        <5>2. j > p => t[j] = s[j-1]
          BY <1>9
        <5>3. QED
          BY <3>8, <5>1, <5>2, <2>1, <3>1, <3>2, <1>2
      <4>2. QED
        BY <3>8, <4>1, <2>2, <1>9
    <3>9. CASE i # p /\ j = p
      <4>1. t[i] # m
        <5>1. i < p => t[i] = s[i]
          BY <1>9
        <5>2. i > p => t[i] = s[i-1]
          BY <1>2, <1>9
        <5>3. QED
          BY <3>9, <5>1, <5>2, <2>1, <3>1, <3>2, <1>2
      <4>2. QED
        BY <3>9, <4>1, <2>2, <1>9
    <3>10. QED
      BY <3>4, <3>5, <3>6, <3>7, <3>8, <3>9, <1>2
  <2>3. QED
    BY <2>2, <1>9 DEF Distinct
<1>13. QED
  BY <1>1, <1>9, <1>10, <1>11, <1>12

\* The list that its first message leaves.
LEMMA Shifted ==
    ASSUME NEW s \in Seq(Msg), s # <<>>
    PROVE  /\ Head(s) \in Elems(s)
           /\ Tail(s) \in Seq(Msg)
           /\ Len(Tail(s)) = Len(s) - 1
           /\ s = <<Head(s)>> \o Tail(s)
           /\ Distinct(s) => Distinct(Tail(s)) /\ Elems(Tail(s)) = Elems(s) \ {Head(s)}
<1>1. PICK n \in Nat : n = Len(s)
  BY LenProperties
<1>2. n # 0
  BY <1>1, EmptySeq
<1>3. PICK t \in Seq(Msg) : t = Tail(s)
  BY HeadTailProperties
<1>4. Len(t) = n - 1 /\ \A i \in 1..(n-1) : t[i] = s[i+1]
  BY <1>1, <1>3, HeadTailProperties
<1>5. PICK h \in Msg : h = Head(s)
  BY HeadTailProperties
<1>6. 1 \in 1..n /\ h = s[1]
  BY <1>1, <1>2, <1>5
<1>7. h \in Elems(s)
  BY <1>1, <1>6 DEF Elems
<1>8. s = <<h>> \o t
  <2>1. <<h>> \in Seq(Msg) /\ Len(<<h>>) = 1 /\ <<h>>[1] = h
    OBVIOUS
  <2>2. PICK u \in Seq(Msg) : u = <<h>> \o t
    BY <2>1, JoinedLists
  <2>3. Len(u) = n /\ \A i \in 1..n : u[i] = IF i <= 1 THEN <<h>>[i] ELSE t[i-1]
    BY <2>1, <2>2, <1>2, <1>4, JoinedLists
  <2>4. ASSUME NEW i \in 1..n
        PROVE  u[i] = s[i]
    <3>1. CASE i = 1
      BY <3>1, <2>1, <2>3, <1>6
    <3>2. CASE i # 1
      <4>1. i-1 \in 1..(n-1) /\ (i-1)+1 = i /\ ~(i <= 1)
        BY <3>2
      <4>2. u[i] = t[i-1]
        BY <4>1, <2>3
      <4>3. t[i-1] = s[(i-1)+1]
        BY <4>1, <1>4
      <4>4. QED
        BY <4>1, <4>2, <4>3
    <3>3. QED
      BY <3>1, <3>2
  <2>5. QED
    BY <2>2, <2>3, <2>4, <1>1, SeqEqual
<1>9. ASSUME Distinct(s)
      PROVE  Distinct(t) /\ Elems(t) = Elems(s) \ {h}
  <2>1. \A i, j \in 1..n : s[i] = s[j] => i = j
    BY <1>1, <1>9 DEF Distinct
  <2>2. \A i \in 1..(n-1) : i+1 \in 1..n /\ i+1 # 1
    OBVIOUS
  <2>3. Distinct(t)
    BY <2>1, <2>2, <1>4 DEF Distinct
  <2>4. \A i \in 1..(n-1) : t[i] \in Elems(s) /\ t[i] # h
    BY <2>1, <2>2, <1>1, <1>4, <1>6 DEF Elems
  <2>5. ASSUME NEW x \in Elems(s), x # h
        PROVE  x \in Elems(t)
    <3>1. PICK i \in 1..n : x = s[i]
      BY <1>1 DEF Elems
    <3>2. i # 1
      BY <2>5, <3>1, <1>6
    <3>3. i-1 \in 1..(n-1) /\ (i-1)+1 = i
      BY <3>2
    <3>4. QED
      BY <3>1, <3>3, <1>4 DEF Elems
  <2>6. QED
    BY <2>3, <2>4, <2>5, <1>4 DEF Elems
<1>10. QED
  BY <1>1, <1>3, <1>4, <1>5, <1>7, <1>8, <1>9

-----------------------------------------------------------------------------
(* Those *)

\* The function upto of Those.
ThoseUpto(s, S) ==
    LET upto[n \in 0..Len(s)] ==
            IF n = 0 THEN <<>>
            ELSE IF s[n] \in S THEN Append(upto[n-1], s[n]) ELSE upto[n-1]
    IN  upto

\* Those by its steps.
LEMMA ThoseSteps ==
    ASSUME NEW s \in Seq(Msg), NEW S
    PROVE  \E f \in [0..Len(s) -> Seq(Msg)] :
              /\ f[0] = <<>>
              /\ \A k \in 1..Len(s) :
                    f[k] = IF s[k] \in S THEN Append(f[k-1], s[k]) ELSE f[k-1]
              /\ Those(s, S) = f[Len(s)]
<1>1. PICK n \in Nat : n = Len(s) /\ \A i \in 1..n : s[i] \in Msg
  BY List
<1> DEFINE G == [k \in 1..n |-> [x \in Seq(Msg) |-> IF s[k] \in S THEN Append(x, s[k]) ELSE x]]
<1>2. G \in [1..n -> [Seq(Msg) -> Seq(Msg)]]
  <2>1. ASSUME NEW k \in 1..n, NEW x \in Seq(Msg)
        PROVE  Append(x, s[k]) \in Seq(Msg)
    BY <1>1, AppendProperties
  <2>2. QED
    BY <2>1
<1>3. ASSUME NEW k \in 1..n, NEW x \in Seq(Msg)
      PROVE  G[k][x] = IF s[k] \in S THEN Append(x, s[k]) ELSE x
  OBVIOUS
<1>4. PICK e \in Seq(Msg) : e = <<>>
  BY EmptySeq
<1> HIDE DEF G
<1>5. PICK f \in [0..n -> Seq(Msg)] : f[0] = <<>> /\ \A k \in 1..n : f[k] = G[k][f[k-1]]
  <2>1. n \in Nat /\ e \in Seq(Msg)
    BY <1>1, <1>4
  <2>2. \E f : Walks(f, Seq(Msg), e, n, G)
    BY <2>1, <1>2, Recursion
  <2>3. QED
    BY <2>2, <1>4 DEF Walks
<1>6. \A k \in 1..n : f[k] = IF s[k] \in S THEN Append(f[k-1], s[k]) ELSE f[k-1]
  <2> SUFFICES ASSUME NEW k \in 1..n
               PROVE  f[k] = IF s[k] \in S THEN Append(f[k-1], s[k]) ELSE f[k-1]
    OBVIOUS
  <2>1. k-1 \in 0..n
    OBVIOUS
  <2>2. f[k-1] \in Seq(Msg)
    BY <2>1
  <2>3. QED
    BY <2>2, <1>3, <1>5
<1> DEFINE Def(g) == g = [k \in 0..n |-> IF k = 0 THEN <<>>
                                         ELSE IF s[k] \in S THEN Append(g[k-1], s[k])
                                         ELSE g[k-1]]
<1>7. Def(f)
  <2>1. \A k \in 0..n : k # 0 => k \in 1..n
    OBVIOUS
  <2>2. QED
    BY <2>1, <1>5, <1>6
<1>8. ThoseUpto(s, S) = CHOOSE g : Def(g)
  BY <1>1 DEF ThoseUpto
<1>9. PICK h : h = ThoseUpto(s, S) /\ Def(h)
  BY <1>7, <1>8
<1>10. DOMAIN h = 0..n /\ \A k \in 0..n : h[k] = IF k = 0 THEN <<>>
                                         ELSE IF s[k] \in S THEN Append(h[k-1], s[k])
                                         ELSE h[k-1]
  BY <1>9
<1>11. \A k \in 0..n : h[k] = f[k]
  <2> DEFINE Same == {k \in 0..n : h[k] = f[k]}
  <2>1. 0 \in Same
    BY <1>5, <1>10
  <2>2. ASSUME NEW k \in 1..n, k-1 \in Same
        PROVE  k \in Same
    <3>1. k \in 0..n /\ k # 0 /\ h[k-1] = f[k-1]
      BY <2>2
    <3>2. h[k] = IF s[k] \in S THEN Append(h[k-1], s[k]) ELSE h[k-1]
      BY <3>1, <1>10
    <3>3. QED
      BY <3>1, <3>2, <1>6
  <2> HIDE DEF Same
  <2>3. \A k \in 0..n : k \in Same
    BY <2>1, <2>2, UpTo
  <2>4. QED
    BY <2>3 DEF Same
<1>12. Those(s, S) = f[n]
  <2>1. n \in 0..n
    OBVIOUS
  <2>2. Those(s, S) = ThoseUpto(s, S)[n]
    BY <1>1 DEF Those, ThoseUpto
  <2>3. QED
    BY <2>1, <2>2, <1>9, <1>11
<1>13. QED
  BY <1>1, <1>5, <1>6, <1>12

\* Those are the messages of s that are in S, each as often as in s.
LEMMA ThoseAre ==
    ASSUME NEW s \in Seq(Msg), NEW S
    PROVE  /\ Those(s, S) \in Seq(Msg)
           /\ Elems(Those(s, S)) = Elems(s) \cap S
           /\ Distinct(s) => Distinct(Those(s, S))
<1>1. PICK n \in Nat : n = Len(s) /\ \A i \in 1..n : s[i] \in Msg
  BY List
<1>2. PICK f \in [0..n -> Seq(Msg)] :
         /\ f[0] = <<>>
         /\ \A k \in 1..n : f[k] = IF s[k] \in S THEN Append(f[k-1], s[k]) ELSE f[k-1]
         /\ Those(s, S) = f[n]
  <2>1. PICK f \in [0..Len(s) -> Seq(Msg)] :
           /\ f[0] = <<>>
           /\ \A k \in 1..Len(s) :
                 f[k] = IF s[k] \in S THEN Append(f[k-1], s[k]) ELSE f[k-1]
           /\ Those(s, S) = f[Len(s)]
    BY ThoseSteps
  <2>2. QED
    BY <2>1, <1>1
<1> DEFINE First(k) == {s[j] : j \in 1..k} \cap S
           Good == {k \in 0..n : Elems(f[k]) = First(k) /\ (Distinct(s) => Distinct(f[k]))}
<1>3. 0 \in Good
  BY <1>2, EmptyList
<1>4. ASSUME NEW k \in 1..n, k-1 \in Good
      PROVE  k \in Good
  <2>1. k-1 \in 0..n /\ 1..k = (1..(k-1)) \cup {k}
    OBVIOUS
  <2>2. PICK x \in Seq(Msg) : x = f[k-1] /\ Elems(x) = First(k-1)
                              /\ (Distinct(s) => Distinct(x))
    BY <2>1, <1>4
  <2>3. First(k) = First(k-1) \cup ({s[k]} \cap S)
    BY <2>1
  <2>4. Distinct(s) => s[k] \notin First(k-1)
    BY <1>1 DEF Distinct
  <2> HIDE DEF First
  <2>5. Elems(f[k]) = First(k) /\ (Distinct(s) => Distinct(f[k]))
    <3>1. CASE s[k] \in S
      <4>1. f[k] = Append(x, s[k])
        BY <3>1, <2>2, <1>2
      <4>2. QED
        BY <3>1, <4>1, <2>2, <2>3, <2>4, <1>1, Appended
    <3>2. CASE s[k] \notin S
      <4>1. f[k] = x
        BY <3>2, <2>2, <1>2
      <4>2. QED
        BY <3>2, <4>1, <2>2, <2>3
    <3>3. QED
      BY <3>1, <3>2
  <2>6. k \in 0..n
    OBVIOUS
  <2>7. QED
    BY <2>5, <2>6
<1> HIDE DEF Good
<1>5. \A k \in 0..n : k \in Good
  BY <1>3, <1>4, UpTo
<1>6. n \in 0..n /\ n \in Good
  BY <1>5
<1>7. QED
  BY <1>1, <1>2, <1>6 DEF Good, Elems

\* A list without the messages of S.
LEMMA WithoutThem ==
    ASSUME NEW s \in Seq(Msg), Distinct(s), NEW S \in SUBSET Msg
    PROVE  /\ Without(s, S) \in Seq(Msg)
           /\ Elems(Without(s, S)) = Elems(s) \ S
           /\ Distinct(Without(s, S))
           /\ IsFiniteSet(S \cap Elems(s))
           /\ Cardinality(S \cap Elems(s)) \in Nat
           /\ Len(Without(s, S)) = Len(s) - Cardinality(S \cap Elems(s))
<1>1. PICK t \in Seq(Msg) : t = Without(s, S)
  BY ThoseAre DEF Without
<1>2. Elems(t) = Elems(s) \ S /\ Distinct(t)
  <2>1. Elems(t) = Elems(s) \cap (Msg \ S) /\ Distinct(t)
    BY <1>1, ThoseAre DEF Without
  <2>2. QED
    BY <2>1, List
<1>3. /\ IsFiniteSet(Elems(s)) /\ Cardinality(Elems(s)) = Len(s)
      /\ Cardinality(Elems(t)) = Len(t)
  BY <1>2, DistinctLen
<1>4. IsFiniteSet(S \cap Elems(s)) /\ S \cap Elems(s) = Elems(s) \cap S
  BY <1>3, FS_Intersection
<1>5. Cardinality(Elems(s) \ S) = Cardinality(Elems(s)) - Cardinality(Elems(s) \cap S)
  BY <1>3, FS_Difference
<1>6. Cardinality(S \cap Elems(s)) \in Nat
  BY <1>4, FS_CardinalityType
<1>7. QED
  BY <1>1, <1>2, <1>3, <1>4, <1>5, <1>6

\* A list without one message of it.
LEMMA WithoutOne ==
    ASSUME NEW s \in Seq(Msg), Distinct(s), NEW m \in Elems(s)
    PROVE  /\ Without(s, {m}) \in Seq(Msg)
           /\ Elems(Without(s, {m})) = Elems(s) \ {m}
           /\ Distinct(Without(s, {m}))
           /\ Len(Without(s, {m})) = Len(s) - 1
<1>1. {m} \in SUBSET Msg /\ {m} \cap Elems(s) = {m}
  BY List
<1>2. Cardinality({m}) = 1
  BY FS_Singleton
<1>3. QED
  BY <1>1, <1>2, WithoutThem

\* A list without a message it has not.
LEMMA WithoutNone ==
    ASSUME NEW s \in Seq(Msg), Distinct(s), NEW m \in Msg, m \notin Elems(s)
    PROVE  /\ Without(s, {m}) \in Seq(Msg)
           /\ Elems(Without(s, {m})) = Elems(s)
           /\ Distinct(Without(s, {m}))
           /\ Len(Without(s, {m})) = Len(s)
<1>1. {m} \in SUBSET Msg /\ {m} \cap Elems(s) = {} /\ Elems(s) \ {m} = Elems(s)
  OBVIOUS
<1>2. Cardinality({m} \cap Elems(s)) = 0 /\ Len(s) \in Nat
  BY <1>1, FS_EmptySet, List
<1>3. /\ Without(s, {m}) \in Seq(Msg)
      /\ Elems(Without(s, {m})) = Elems(s) \ {m}
      /\ Distinct(Without(s, {m}))
      /\ Len(Without(s, {m})) = Len(s) - Cardinality({m} \cap Elems(s))
  BY <1>1, WithoutThem
<1>4. PICK w \in Seq(Msg) : w = Without(s, {m})
  BY <1>3
<1>5. Elems(w) = Elems(s) /\ Distinct(w)
  BY <1>1, <1>3, <1>4
<1>6. Len(w) = Len(s)
  BY <1>2, <1>3, <1>4
<1>7. QED
  BY <1>4, <1>5, <1>6

-----------------------------------------------------------------------------
(* Queues *)

Queue == [msglist : Seq(Msg), timerlist : Seq(Msg),
          msgcount : Int, timercount : Int, count : Int,
          cd : BOOLEAN, im : [Msg -> Imsg]]

Plain(q) == {m \in Msg : q.im[m].st = "queued" /\ ~InTimers(q.im[m])}
Timed(q) == {m \in Msg : q.im[m].st = "queued" /\ InTimers(q.im[m])}

\* Lists, flags, counters and times of a queue agree, but for message m, which
\* is in no list.
QueueBut(q, m) ==
    /\ q \in Queue
    /\ Distinct(q.msglist) /\ Elems(q.msglist) = Plain(q) \ {m}
    /\ Distinct(q.timerlist) /\ Elems(q.timerlist) = Timed(q) \ {m}
    /\ q.msgcount = Len(q.msglist)
    /\ q.timercount = Len(q.timerlist)
    /\ q.count = q.msgcount + q.timercount
    /\ \A k \in Msg \ {m} : k \in Plain(q) \/ q.im[k].st = "fetched" => Near(q.im[k].end)

\* A queue outside a critical section.
QueueInv(q) == QueueBut(q, NoMsg)

\* From q to r, who sleeps is woken if there are more messages.
Rings(q, r) == (q.cd => r.cd) /\ (r.msgcount > q.msgcount => r.cd)

\* From q to r, messages a left the front of the list, and t joined its back.
Passes(q, r) ==
    /\ \A m \in Msg : q.im[m].st = "fetched" => r.im[m].st = "fetched"
    /\ \E a, t \in Seq(Msg) :
          /\ q.msglist \o t = a \o r.msglist
          /\ \A m \in Elems(a) : r.im[m].st = "fetched"

Follows(q, r) == Rings(q, r) /\ Passes(q, r)

\* NULL is not a message.
LEMMA NoMsgNone == NoMsg \notin Msg
BY ImsgAssumption

\* A queue that keeps its messages follows.
LEMMA KeptFollows ==
    ASSUME NEW q \in Queue, NEW r \in Queue, r.msglist = q.msglist,
           r.msgcount = q.msgcount, r.cd = q.cd,
           \A m \in Msg : q.im[m].st = "fetched" => r.im[m].st = "fetched"
    PROVE  Follows(q, r)
<1>1. q.msgcount \in Int /\ q.msglist \in Seq(Msg)
  BY DEF Queue
<1>2. PICK e \in Seq(Msg) : e = <<>> /\ Elems(e) = {}
  BY EmptyList
<1>3. q.msglist \o e = q.msglist /\ e \o q.msglist = q.msglist
  BY <1>1, <1>2, ConcatEmptySeq
<1>4. Passes(q, r)
  BY <1>2, <1>3 DEF Passes
<1>5. Rings(q, r)
  BY <1>1 DEF Rings
<1>6. QED
  BY <1>4, <1>5 DEF Follows

\* Joining lists is associative.
Associates(s, t, u) == (s \o t) \o u = s \o (t \o u)

LEMMA Associative ==
    ASSUME NEW s \in Seq(Msg), NEW t \in Seq(Msg), NEW u \in Seq(Msg)
    PROVE  Associates(s, t, u)
BY ConcatAssociative DEF Associates

\* Steps that follow each other.
LEMMA FollowsTwice ==
    ASSUME NEW p \in Queue, NEW q \in Queue, NEW r \in Queue, Follows(p, q), Follows(q, r)
    PROVE  Follows(p, r)
<1>1. p.msgcount \in Int /\ q.msgcount \in Int /\ r.msgcount \in Int
  BY DEF Queue
<1>2. Rings(p, r)
  BY <1>1 DEF Follows, Rings
<1>3. PICK l \in Seq(Msg), k \in Seq(Msg), n \in Seq(Msg) :
         l = p.msglist /\ k = q.msglist /\ n = r.msglist
  BY DEF Queue
<1>4. PICK a \in Seq(Msg), t \in Seq(Msg) :
         l \o t = a \o k /\ \A m \in Elems(a) : q.im[m].st = "fetched"
  BY <1>3 DEF Follows, Passes
<1>5. PICK b \in Seq(Msg), u \in Seq(Msg) :
         k \o u = b \o n /\ \A m \in Elems(b) : r.im[m].st = "fetched"
  BY <1>3 DEF Follows, Passes
<1>6. PICK tu \in Seq(Msg), ab \in Seq(Msg), ku \in Seq(Msg) :
         tu = t \o u /\ ab = a \o b /\ ku = k \o u
  BY JoinedLists
<1>7. l \o tu = ab \o n
  <2>1. Associates(l, t, u) /\ Associates(a, k, u) /\ Associates(a, b, n)
    BY Associative
  <2>2. l \o tu = (a \o k) \o u
    BY <2>1, <1>4, <1>6 DEF Associates
  <2>3. (a \o k) \o u = ab \o n
    BY <2>1, <1>5, <1>6 DEF Associates
  <2>4. QED
    BY <2>2, <2>3
<1>8. \A m \in Msg : q.im[m].st = "fetched" => r.im[m].st = "fetched"
  BY DEF Follows, Passes
<1>9. Elems(ab) \subseteq Elems(a) \cup Elems(b)
  <2>1. PICK x \in Nat, y \in Nat : x = Len(a) /\ y = Len(b)
    BY List
  <2>2. Len(ab) = x + y /\ \A i \in 1..(x + y) : ab[i] = IF i <= x THEN a[i] ELSE b[i-x]
    BY <2>1, <1>6, JoinedLists
  <2>3. ASSUME NEW i \in 1..(x + y)
        PROVE  ab[i] \in Elems(a) \cup Elems(b)
    <3>1. CASE i <= x
      <4>1. i \in 1..x /\ ab[i] = a[i]
        BY <3>1, <2>1, <2>2
      <4>2. QED
        BY <4>1, <2>1 DEF Elems
    <3>2. CASE ~(i <= x)
      <4>1. i-x \in 1..y /\ ab[i] = b[i-x]
        BY <3>2, <2>2
      <4>2. QED
        BY <4>1, <2>1 DEF Elems
    <3>3. QED
      BY <3>1, <3>2
  <2>4. QED
    BY <2>2, <2>3 DEF Elems
<1>10. \A m \in Elems(ab) : r.im[m].st = "fetched"
  BY <1>4, <1>5, <1>8, <1>9, List
<1>11. \A m \in Msg : p.im[m].st = "fetched" => r.im[m].st = "fetched"
  BY <1>8 DEF Follows, Passes
<1>12. Passes(p, r)
  BY <1>3, <1>6, <1>7, <1>10, <1>11 DEF Passes
<1>13. QED
  BY <1>2, <1>12 DEF Follows

\* Whatever becomes of a message that is in no list, the rest still agrees.
LEMMA Altered ==
    ASSUME NEW q, NEW m \in Msg, NEW x \in Imsg, QueueBut(q, m)
    PROVE  QueueBut([q EXCEPT !.im[m] = x], m)
<1> DEFINE r == [q EXCEPT !.im[m] = x]
<1>1. r \in Queue /\ r.im = [q.im EXCEPT ![m] = x]
  BY DEF QueueBut, Queue
<1>2. /\ r.msglist = q.msglist /\ r.timerlist = q.timerlist /\ r.msgcount = q.msgcount
      /\ r.timercount = q.timercount /\ r.count = q.count
  BY DEF QueueBut, Queue
<1>3. \A k \in Msg \ {m} : r.im[k] = q.im[k]
  BY <1>1 DEF QueueBut, Queue
<1> HIDE DEF r
<1>4. Plain(r) \ {m} = Plain(q) \ {m} /\ Timed(r) \ {m} = Timed(q) \ {m}
  BY <1>3 DEF Plain, Timed
<1>5. \A k \in Msg \ {m} : k \in Plain(r) <=> k \in Plain(q)
  BY <1>4
<1>6. QueueBut(r, m)
  BY <1>1, <1>2, <1>3, <1>4, <1>5 DEF QueueBut
<1>7. QED
  BY <1>6 DEF r

\* A message that is not queued need not be excepted.
LEMMA Settled ==
    ASSUME NEW q, NEW m \in Msg, QueueBut(q, m), q.im[m].st # "queued",
           q.im[m].st = "fetched" => Near(q.im[m].end)
    PROVE  QueueInv(q)
<1>1. m \notin Plain(q) /\ m \notin Timed(q)
  BY DEF Plain, Timed
<1>2. NoMsg \notin Plain(q) /\ NoMsg \notin Timed(q)
  BY NoMsgNone DEF Plain, Timed
<1>3. Plain(q) \ {m} = Plain(q) \ {NoMsg} /\ Timed(q) \ {m} = Timed(q) \ {NoMsg}
  BY <1>1, <1>2
<1>4. QED
  BY <1>1, <1>3 DEF QueueBut, QueueInv

\* A message not yet in the queue may be excepted.
LEMMA Excepted ==
    ASSUME NEW q, NEW m \in Msg, QueueInv(q), q.im[m].st # "queued"
    PROVE  QueueBut(q, m)
<1>1. m \notin Plain(q) /\ m \notin Timed(q)
  BY DEF Plain, Timed
<1>2. NoMsg \notin Plain(q) /\ NoMsg \notin Timed(q)
  BY NoMsgNone DEF Plain, Timed
<1>3. Plain(q) \ {m} = Plain(q) \ {NoMsg} /\ Timed(q) \ {m} = Timed(q) \ {NoMsg}
  BY <1>1, <1>2
<1>4. QED
  BY <1>1, <1>3, NoMsgNone DEF QueueBut, QueueInv

\* DelTimer takes a timer out of its list.
LEMMA TimerTaken ==
    ASSUME NEW q, QueueInv(q), NEW m \in Timed(q)
    PROVE  /\ QueueBut(DelTimer(q, m), m) /\ Follows(q, DelTimer(q, m))
           /\ DelTimer(q, m).im = q.im /\ DelTimer(q, m).cd = q.cd
<1> DEFINE r == DelTimer(q, m)
           w == Without(q.timerlist, {m})
<1>1. /\ q \in Queue /\ Distinct(q.msglist) /\ Distinct(q.timerlist)
      /\ Elems(q.msglist) = Plain(q) \ {NoMsg} /\ Elems(q.timerlist) = Timed(q) \ {NoMsg}
  BY DEF QueueInv, QueueBut
<1>2. q.timerlist \in Seq(Msg)
  BY <1>1 DEF Queue
<1>3. Elems(q.msglist) = Plain(q) /\ Elems(q.timerlist) = Timed(q)
  BY <1>1, NoMsgNone DEF Plain, Timed
<1>4. /\ w \in Seq(Msg) /\ Elems(w) = Elems(q.timerlist) \ {m} /\ Distinct(w)
      /\ Len(w) = Len(q.timerlist) - 1
  BY <1>1, <1>2, <1>3, WithoutOne
<1>5. /\ r.timerlist = w /\ r.timercount = q.timercount - 1 /\ r.count = q.count - 1
      /\ r.msglist = q.msglist /\ r.msgcount = q.msgcount /\ r.im = q.im /\ r.cd = q.cd
  BY <1>1 DEF DelTimer, Queue
<1>6. r \in Queue
  <2>1. PICK v \in Seq(Msg) : v = w
    BY <1>4
  <2>2. r = [q EXCEPT !.timerlist = v, !.timercount = @ - 1, !.count = @ - 1]
    BY <2>1 DEF DelTimer
  <2>3. q.timercount \in Int /\ q.count \in Int
    BY <1>1 DEF Queue
  <2>4. PICK x \in Int, y \in Int : x = q.timercount - 1 /\ y = q.count - 1
    BY <2>3
  <2>5. r = [q EXCEPT !.timerlist = v, !.timercount = x, !.count = y]
    BY <2>2, <2>4
  <2> HIDE DEF r, w
  <2>6. QED
    BY <2>5, <1>1 DEF Queue
<1> HIDE DEF r, w
<1>7. Plain(r) = Plain(q) /\ Timed(r) = Timed(q) /\ m \notin Plain(q)
  BY <1>5 DEF Plain, Timed
<1>8. /\ q.msgcount = Len(q.msglist) /\ q.timercount = Len(q.timerlist)
      /\ q.count = q.msgcount + q.timercount
      /\ q.msgcount \in Int /\ q.timercount \in Int
  BY DEF QueueInv, QueueBut, Queue
<1>9. \A k \in Msg \ {m} : k \in Plain(r) \/ r.im[k].st = "fetched" => Near(r.im[k].end)
  BY <1>5, <1>7, NoMsgNone DEF QueueInv, QueueBut
<1>10. QueueBut(r, m)
  BY <1>1, <1>3, <1>4, <1>5, <1>6, <1>7, <1>8, <1>9 DEF QueueBut
<1>11. Follows(q, r)
  BY <1>1, <1>5, <1>6, KeptFollows
<1>12. QED
  BY <1>5, <1>10, <1>11 DEF r

-----------------------------------------------------------------------------
(* __MsgAdd *)

\* The least element of a set of numbers.
LEMMA MinIs ==
    ASSUME NEW S \in SUBSET Nat, S # {}
    PROVE  Min(S) \in S /\ \A j \in S : Min(S) <= j
<1>1. \E i \in S : \A j \in S : i <= j
  BY LeastOf
<1>2. QED
  BY <1>1 DEF Min

\* The greatest element of a bounded set of numbers.
LEMMA MaxIs ==
    ASSUME NEW n \in Nat, NEW S \in SUBSET (1..n), S # {}
    PROVE  Max(S) \in S
<1> DEFINE T == {k \in 0..n : n - k \in S}
<1>1. T \in SUBSET Nat /\ T # {}
  <2>1. PICK x \in S : TRUE
    OBVIOUS
  <2>2. n - x \in 0..n /\ n - (n - x) = x
    BY <2>1
  <2>3. n - x \in T
    BY <2>2
  <2>4. T \in SUBSET Nat
    OBVIOUS
  <2> HIDE DEF T
  <2>5. QED
    BY <2>3, <2>4
<1> HIDE DEF T
<1>2. PICK k \in T : \A j \in T : k <= j
  BY <1>1, LeastOf
<1>3. k \in 0..n /\ n - k \in S
  BY <1>2 DEF T
<1>4. ASSUME NEW y \in S
      PROVE  n - k >= y
  <2>1. y \in 1..n /\ n - y \in 0..n /\ n - (n - y) = y
    OBVIOUS
  <2>2. n - y \in T
    BY <2>1 DEF T
  <2>3. k <= n - y
    BY <2>2, <1>2
  <2>4. QED
    BY <2>1, <2>3, <1>3
<1>5. QED
  BY <1>3, <1>4 DEF Max

\* The place of a timer is one in the list or behind it.
LEMMA PlaceIs ==
    ASSUME NEW q, q.timerlist \in Seq(Msg), NEW m
    PROVE  TimerPlace(q, m) \in 1..(Len(q.timerlist) + 1)
<1>1. PICK n \in Nat : n = Len(q.timerlist)
  BY List
<1>2. PICK S \in SUBSET (1..n) : S = {i \in 1..n : q.im[q.timerlist[i]].end <= q.im[m].end}
  OBVIOUS
<1>3. TimerPlace(q, m) = IF S = {} \/ n \in S THEN n + 1 ELSE Max(S)
  BY <1>1, <1>2 DEF TimerPlace
<1>4. S # {} => Max(S) \in S
  BY MaxIs
<1>5. S # {} => Max(S) \in 1..n
  BY <1>4
<1>6. CASE S = {} \/ n \in S
  BY <1>1, <1>3, <1>6
<1>7. CASE ~(S = {} \/ n \in S)
  BY <1>1, <1>3, <1>5, <1>7
<1>8. QED
  BY <1>6, <1>7

\* The invariant by its parts.
LEMMA QueueParts ==
    ASSUME NEW q, NEW m, QueueBut(q, m)
    PROVE  /\ q \in Queue
           /\ q.msglist \in Seq(Msg) /\ q.timerlist \in Seq(Msg)
           /\ Distinct(q.msglist) /\ Elems(q.msglist) = Plain(q) \ {m}
           /\ Distinct(q.timerlist) /\ Elems(q.timerlist) = Timed(q) \ {m}
           /\ Len(q.msglist) \in Nat /\ Len(q.timerlist) \in Nat
           /\ q.msgcount = Len(q.msglist)
           /\ q.timercount = Len(q.timerlist)
           /\ q.count = q.msgcount + q.timercount
           /\ q.cd \in BOOLEAN /\ q.im \in [Msg -> Imsg]
           /\ \A k \in Msg \ {m} :
                 k \in Plain(q) \/ q.im[k].st = "fetched" => Near(q.im[k].end)
<1>1. q.msglist \in Seq(Msg) /\ q.timerlist \in Seq(Msg)
  BY DEF QueueBut, Queue
<1>2. Len(q.msglist) \in Nat /\ Len(q.timerlist) \in Nat
  BY <1>1, List
<1>3. q.cd \in BOOLEAN /\ q.im \in [Msg -> Imsg]
  BY DEF QueueBut, Queue
<1>4. QED
  BY <1>1, <1>2, <1>3 DEF QueueBut

\* A timer that is not linked is put into the timer list.
LEMMA TimerAdded ==
    ASSUME NEW q, NEW m \in Timed(q), QueueBut(q, m)
    PROVE  /\ QueueInv(AddTimerList(q, m)) /\ Follows(q, AddTimerList(q, m))
           /\ AddTimerList(q, m).im = q.im
<1> DEFINE r == AddTimerList(q, m)
<1>1. m \in Msg /\ q \in Queue
  BY QueueParts DEF Timed
<1>2. PICK w \in Seq(Msg) :
         /\ w = InsertAt(q.timerlist, TimerPlace(q, m), m)
         /\ Len(w) = Len(q.timerlist) + 1
         /\ Elems(w) = Elems(q.timerlist) \cup {m}
         /\ Distinct(w)
  <2>1. m \notin Elems(q.timerlist) /\ q.timerlist \in Seq(Msg) /\ Distinct(q.timerlist)
    BY QueueParts
  <2>2. TimerPlace(q, m) \in 1..(Len(q.timerlist) + 1)
    BY <2>1, PlaceIs
  <2>3. QED
    BY <2>1, <2>2, <1>1, Inserted
<1>3. PICK x \in Int, y \in Int : x = q.timercount + 1 /\ y = q.count + 1
  BY <1>1 DEF Queue
<1>4. r = [q EXCEPT !.timerlist = w, !.timercount = x, !.count = y]
  BY <1>2, <1>3 DEF AddTimerList
<1> HIDE DEF r
<1>5. /\ r \in Queue /\ r.timerlist = w /\ r.timercount = x /\ r.count = y
      /\ r.msglist = q.msglist /\ r.msgcount = q.msgcount /\ r.im = q.im /\ r.cd = q.cd
  BY <1>1, <1>4 DEF Queue
<1>6. Plain(r) = Plain(q) /\ Timed(r) = Timed(q) /\ m \notin Plain(q)
  BY <1>5 DEF Plain, Timed
<1>7. NoMsg \notin Plain(q) /\ NoMsg \notin Timed(q)
  BY NoMsgNone DEF Plain, Timed
<1>8. Elems(r.msglist) = Plain(r) \ {NoMsg} /\ Elems(r.timerlist) = Timed(r) \ {NoMsg}
  BY <1>2, <1>5, <1>6, <1>7, QueueParts
<1>9. /\ r.msgcount = Len(r.msglist) /\ r.timercount = Len(r.timerlist)
      /\ r.count = r.msgcount + r.timercount
  <2>1. /\ Len(q.msglist) \in Nat /\ Len(q.timerlist) \in Nat
        /\ q.msgcount = Len(q.msglist) /\ q.timercount = Len(q.timerlist)
        /\ q.count = q.msgcount + q.timercount
    BY QueueParts
  <2>2. PICK a \in Nat, b \in Nat : a = q.msgcount /\ b = q.timercount
    BY <2>1
  <2>3. q.count = a + b /\ x = b + 1 /\ y = a + b + 1
    BY <2>1, <2>2, <1>3
  <2>4. r.msgcount = a /\ r.timercount = b + 1 /\ r.count = a + b + 1
    BY <2>2, <2>3, <1>5
  <2>5. Len(r.msglist) = a /\ Len(r.timerlist) = b + 1
    BY <2>1, <2>2, <1>2, <1>5
  <2>6. QED
    BY <2>4, <2>5
<1>10. m \notin Plain(r) /\ r.im[m].st # "fetched"
  BY <1>5, <1>6 DEF Timed
<1>11. \A k \in Msg \ {NoMsg} : k \in Plain(r) \/ r.im[k].st = "fetched" => Near(r.im[k].end)
  BY <1>5, <1>6, <1>10, QueueParts
<1>12. QueueInv(r)
  BY <1>2, <1>5, <1>8, <1>9, <1>11, QueueParts DEF QueueInv, QueueBut
<1>13. Follows(q, r)
  BY <1>1, <1>5, KeptFollows
<1>14. QED
  BY <1>5, <1>12, <1>13 DEF r

\* A plain message that is not linked is put at the back of the list.
LEMMA MsgAdded ==
    ASSUME NEW q, NEW m \in Plain(q), QueueBut(q, m), Near(q.im[m].end)
    PROVE  /\ QueueInv(AddMsgList(q, m)) /\ Follows(q, AddMsgList(q, m))
           /\ AddMsgList(q, m).im = q.im
<1> DEFINE r == AddMsgList(q, m)
<1>1. m \in Msg /\ q \in Queue
  BY QueueParts DEF Plain
<1>2. PICK w \in Seq(Msg) :
         /\ w = Append(q.msglist, m)
         /\ Len(w) = Len(q.msglist) + 1
         /\ Elems(w) = Elems(q.msglist) \cup {m}
         /\ Distinct(w)
  <2>1. m \notin Elems(q.msglist) /\ q.msglist \in Seq(Msg) /\ Distinct(q.msglist)
    BY QueueParts
  <2>2. QED
    BY <2>1, <1>1, Appended
<1>3. PICK x \in Int, y \in Int : x = q.msgcount + 1 /\ y = q.count + 1
  BY <1>1 DEF Queue
<1>4. r = [q EXCEPT !.msglist = w, !.msgcount = x, !.count = y, !.cd = TRUE]
  BY <1>2, <1>3 DEF AddMsgList
<1> HIDE DEF r
<1>5. /\ r \in Queue /\ r.msglist = w /\ r.msgcount = x /\ r.count = y /\ r.cd
      /\ r.timerlist = q.timerlist /\ r.timercount = q.timercount /\ r.im = q.im
  BY <1>1, <1>4 DEF Queue
<1>6. Plain(r) = Plain(q) /\ Timed(r) = Timed(q) /\ m \notin Timed(q)
  BY <1>5 DEF Plain, Timed
<1>7. NoMsg \notin Plain(q) /\ NoMsg \notin Timed(q)
  BY NoMsgNone DEF Plain, Timed
<1>8. Elems(r.msglist) = Plain(r) \ {NoMsg} /\ Elems(r.timerlist) = Timed(r) \ {NoMsg}
  BY <1>2, <1>5, <1>6, <1>7, QueueParts
<1>9. /\ r.msgcount = Len(r.msglist) /\ r.timercount = Len(r.timerlist)
      /\ r.count = r.msgcount + r.timercount
  <2>1. PICK a \in Nat, b \in Nat : a = q.msgcount /\ b = q.timercount
    BY QueueParts
  <2>2. Len(q.msglist) = a /\ Len(q.timerlist) = b /\ q.count = a + b
    BY <2>1, QueueParts
  <2>3. x = a + 1 /\ y = a + b + 1 /\ Len(w) = a + 1
    BY <2>1, <2>2, <1>2, <1>3
  <2>4. QED
    BY <2>1, <2>2, <2>3, <1>5
<1>10. \A k \in Msg \ {NoMsg} : k \in Plain(r) \/ r.im[k].st = "fetched" => Near(r.im[k].end)
  BY <1>5, <1>6, QueueParts
<1>11. QueueInv(r)
  BY <1>2, <1>5, <1>8, <1>9, <1>10, QueueParts DEF QueueInv, QueueBut
<1>12. Passes(q, r)
  <2>1. PICK e \in Seq(Msg) : e = <<>> /\ Elems(e) = {}
    BY EmptyList
  <2>2. PICK u \in Seq(Msg) : u = <<m>>
    <3>1. <<m>> \in Seq(Msg)
      BY <1>1
    <3>2. QED
      BY <3>1
  <2>3. q.msglist \o u = w /\ e \o w = w
    <3>1. q.msglist \in Seq(Msg)
      BY QueueParts
    <3>2. w = q.msglist \o <<m>>
      BY <3>1, <1>1, <1>2, AppendIsConcat
    <3>3. <<>> \o w = w
      BY ConcatEmptySeq
    <3>4. QED
      BY <3>2, <3>3, <2>1, <2>2
  <2>4. QED
    BY <2>1, <2>3, <1>5 DEF Passes
<1>13. QED
  BY <1>5, <1>11, <1>12 DEF r, Rings, Follows

\* __MsgAdd, of a message that is in no list.
LEMMA Added ==
    ASSUME NEW q, NEW m \in Msg, QueueBut(q, m), q.im[m].st # "fetched",
           ~InTimers(q.im[m]) => Near(q.im[m].end)
    PROVE  /\ QueueInv(MsgAdd(q, m)) /\ Follows(q, MsgAdd(q, m))
           /\ MsgAdd(q, m).im = [q.im EXCEPT ![m].st = "queued"]
<1>1. q \in Queue /\ q.im[m] \in Imsg
  BY QueueParts
<1>2. PICK x \in Imsg : x = [q.im[m] EXCEPT !.st = "queued"]
  BY <1>1 DEF Imsg
<1>3. /\ x.st = "queued" /\ x.timer = q.im[m].timer /\ x.delayed = q.im[m].delayed
      /\ x.end = q.im[m].end
  BY <1>1, <1>2 DEF Imsg
<1>4. PICK r : r = [q EXCEPT !.im[m] = x]
  OBVIOUS
<1>5. QueueBut(r, m)
  BY <1>4, Altered
<1>6. /\ r \in Queue /\ r.im = [q.im EXCEPT ![m] = x] /\ r.im[m] = x
      /\ r.msglist = q.msglist /\ r.msgcount = q.msgcount /\ r.cd = q.cd
      /\ \A k \in Msg : k # m => r.im[k] = q.im[k]
  BY <1>1, <1>4, <1>5, QueueParts DEF Queue
<1>7. Follows(q, r)
  <2>1. \A k \in Msg : q.im[k].st = "fetched" => r.im[k].st = "fetched"
    BY <1>6
  <2>2. QED
    BY <2>1, <1>1, <1>6, KeptFollows
<1>8. r.im = [q.im EXCEPT ![m].st = "queued"]
  BY <1>2, <1>6
<1>9. MsgAdd(q, m) = IF InTimers(r.im[m]) THEN AddTimerList(r, m) ELSE AddMsgList(r, m)
  BY <1>2, <1>4 DEF MsgAdd
<1>10. CASE InTimers(x)
  <2>1. m \in Timed(r)
    BY <1>3, <1>6, <1>10 DEF Timed
  <2>2. PICK s : s = AddTimerList(r, m) /\ QueueInv(s) /\ Follows(r, s) /\ s.im = r.im
    BY <2>1, <1>5, TimerAdded
  <2>3. s \in Queue
    BY <2>2, QueueParts DEF QueueInv
  <2>4. Follows(q, s)
    BY <2>2, <2>3, <1>1, <1>6, <1>7, FollowsTwice
  <2>5. QED
    BY <2>2, <2>4, <1>6, <1>8, <1>9, <1>10
<1>11. CASE ~InTimers(x)
  <2>1. m \in Plain(r)
    BY <1>3, <1>6, <1>11 DEF Plain
  <2>2. Near(r.im[m].end)
    BY <1>3, <1>6, <1>11 DEF InTimers
  <2>3. PICK s : s = AddMsgList(r, m) /\ QueueInv(s) /\ Follows(r, s) /\ s.im = r.im
    BY <2>1, <2>2, <1>5, MsgAdded
  <2>4. s \in Queue
    BY <2>3, QueueParts DEF QueueInv
  <2>5. Follows(q, s)
    BY <2>3, <2>4, <1>1, <1>6, <1>7, FollowsTwice
  <2>6. QED
    BY <2>3, <2>5, <1>6, <1>8, <1>9, <1>11
<1>12. QED
  BY <1>10, <1>11

-----------------------------------------------------------------------------
(* __MsgGet *)

\* One step of Promote.
PromoteOne(q, m) == MsgAdd([DelTimer(q, m) EXCEPT !.im[m] = Promoted(@)], m)

\* A delayed message whose time has come becomes a plain one.
LEMMA PromotedOne ==
    ASSUME NEW q, QueueInv(q), NEW m \in Timed(q), Near(q.im[m].end)
    PROVE  LET r == PromoteOne(q, m)
           IN  QueueInv(r) /\ Follows(q, r) /\ \A k \in Msg \ {m} : r.im[k] = q.im[k]
<1>1. m \in Msg /\ q \in Queue /\ q.im \in [Msg -> Imsg] /\ q.im[m].st = "queued"
  BY QueueParts DEF QueueInv, Timed
<1>2. PICK p : p = DelTimer(q, m) /\ QueueBut(p, m) /\ Follows(q, p) /\ p.im = q.im
  BY TimerTaken
<1>3. PICK x \in Imsg : x = Promoted(q.im[m])
  BY <1>1 DEF Promoted, Imsg
<1>4. x.st = "queued" /\ x.end = q.im[m].end /\ ~InTimers(x)
  BY <1>1, <1>3 DEF Promoted, Imsg, InTimers
<1>5. p \in Queue
  BY <1>2, QueueParts
<1>6. PICK r : r = [p EXCEPT !.im[m] = x]
  OBVIOUS
<1>7. QueueBut(r, m)
  BY <1>1, <1>2, <1>6, Altered
<1>8. /\ r \in Queue /\ r.im[m] = x /\ r.msglist = p.msglist /\ r.msgcount = p.msgcount
      /\ r.cd = p.cd /\ \A k \in Msg \ {m} : r.im[k] = q.im[k]
  BY <1>1, <1>2, <1>5, <1>6, <1>7, QueueParts DEF Queue
<1>9. Follows(p, r)
  BY <1>1, <1>2, <1>4, <1>5, <1>8, KeptFollows
<1>10. Follows(q, r)
  BY <1>1, <1>2, <1>5, <1>8, <1>9, FollowsTwice
<1>11. PICK s : s = MsgAdd(r, m) /\ QueueInv(s) /\ Follows(r, s)
                /\ s.im = [r.im EXCEPT ![m].st = "queued"]
  BY <1>1, <1>4, <1>7, <1>8, Added
<1>12. s \in Queue
  BY <1>11, QueueParts DEF QueueInv
<1>13. Follows(q, s)
  BY <1>1, <1>8, <1>10, <1>11, <1>12, FollowsTwice
<1>14. \A k \in Msg \ {m} : s.im[k] = q.im[k]
  BY <1>8, <1>11 DEF Queue
<1>15. s = PromoteOne(q, m)
  BY <1>2, <1>3, <1>6, <1>11 DEF PromoteOne
<1>16. QED
  BY <1>11, <1>13, <1>14, <1>15

\* The function upto of Promote.
PromoteUpto(q, s) ==
    LET upto[n \in 0..Len(s)] ==
            IF n = 0 THEN q
            ELSE LET p == DelTimer(upto[n-1], s[n])
                 IN  MsgAdd([p EXCEPT !.im[s[n]] = Promoted(@)], s[n])
    IN  upto

\* A queue may be followed by itself.
LEMMA FollowsSelf ==
    ASSUME NEW q \in Queue
    PROVE  Follows(q, q)
BY KeptFollows

\* Promote, of different delayed messages whose time has come.
LEMMA PromotedAll ==
    ASSUME NEW q, QueueInv(q), NEW s \in Seq(Msg), Distinct(s),
           \A m \in Elems(s) : m \in Timed(q) /\ Near(q.im[m].end)
    PROVE  LET r == Promote(q, s)
           IN  QueueInv(r) /\ Follows(q, r) /\ \A k \in Msg \ Elems(s) : r.im[k] = q.im[k]
<1>1. PICK n \in Nat : n = Len(s) /\ \A i \in 1..n : s[i] \in Msg
  BY List
<1>2. q \in Queue
  BY QueueParts DEF QueueInv
<1> DEFINE First(k) == {s[j] : j \in 1..k}
           Good(k, r) == /\ QueueInv(r) /\ Follows(q, r)
                         /\ \A m \in Msg \ First(k) : r.im[m] = q.im[m]
           One(r, k) == PromoteOne(r, s[k])
           G == [k \in 1..n |-> [r \in Queue |-> IF One(r, k) \in Queue THEN One(r, k) ELSE r]]
<1>3. ASSUME NEW k \in 1..n, NEW r, Good(k-1, r)
      PROVE  One(r, k) \in Queue /\ Good(k, One(r, k))
  <2>1. PICK m \in Msg : m = s[k]
    BY <1>1
  <2>2. m \in Elems(s) /\ m \notin First(k-1)
    BY <1>1, <2>1 DEF Elems, Distinct
  <2>3. r.im[m] = q.im[m]
    BY <1>3, <2>2
  <2>4. m \in Timed(r) /\ Near(r.im[m].end)
    BY <2>2, <2>3 DEF Timed
  <2>5. PICK t : t = PromoteOne(r, m) /\ QueueInv(t) /\ Follows(r, t)
                 /\ \A j \in Msg \ {m} : t.im[j] = r.im[j]
    BY <1>3, <2>4, PromotedOne
  <2>6. r \in Queue /\ t \in Queue
    BY <1>3, <2>5, QueueParts DEF QueueInv
  <2>7. Follows(q, t)
    BY <1>2, <1>3, <2>5, <2>6, FollowsTwice
  <2>8. First(k) = First(k-1) \cup {m}
    <3>1. 1..k = (1..(k-1)) \cup {k}
      OBVIOUS
    <3>2. QED
      BY <3>1, <2>1
  <2>9. \A j \in Msg \ First(k) : t.im[j] = q.im[j]
    BY <1>3, <2>5, <2>8
  <2>10. QED
    BY <2>1, <2>5, <2>6, <2>7, <2>9
<1>4. Good(0, q)
  BY <1>2, FollowsSelf
<1> HIDE DEF Good, One
<1>5. G \in [1..n -> [Queue -> Queue]]
  OBVIOUS
<1>6. ASSUME NEW k \in 1..n, NEW r \in Queue
      PROVE  G[k][r] = IF One(r, k) \in Queue THEN One(r, k) ELSE r
  OBVIOUS
<1> HIDE DEF G
<1>7. PICK f : Walks(f, Queue, q, n, G)
  BY <1>1, <1>2, <1>5, Recursion
<1>8. f \in [0..n -> Queue] /\ f[0] = q /\ \A k \in 1..n : f[k] = G[k][f[k-1]]
  BY <1>7 DEF Walks
<1>9. ASSUME NEW k \in 1..n, Good(k-1, f[k-1])
      PROVE  f[k] = One(f[k-1], k) /\ Good(k, f[k])
  <2>1. k-1 \in 0..n
    OBVIOUS
  <2>2. f[k-1] \in Queue
    BY <2>1, <1>8
  <2>3. One(f[k-1], k) \in Queue /\ Good(k, One(f[k-1], k))
    BY <1>3, <1>9
  <2>4. f[k] = G[k][f[k-1]]
    BY <1>8
  <2>5. G[k][f[k-1]] = IF One(f[k-1], k) \in Queue THEN One(f[k-1], k) ELSE f[k-1]
    BY <2>2, <1>6
  <2>6. f[k] = One(f[k-1], k)
    BY <2>3, <2>4, <2>5
  <2>7. QED
    BY <2>3, <2>6
<1> DEFINE Fine == {k \in 0..n : Good(k, f[k])}
<1>10. \A k \in 0..n : k \in Fine
  <2>1. 0 \in Fine
    BY <1>4, <1>8
  <2>2. ASSUME NEW k \in 1..n, k-1 \in Fine
        PROVE  k \in Fine
    BY <2>2, <1>9
  <2> HIDE DEF Fine
  <2>3. QED
    BY <2>1, <2>2, UpTo
<1>11. \A k \in 1..n : f[k] = One(f[k-1], k)
  <2> SUFFICES ASSUME NEW k \in 1..n
               PROVE  f[k] = One(f[k-1], k)
    OBVIOUS
  <2>1. k-1 \in 0..n
    OBVIOUS
  <2>2. Good(k-1, f[k-1])
    BY <2>1, <1>10
  <2>3. QED
    BY <2>2, <1>9
<1>12. \A k \in 0..n : Good(k, f[k])
  BY <1>10
<1> HIDE DEF Fine
<1> DEFINE Def(g) == g = [k \in 0..n |-> IF k = 0 THEN q ELSE One(g[k-1], k)]
<1>13. Def(f)
  <2>1. \A k \in 0..n : k # 0 => k \in 1..n
    OBVIOUS
  <2>2. QED
    BY <2>1, <1>8, <1>11
<1>14. PromoteUpto(q, s) = CHOOSE g : Def(g)
  BY <1>1 DEF PromoteUpto, One, PromoteOne
<1>15. PICK h : h = PromoteUpto(q, s) /\ Def(h)
  BY <1>13, <1>14
<1>16. \A k \in 0..n : h[k] = IF k = 0 THEN q ELSE One(h[k-1], k)
  BY <1>15
<1>17. \A k \in 0..n : h[k] = f[k]
  <2> DEFINE Same == {k \in 0..n : h[k] = f[k]}
  <2>1. 0 \in Same
    BY <1>8, <1>16
  <2>2. ASSUME NEW k \in 1..n, k-1 \in Same
        PROVE  k \in Same
    <3>1. k \in 0..n /\ k # 0 /\ h[k-1] = f[k-1]
      BY <2>2
    <3>2. QED
      BY <3>1, <1>11, <1>16
  <2> HIDE DEF Same
  <2>3. \A k \in 0..n : k \in Same
    BY <2>1, <2>2, UpTo
  <2>4. QED
    BY <2>3 DEF Same
<1>18. n \in 0..n
  OBVIOUS
<1>19. Promote(q, s) = f[n]
  <2>1. Promote(q, s) = PromoteUpto(q, s)[n]
    BY <1>1 DEF Promote, PromoteUpto
  <2>2. QED
    BY <2>1, <1>15, <1>17, <1>18
<1>20. Good(n, f[n]) /\ First(n) = Elems(s)
  BY <1>1, <1>12, <1>18 DEF Elems
<1>21. QED
  BY <1>19, <1>20 DEF Good

\* The part of __MsgGet on timers: what it returns is in no list, and is due.
LEMMA TimerGot ==
    ASSUME NEW q, QueueInv(q), now \in Nat
    PROVE  LET g == GetTimer(q)
           IN  /\ QueueBut(g.q, g.ret) /\ Follows(q, g.q)
               /\ \/ g.ret = NoMsg
                  \/ g.ret \in Timed(g.q) /\ Near(g.q.im[g.ret].end)
<1>1. /\ q \in Queue /\ q.timerlist \in Seq(Msg) /\ Distinct(q.timerlist)
      /\ Elems(q.timerlist) = Timed(q)
  BY QueueParts, NoMsgNone DEF QueueInv, Timed
<1>2. PICK E \in SUBSET Msg : E = {m \in Msg : Expired(q.im[m])}
  OBVIOUS
<1>3. PICK due \in Seq(Msg) : due = Those(q.timerlist, E) /\ Distinct(due)
                             /\ Elems(due) = Timed(q) \cap E
  BY <1>1, ThoseAre
<1>4. \A m \in Elems(due) : m \in Timed(q) /\ Near(q.im[m].end)
  <2>1. \A m \in Msg : q.im[m].end \in Nat
    BY <1>1 DEF Queue, Imsg
  <2> QED
    BY <2>1, <1>2, <1>3, ExpiredNear
<1>5. PICK n \in Nat : n = Len(due) /\ \A i \in 1..n : due[i] \in Msg
  BY List
<1>6. PICK S \in SUBSET (1..n) : S = {i \in 1..n : ~q.im[due[i]].delayed}
  OBVIOUS
<1>7. GetTimer(q) = IF S = {} THEN [q |-> Promote(q, due), ret |-> NoMsg]
                    ELSE [q   |-> DelTimer(Promote(q, SubSeq(due, 1, Min(S) - 1)), due[Min(S)]),
                          ret |-> due[Min(S)]]
  BY <1>2, <1>3, <1>5, <1>6 DEF GetTimer
<1>8. CASE S = {}
  <2>1. PICK r : r = Promote(q, due) /\ QueueInv(r) /\ Follows(q, r)
    BY <1>3, <1>4, PromotedAll
  <2>2. PICK g : g = GetTimer(q) /\ g.q = r /\ g.ret = NoMsg
    BY <2>1, <1>7, <1>8
  <2>3. QED
    BY <2>1, <2>2 DEF QueueInv
<1>9. CASE S # {}
  <2>1. PICK k \in 1..n : k = Min(S)
    <3>1. S \in SUBSET Nat
      OBVIOUS
    <3>2. Min(S) \in S
      BY <3>1, <1>9, MinIs
    <3>3. QED
      BY <3>2
  <2>2. PICK m \in Msg : m = due[k] /\ m \in Elems(due)
    BY <1>5 DEF Elems
  <2>3. PICK s \in Seq(Msg) : /\ s = SubSeq(due, 1, k-1)
                              /\ Len(s) = k-1 /\ \A i \in 1..(k-1) : s[i] = due[i]
    <3>1. 1 \in Int /\ k-1 \in Int /\ \A i \in 1..(k-1) : due[i] \in Msg
      BY <1>5
    <3>2. /\ SubSeq(due, 1, k-1) \in Seq(Msg)
          /\ Len(SubSeq(due, 1, k-1)) = IF 1 <= k-1 THEN k-1-1+1 ELSE 0
          /\ \A i \in 1..(k-1-1+1) : SubSeq(due, 1, k-1)[i] = due[1+i-1]
      BY <3>1, SubSeqProperties
    <3>3. PICK x \in Seq(Msg) : x = SubSeq(due, 1, k-1)
      BY <3>2
    <3>4. Len(x) = k-1 /\ \A i \in 1..(k-1) : x[i] = due[i]
      BY <3>2, <3>3
    <3>5. QED
      BY <3>3, <3>4
  <2>4. \A i \in 1..(k-1) : i \in 1..n /\ i # k
    OBVIOUS
  <2>5. Distinct(s) /\ Elems(s) \subseteq Elems(due) /\ m \notin Elems(s)
    BY <2>2, <2>3, <2>4, <1>3, <1>5 DEF Distinct, Elems
  <2>6. \A x \in Elems(s) : x \in Timed(q) /\ Near(q.im[x].end)
    BY <2>5, <1>4
  <2>7. PICK r : r = Promote(q, s) /\ QueueInv(r) /\ Follows(q, r)
                 /\ \A x \in Msg \ Elems(s) : r.im[x] = q.im[x]
    BY <2>5, <2>6, PromotedAll
  <2>8. r.im[m] = q.im[m]
    BY <2>5, <2>7
  <2>9. m \in Timed(r) /\ Near(r.im[m].end)
    BY <2>2, <2>8, <1>4 DEF Timed
  <2>10. PICK t : t = DelTimer(r, m) /\ QueueBut(t, m) /\ Follows(r, t) /\ t.im = r.im
    BY <2>7, <2>9, TimerTaken
  <2>11. r \in Queue /\ t \in Queue
    BY <2>7, <2>10, QueueParts DEF QueueInv
  <2>12. Follows(q, t)
    BY <2>7, <2>10, <2>11, <1>1, FollowsTwice
  <2>13. PICK g : g = GetTimer(q) /\ g.q = t /\ g.ret = m
    <3>1. GetTimer(q) = [q   |-> DelTimer(Promote(q, SubSeq(due, 1, Min(S) - 1)), due[Min(S)]),
                         ret |-> due[Min(S)]]
      BY <1>7, <1>9
    <3>2. SubSeq(due, 1, Min(S) - 1) = s /\ due[Min(S)] = m
      BY <2>1, <2>2, <2>3
    <3>3. DelTimer(Promote(q, s), m) = t
      BY <2>7, <2>10
    <3>4. GetTimer(q) = [q |-> t, ret |-> m]
      BY <3>1, <3>2, <3>3
    <3>5. QED
      BY <3>4
  <2>14. m \in Timed(t) /\ Near(t.im[m].end)
    BY <2>9, <2>10 DEF Timed
  <2>15. QED
    BY <2>10, <2>12, <2>13, <2>14
<1>10. QED
  BY <1>8, <1>9

\* A message that left its list is given to the caller.
LEMMA Fetched ==
    ASSUME NEW q, NEW m \in Msg, QueueBut(q, m), Near(q.im[m].end)
    PROVE  LET r == [q EXCEPT !.im[m].st = "fetched"]
           IN  /\ QueueInv(r)
               /\ r.msglist = q.msglist /\ r.msgcount = q.msgcount /\ r.cd = q.cd
               /\ r.im[m].st = "fetched" /\ \A k \in Msg \ {m} : r.im[k] = q.im[k]
<1>1. q \in Queue /\ q.im[m] \in Imsg
  BY QueueParts
<1>2. PICK x \in Imsg : x = [q.im[m] EXCEPT !.st = "fetched"]
  BY <1>1 DEF Imsg
<1>3. x.st = "fetched" /\ x.end = q.im[m].end
  BY <1>1, <1>2 DEF Imsg
<1>4. PICK r : r = [q EXCEPT !.im[m] = x]
  OBVIOUS
<1>5. QueueBut(r, m)
  BY <1>4, Altered
<1>6. /\ r.msglist = q.msglist /\ r.msgcount = q.msgcount /\ r.cd = q.cd
      /\ r.im[m] = x /\ \A k \in Msg \ {m} : r.im[k] = q.im[k]
  BY <1>1, <1>4 DEF Queue
<1>7. QueueInv(r)
  BY <1>3, <1>5, <1>6, Settled
<1>8. r = [q EXCEPT !.im[m].st = "fetched"]
  BY <1>2, <1>4
<1>9. QED
  BY <1>3, <1>6, <1>7, <1>8

\* The part of __MsgGet on plain messages, with the message given to the caller.
LEMMA HeadFetched ==
    ASSUME NEW q, QueueInv(q), q.msglist # <<>>
    PROVE  LET g == GetMsg(q)
               r == [g.q EXCEPT !.im[g.ret].st = "fetched"]
           IN  g.ret \in Msg /\ QueueInv(r) /\ Follows(q, r)
<1>1. /\ q \in Queue /\ q.msglist \in Seq(Msg) /\ Distinct(q.msglist)
      /\ Elems(q.msglist) = Plain(q) /\ Elems(q.timerlist) = Timed(q)
  BY QueueParts, NoMsgNone DEF QueueInv, Timed, Plain
<1>2. PICK h \in Msg : h = Head(q.msglist)
  BY <1>1, HeadTailProperties
<1>3. PICK w \in Seq(Msg) :
         /\ w = Tail(q.msglist) /\ h \in Elems(q.msglist)
         /\ Len(w) = Len(q.msglist) - 1
         /\ q.msglist = <<h>> \o w
         /\ Distinct(w) /\ Elems(w) = Elems(q.msglist) \ {h}
  BY <1>1, <1>2, Shifted
<1>4. PICK x \in Int, y \in Int : x = q.msgcount - 1 /\ y = q.count - 1
  BY <1>1 DEF Queue
<1>5. PICK p : p = [q EXCEPT !.msglist = w, !.msgcount = x, !.count = y]
  OBVIOUS
<1>6. /\ p \in Queue /\ p.msglist = w /\ p.msgcount = x /\ p.count = y
      /\ p.timerlist = q.timerlist /\ p.timercount = q.timercount
      /\ p.im = q.im /\ p.cd = q.cd
  BY <1>1, <1>5 DEF Queue
<1>7. PICK g : g = GetMsg(q) /\ g.q = p /\ g.ret = h
  <2>1. GetMsg(q) = [q |-> [q EXCEPT !.msglist = Tail(q.msglist), !.msgcount = q.msgcount - 1,
                                     !.count = q.count - 1],
                     ret |-> Head(q.msglist)]
    BY <1>1 DEF GetMsg, Queue
  <2>2. GetMsg(q) = [q |-> p, ret |-> h]
    BY <2>1, <1>2, <1>3, <1>4, <1>5
  <2>3. QED
    BY <2>2
<1>8. /\ Plain(p) = Plain(q) /\ Timed(p) = Timed(q) /\ h \notin Timed(q)
      /\ h \in Plain(q)
  BY <1>1, <1>3, <1>6 DEF Plain, Timed
<1>9. /\ Len(q.msglist) \in Nat /\ Len(q.timerlist) \in Nat
      /\ q.msgcount = Len(q.msglist) /\ q.timercount = Len(q.timerlist)
      /\ q.count = q.msgcount + q.timercount
  BY QueueParts DEF QueueInv
<1>10. /\ p.msgcount = Len(p.msglist) /\ p.timercount = Len(p.timerlist)
       /\ p.count = p.msgcount + p.timercount
  <2>1. PICK a \in Nat, b \in Nat : a = q.msgcount /\ b = q.timercount
    BY <1>9
  <2>2. q.count = a + b /\ x = a - 1 /\ y = a + b - 1
    BY <2>1, <1>4, <1>9
  <2>3. p.msgcount = a - 1 /\ p.timercount = b /\ p.count = a + b - 1
    BY <2>1, <2>2, <1>6
  <2>4. Len(p.msglist) = a - 1 /\ Len(p.timerlist) = b
    BY <2>1, <1>3, <1>6, <1>9
  <2>5. QED
    BY <2>3, <2>4
<1>11. \A k \in Msg : k \in Plain(q) \/ q.im[k].st = "fetched" => Near(q.im[k].end)
  BY QueueParts, NoMsgNone DEF QueueInv
<1>12. QueueBut(p, h)
  <2>1. Elems(p.msglist) = Plain(p) \ {h} /\ Elems(p.timerlist) = Timed(p) \ {h}
    BY <1>1, <1>3, <1>6, <1>8
  <2>2. Distinct(p.msglist) /\ Distinct(p.timerlist)
    BY <1>3, <1>6, QueueParts DEF QueueInv
  <2>3. \A k \in Msg \ {h} : k \in Plain(p) \/ p.im[k].st = "fetched" => Near(p.im[k].end)
    BY <1>6, <1>8, <1>11
  <2>4. QED
    BY <2>1, <2>2, <2>3, <1>6, <1>10 DEF QueueBut
<1>13. Near(p.im[h].end)
  BY <1>6, <1>8, <1>11
<1> DEFINE s == [p EXCEPT !.im[h].st = "fetched"]
<1>14. /\ QueueInv(s)
       /\ s.msglist = p.msglist /\ s.msgcount = p.msgcount /\ s.cd = p.cd
       /\ s.im[h].st = "fetched" /\ \A k \in Msg \ {h} : s.im[k] = p.im[k]
  BY <1>12, <1>13, Fetched
<1> HIDE DEF s
<1>15. PICK r : /\ r = s /\ QueueInv(r)
                /\ r.msglist = p.msglist /\ r.msgcount = p.msgcount /\ r.cd = p.cd
                /\ r.im[h].st = "fetched" /\ \A k \in Msg \ {h} : r.im[k] = p.im[k]
  BY <1>14
<1>16. Passes(q, r)
  <2>1. PICK e \in Seq(Msg) : e = <<>>
    BY EmptyList
  <2>2. PICK a \in Seq(Msg) : a = <<h>>
    <3>1. <<h>> \in Seq(Msg)
      OBVIOUS
    <3>2. QED
      BY <3>1
  <2>3. Elems(a) = {h}
    <3>1. Len(a) = 1 /\ a[1] = h
      BY <2>2
    <3>2. QED
      BY <3>1 DEF Elems
  <2>4. q.msglist \o e = a \o w
    BY <2>1, <2>2, <1>1, <1>3, ConcatEmptySeq
  <2>5. \A k \in Msg : q.im[k].st = "fetched" => r.im[k].st = "fetched"
    BY <1>6, <1>15
  <2>6. QED
    BY <2>3, <2>4, <2>5, <1>6, <1>15 DEF Passes
<1>17. Rings(q, r)
  BY <1>4, <1>6, <1>9, <1>15 DEF Rings
<1>18. QED
  BY <1>7, <1>15, <1>16, <1>17 DEF Follows, s

\* __MsgGet keeps the invariant; it wakes the others when it promotes, and
\* takes plain messages from the front.
LEMMA Got ==
    ASSUME NEW q, QueueInv(q), now \in Nat, NEW mode
    PROVE  QueueInv(MsgGet(q, mode).q) /\ Follows(q, MsgGet(q, mode).q)
<1>1. q \in Queue
  BY QueueParts DEF QueueInv
<1> DEFINE g == IF mode = "MSG" THEN [q |-> q, ret |-> NoMsg] ELSE GetTimer(q)
           r == IF g.ret # NoMsg \/ mode = "TIMER" THEN g ELSE GetMsg(g.q)
<1>2. PICK p, m : p = g.q /\ m = g.ret
  OBVIOUS
<1>3. /\ QueueBut(p, m) /\ Follows(q, p)
      /\ m = NoMsg \/ (m \in Timed(p) /\ Near(p.im[m].end))
  <2>1. CASE mode = "MSG"
    <3>1. p = q /\ m = NoMsg
      BY <2>1, <1>2
    <3>2. QED
      BY <3>1, <1>1, FollowsSelf DEF QueueInv
  <2>2. CASE mode # "MSG"
    <3>1. p = GetTimer(q).q /\ m = GetTimer(q).ret
      BY <2>2, <1>2
    <3>2. QED
      BY <3>1, TimerGot
  <2>3. QED
    BY <2>1, <2>2
<1>4. p \in Queue
  BY <1>3, QueueParts
<1>5. MsgGet(q, mode) = IF r.ret = NoMsg THEN r ELSE [r EXCEPT !.q.im[r.ret].st = "fetched"]
  BY DEF MsgGet
<1>6. CASE m # NoMsg
  <2>1. m \in Msg /\ p.im[m].st # "fetched"
    BY <1>3, <1>6 DEF Timed
  <2>2. r = g
    BY <1>2, <1>6
  <2> DEFINE s == [p EXCEPT !.im[m].st = "fetched"]
  <2>3. /\ QueueInv(s)
         /\ s.msglist = p.msglist /\ s.msgcount = p.msgcount /\ s.cd = p.cd
         /\ s.im[m].st = "fetched" /\ \A k \in Msg \ {m} : s.im[k] = p.im[k]
    BY <2>1, <1>3, <1>6, Fetched
  <2> HIDE DEF s
  <2>4. PICK t : /\ t = s /\ QueueInv(t)
                 /\ t.msglist = p.msglist /\ t.msgcount = p.msgcount /\ t.cd = p.cd
                 /\ t.im[m].st = "fetched" /\ \A k \in Msg \ {m} : t.im[k] = p.im[k]
    BY <2>3
  <2>5. t \in Queue
    BY <2>4, QueueParts DEF QueueInv
  <2>6. Follows(p, t)
    BY <2>4, <2>5, <1>4, KeptFollows
  <2>7. Follows(q, t)
    BY <2>5, <2>6, <1>1, <1>3, <1>4, FollowsTwice
  <2>8. mode # "MSG"
    BY <1>2, <1>6
  <2>9. g = [q |-> p, ret |-> m]
    <3>1. g = GetTimer(q)
      BY <2>8
    <3>2. \E x, y : GetTimer(q) = [q |-> x, ret |-> y]
      BY DEF GetTimer
    <3>3. QED
      BY <3>1, <3>2, <1>2
  <2>10. MsgGet(q, mode).q = t
    <3>1. r = [q |-> p, ret |-> m]
      BY <2>2, <2>9
    <3> HIDE DEF g, r
    <3>2. MsgGet(q, mode) = [r EXCEPT !.q.im[m].st = "fetched"]
      BY <3>1, <1>5, <1>6
    <3>3. [r EXCEPT !.q.im[m].st = "fetched"].q = s
      BY <3>1 DEF s
    <3>4. QED
      BY <3>2, <3>3, <2>4
  <2>11. QED
    BY <2>4, <2>7, <2>10
<1>7. CASE m = NoMsg /\ (mode = "TIMER" \/ p.msglist = <<>>)
  <2>1. r.q = p /\ r.ret = NoMsg
    BY <1>2, <1>7 DEF GetMsg
  <2>2. MsgGet(q, mode).q = p
    BY <2>1, <1>5
  <2>3. QED
    BY <2>2, <1>3, <1>7 DEF QueueInv
<1>8. CASE m = NoMsg /\ mode # "TIMER" /\ p.msglist # <<>>
  <2>1. r = GetMsg(p)
    BY <1>2, <1>8
  <2>2. PICK h, o : h = r.ret /\ o = r.q
    OBVIOUS
  <2>3. r = [q |-> o, ret |-> h]
    BY <2>1, <2>2, <1>8 DEF GetMsg
  <2>4. PICK t : t = [o EXCEPT !.im[h].st = "fetched"] /\ h \in Msg /\ QueueInv(t)
                 /\ Follows(p, t)
    BY <2>1, <2>2, <1>3, <1>8, HeadFetched DEF QueueInv
  <2>5. h # NoMsg
    BY <2>4, NoMsgNone
  <2>6. MsgGet(q, mode).q = t
    BY <2>2, <2>3, <2>4, <2>5, <1>5
  <2>7. t \in Queue
    BY <2>4, QueueParts DEF QueueInv
  <2>8. Follows(q, t)
    BY <2>4, <2>7, <1>1, <1>3, <1>4, FollowsTwice
  <2>9. QED
    BY <2>4, <2>6, <2>8
<1>9. QED
  BY <1>6, <1>7, <1>8

\* The function upto of MsgGetArray.
ArrayUpto(q, mode, nbmax) ==
    LET upto[n \in 0..nbmax] == IF n = 0 THEN q ELSE MsgGet(upto[n-1], mode).q
    IN  upto

\* rtl_imsgGetArray keeps the invariant too.
LEMMA GotArray ==
    ASSUME NEW q, QueueInv(q), now \in Nat, NEW mode, NEW n \in Nat
    PROVE  QueueInv(MsgGetArray(q, mode, n)) /\ Follows(q, MsgGetArray(q, mode, n))
<1>1. q \in Queue
  BY QueueParts DEF QueueInv
<1> DEFINE Good(r) == QueueInv(r) /\ Follows(q, r)
           One(r) == MsgGet(r, mode).q
           G == [k \in 1..n |-> [r \in Queue |-> IF One(r) \in Queue THEN One(r) ELSE r]]
<1>2. ASSUME NEW r, Good(r)
      PROVE  One(r) \in Queue /\ Good(One(r))
  <2>1. PICK t : t = One(r) /\ QueueInv(t) /\ Follows(r, t)
    BY <1>2, Got
  <2>2. r \in Queue /\ t \in Queue
    BY <1>2, <2>1, QueueParts DEF QueueInv
  <2>3. Follows(q, t)
    BY <1>1, <1>2, <2>1, <2>2, FollowsTwice
  <2>4. QED
    BY <2>1, <2>2, <2>3
<1>3. Good(q)
  BY <1>1, FollowsSelf
<1> HIDE DEF Good, One
<1>4. G \in [1..n -> [Queue -> Queue]]
  OBVIOUS
<1>5. ASSUME NEW k \in 1..n, NEW r \in Queue
      PROVE  G[k][r] = IF One(r) \in Queue THEN One(r) ELSE r
  OBVIOUS
<1> HIDE DEF G
<1>6. PICK f : Walks(f, Queue, q, n, G)
  BY <1>1, <1>4, Recursion
<1>7. f \in [0..n -> Queue] /\ f[0] = q /\ \A k \in 1..n : f[k] = G[k][f[k-1]]
  BY <1>6 DEF Walks
<1>8. ASSUME NEW k \in 1..n, Good(f[k-1])
      PROVE  f[k] = One(f[k-1]) /\ Good(f[k])
  <2>1. k-1 \in 0..n
    OBVIOUS
  <2>2. f[k-1] \in Queue
    BY <2>1, <1>7
  <2>3. One(f[k-1]) \in Queue /\ Good(One(f[k-1]))
    BY <1>2, <1>8
  <2>4. f[k] = G[k][f[k-1]]
    BY <1>7
  <2>5. G[k][f[k-1]] = IF One(f[k-1]) \in Queue THEN One(f[k-1]) ELSE f[k-1]
    BY <2>2, <1>5
  <2>6. f[k] = One(f[k-1])
    BY <2>3, <2>4, <2>5
  <2>7. QED
    BY <2>3, <2>6
<1> DEFINE Fine == {k \in 0..n : Good(f[k])}
<1>9. \A k \in 0..n : k \in Fine
  <2>1. 0 \in Fine
    BY <1>3, <1>7
  <2>2. ASSUME NEW k \in 1..n, k-1 \in Fine
        PROVE  k \in Fine
    BY <2>2, <1>8
  <2> HIDE DEF Fine
  <2>3. QED
    BY <2>1, <2>2, UpTo
<1>10. \A k \in 0..n : Good(f[k])
  BY <1>9
<1> HIDE DEF Fine
<1>11. \A k \in 1..n : f[k] = One(f[k-1])
  <2> SUFFICES ASSUME NEW k \in 1..n
               PROVE  f[k] = One(f[k-1])
    OBVIOUS
  <2>1. k-1 \in 0..n
    OBVIOUS
  <2>2. QED
    BY <2>1, <1>8, <1>10
<1> DEFINE Def(g) == g = [k \in 0..n |-> IF k = 0 THEN q ELSE One(g[k-1])]
<1>12. Def(f)
  <2>1. \A k \in 0..n : k # 0 => k \in 1..n
    OBVIOUS
  <2>2. QED
    BY <2>1, <1>7, <1>11
<1>13. ArrayUpto(q, mode, n) = CHOOSE g : Def(g)
  BY DEF ArrayUpto, One
<1>14. PICK h : h = ArrayUpto(q, mode, n) /\ Def(h)
  BY <1>12, <1>13
<1>15. \A k \in 0..n : h[k] = IF k = 0 THEN q ELSE One(h[k-1])
  BY <1>14
<1>16. \A k \in 0..n : h[k] = f[k]
  <2> DEFINE Same == {k \in 0..n : h[k] = f[k]}
  <2>1. 0 \in Same
    BY <1>7, <1>15
  <2>2. ASSUME NEW k \in 1..n, k-1 \in Same
        PROVE  k \in Same
    <3>1. k \in 0..n /\ k # 0 /\ h[k-1] = f[k-1]
      BY <2>2
    <3>2. QED
      BY <3>1, <1>11, <1>15
  <2> HIDE DEF Same
  <2>3. \A k \in 0..n : k \in Same
    BY <2>1, <2>2, UpTo
  <2>4. QED
    BY <2>3 DEF Same
<1>17. n \in 0..n
  OBVIOUS
<1>18. MsgGetArray(q, mode, n) = f[n]
  <2>1. MsgGetArray(q, mode, n) = ArrayUpto(q, mode, n)[n]
    BY DEF MsgGetArray, ArrayUpto
  <2>2. QED
    BY <2>1, <1>14, <1>16, <1>17
<1>19. Good(f[n])
  BY <1>10, <1>17
<1>20. QED
  BY <1>18, <1>19 DEF Good

-----------------------------------------------------------------------------
(* Removing messages *)

\* From q to r no plain message is added, and nobody is woken.
Shrinks(q, r) == r.msgcount <= q.msgcount /\ r.cd = q.cd

\* A message is unlinked and freed.
LEMMA Deleted ==
    ASSUME NEW q, QueueInv(q), NEW m \in Msg, q.im[m].st = "queued"
    PROVE  QueueInv(DelQueued(q, m)) /\ Shrinks(q, DelQueued(q, m))
<1>1. /\ q \in Queue /\ q.im[m] \in Imsg
      /\ q.msglist \in Seq(Msg) /\ Distinct(q.msglist) /\ Elems(q.msglist) = Plain(q)
      /\ q.timerlist \in Seq(Msg) /\ Distinct(q.timerlist) /\ Elems(q.timerlist) = Timed(q)
  BY QueueParts, NoMsgNone DEF QueueInv, Timed, Plain
<1>2. PICK x \in Imsg : x = Freed(q.im[m])
  BY <1>1 DEF Freed, Imsg
<1>3. x.st = "freed"
  BY <1>1, <1>2 DEF Freed, Imsg
<1>4. /\ Len(q.msglist) \in Nat /\ Len(q.timerlist) \in Nat
      /\ q.msgcount = Len(q.msglist) /\ q.timercount = Len(q.timerlist)
      /\ q.count = q.msgcount + q.timercount
  BY QueueParts DEF QueueInv
<1>5. CASE InTimers(q.im[m])
  <2>1. m \in Timed(q)
    BY <1>5 DEF Timed
  <2>2. PICK p : p = DelTimer(q, m) /\ QueueBut(p, m) /\ p.im = q.im /\ p.cd = q.cd
                 /\ p.msgcount = q.msgcount
    <3>1. DelTimer(q, m).msgcount = q.msgcount
      BY <1>1 DEF DelTimer, Queue
    <3>2. QED
      BY <2>1, <3>1, TimerTaken
  <2>3. p \in Queue
    BY <2>2, QueueParts
  <2>4. PICK r : r = [p EXCEPT !.im[m] = x]
    OBVIOUS
  <2>5. QueueBut(r, m)
    BY <2>2, <2>4, Altered
  <2>6. r.im[m] = x /\ r.cd = q.cd /\ r.msgcount = q.msgcount
    BY <2>2, <2>3, <2>4 DEF Queue
  <2>7. QueueInv(r)
    BY <2>5, <2>6, <1>3, Settled
  <2>8. DelQueued(q, m) = r
    BY <2>2, <2>4, <1>2, <1>5 DEF DelQueued
  <2>9. QED
    BY <2>6, <2>7, <2>8, <1>4 DEF Shrinks
<1>6. CASE ~InTimers(q.im[m])
  <2>1. m \in Plain(q) /\ m \notin Timed(q)
    BY <1>6 DEF Plain, Timed
  <2>2. PICK w \in Seq(Msg) : /\ w = Without(q.msglist, {m}) /\ Distinct(w)
                              /\ Elems(w) = Plain(q) \ {m} /\ Len(w) = Len(q.msglist) - 1
    BY <2>1, <1>1, WithoutOne
  <2>3. PICK u \in Seq(Msg) : /\ u = Without(q.timerlist, {m}) /\ Distinct(u)
                              /\ Elems(u) = Timed(q) /\ Len(u) = Len(q.timerlist)
    BY <2>1, <1>1, WithoutNone
  <2>4. PICK a \in Nat, b \in Nat : a = q.msgcount /\ b = q.timercount
    BY <1>4
  <2>5. PICK r : r = [q EXCEPT !.msglist = w, !.timerlist = u, !.msgcount = a - 1,
                               !.count = a + b - 1, !.im[m] = x]
    OBVIOUS
  <2>6. DelQueued(q, m) = r
    <3>1. q.msgcount - 1 = a - 1 /\ q.count - 1 = a + b - 1
      BY <2>4, <1>4
    <3>2. DelQueued(q, m) = [q EXCEPT !.msglist = Without(q.msglist, {m}),
                                      !.timerlist = Without(q.timerlist, {m}),
                                      !.msgcount = q.msgcount - 1,
                                      !.count = q.count - 1, !.im[m] = Freed(q.im[m])]
      BY <1>1, <1>6 DEF DelQueued, Queue
    <3>3. QED
      BY <3>1, <3>2, <2>2, <2>3, <2>5, <1>2
  <2>7. /\ r.msglist = w /\ r.timerlist = u /\ r.msgcount = a - 1 /\ r.timercount = b
        /\ r.count = a + b - 1 /\ r.cd = q.cd
        /\ r.im[m] = x /\ \A k \in Msg \ {m} : r.im[k] = q.im[k]
    BY <2>4, <2>5, <1>1 DEF Queue
  <2>8. r \in Queue
    <3>1. PICK i \in Int, j \in Int : i = a - 1 /\ j = a + b - 1
      OBVIOUS
    <3>2. r = [q EXCEPT !.msglist = w, !.timerlist = u, !.msgcount = i, !.count = j, !.im[m] = x]
      BY <3>1, <2>5
    <3>3. QED
      BY <3>2, <1>1 DEF Queue
  <2>9. Plain(r) \ {m} = Plain(q) \ {m} /\ Timed(r) \ {m} = Timed(q) \ {m}
    BY <2>7 DEF Plain, Timed
  <2>10. Elems(r.msglist) = Plain(r) \ {m} /\ Elems(r.timerlist) = Timed(r) \ {m}
    BY <2>1, <2>2, <2>3, <2>7, <2>9
  <2>11. r.msgcount = Len(r.msglist) /\ r.timercount = Len(r.timerlist)
         /\ r.count = r.msgcount + r.timercount
    <3>1. Len(r.msglist) = a - 1 /\ Len(r.timerlist) = b
      BY <2>2, <2>3, <2>4, <2>7, <1>4
    <3>2. QED
      BY <3>1, <2>7
  <2>12. \A k \in Msg \ {m} : k \in Plain(r) \/ r.im[k].st = "fetched" => Near(r.im[k].end)
    <3>1. \A k \in Msg : k \in Plain(q) \/ q.im[k].st = "fetched" => Near(q.im[k].end)
      BY QueueParts, NoMsgNone DEF QueueInv
    <3>2. \A k \in Msg \ {m} : k \in Plain(r) <=> k \in Plain(q)
      BY <2>9
    <3>3. QED
      BY <3>1, <3>2, <2>7
  <2>13. QueueBut(r, m)
    BY <2>2, <2>3, <2>7, <2>8, <2>10, <2>11, <2>12 DEF QueueBut
  <2>14. QueueInv(r)
    BY <2>7, <2>13, <1>3, Settled
  <2>15. QED
    BY <2>4, <2>6, <2>7, <2>14 DEF Shrinks
<1>7. QED
  BY <1>5, <1>6

\* All messages of S are unlinked and freed.
LEMMA DeletedAll ==
    ASSUME NEW q, QueueInv(q), NEW S \in SUBSET Msg
    PROVE  QueueInv(DelAll(q, S)) /\ Shrinks(q, DelAll(q, S))
<1>1. /\ q \in Queue /\ q.im \in [Msg -> Imsg]
      /\ q.msglist \in Seq(Msg) /\ Distinct(q.msglist) /\ Elems(q.msglist) = Plain(q)
      /\ q.timerlist \in Seq(Msg) /\ Distinct(q.timerlist) /\ Elems(q.timerlist) = Timed(q)
  BY QueueParts, NoMsgNone DEF QueueInv, Timed, Plain
<1>2. /\ Len(q.msglist) \in Nat /\ Len(q.timerlist) \in Nat
      /\ q.msgcount = Len(q.msglist) /\ q.timercount = Len(q.timerlist)
      /\ q.count = q.msgcount + q.timercount
  BY QueueParts DEF QueueInv
<1>3. PICK ms \in SUBSET Msg : ms = S \cap Elems(q.msglist)
  OBVIOUS
<1>4. PICK ts \in SUBSET Msg : ts = S \cap Elems(q.timerlist)
  OBVIOUS
<1>5. ms \cap Elems(q.msglist) = ms /\ ts \cap Elems(q.timerlist) = ts
  BY <1>3, <1>4
<1>6. PICK w \in Seq(Msg), c \in Nat :
         /\ w = Without(q.msglist, ms) /\ Distinct(w) /\ Elems(w) = Plain(q) \ ms
         /\ c = Cardinality(ms) /\ Len(w) = Len(q.msglist) - c
  <2>1. /\ Without(q.msglist, ms) \in Seq(Msg)
        /\ Elems(Without(q.msglist, ms)) = Elems(q.msglist) \ ms
        /\ Distinct(Without(q.msglist, ms))
        /\ Cardinality(ms \cap Elems(q.msglist)) \in Nat
        /\ Len(Without(q.msglist, ms)) = Len(q.msglist) - Cardinality(ms \cap Elems(q.msglist))
    BY <1>1, WithoutThem
  <2>2. QED
    BY <2>1, <1>1, <1>5
<1>7. PICK u \in Seq(Msg), d \in Nat :
         /\ u = Without(q.timerlist, ts) /\ Distinct(u) /\ Elems(u) = Timed(q) \ ts
         /\ d = Cardinality(ts) /\ Len(u) = Len(q.timerlist) - d
  <2>1. /\ Without(q.timerlist, ts) \in Seq(Msg)
        /\ Elems(Without(q.timerlist, ts)) = Elems(q.timerlist) \ ts
        /\ Distinct(Without(q.timerlist, ts))
        /\ Cardinality(ts \cap Elems(q.timerlist)) \in Nat
        /\ Len(Without(q.timerlist, ts)) = Len(q.timerlist) - Cardinality(ts \cap Elems(q.timerlist))
    BY <1>1, WithoutThem
  <2>2. QED
    BY <2>1, <1>1, <1>5
<1>8. PICK y \in [Msg -> Imsg] :
         y = [m \in Msg |-> IF m \in ms \cup ts THEN Freed(q.im[m]) ELSE q.im[m]]
  <2>1. \A m \in Msg : q.im[m] \in Imsg /\ Freed(q.im[m]) \in Imsg
    <3>1. ASSUME NEW z \in Imsg PROVE Freed(z) \in Imsg
      BY DEF Freed, Imsg
    <3>2. q.im \in [Msg -> Imsg]
      BY <1>1 DEF Queue
    <3>3. QED
      BY <3>1, <3>2
  <2>2. QED
    BY <2>1
<1>9. /\ \A m \in ms \cup ts : y[m].st = "freed"
      /\ \A m \in Msg \ (ms \cup ts) : y[m] = q.im[m]
  <2>1. ASSUME NEW z \in Imsg PROVE Freed(z).st = "freed"
    BY DEF Freed, Imsg
  <2>2. q.im \in [Msg -> Imsg] /\ ms \cup ts \subseteq Msg
    BY <1>1 DEF Queue
  <2>3. QED
    BY <2>1, <2>2, <1>8
<1>10. PICK a \in Nat, b \in Nat : a = q.msgcount /\ b = q.timercount
  BY <1>2
<1>11. PICK r : r = [q EXCEPT !.msglist = w, !.timerlist = u, !.msgcount = a - c,
                              !.timercount = b - d, !.count = a + b - c - d, !.im = y]
  OBVIOUS
<1>12. DelAll(q, S) = r
  <2>1. q.msgcount = a /\ q.timercount = b /\ q.count = a + b
    BY <1>2, <1>10
  <2>2. DelAll(q, S) = [q EXCEPT !.msglist = w, !.timerlist = u, !.msgcount = q.msgcount - c,
                              !.timercount = q.timercount - d, !.count = q.count - c - d, !.im = y]
    <3>1. DelAll(q, S) = [q EXCEPT !.msglist    = Without(q.msglist, ms),
                                   !.timerlist  = Without(q.timerlist, ts),
                                   !.msgcount   = q.msgcount - Cardinality(ms),
                                   !.timercount = q.timercount - Cardinality(ts),
                                   !.count = q.count - Cardinality(ms) - Cardinality(ts),
                                   !.im = [m \in Msg |-> IF m \in ms \cup ts
                                                         THEN Freed(q.im[m])
                                                         ELSE q.im[m]]]
      BY <1>1, <1>3, <1>4 DEF DelAll, Queue
    <3>2. QED
      BY <3>1, <1>6, <1>7, <1>8
  <2>3. /\ q.msgcount - c = a - c /\ q.timercount - d = b - d
        /\ q.count - c - d = a + b - c - d
    BY <2>1
  <2>4. QED
    BY <2>2, <2>3, <1>11
<1>13. /\ r.msglist = w /\ r.timerlist = u /\ r.msgcount = a - c /\ r.timercount = b - d
       /\ r.count = a + b - c - d /\ r.cd = q.cd /\ r.im = y
  BY <1>1, <1>11 DEF Queue
<1>14. r \in Queue
  <2>1. PICK i \in Int, j \in Int, k \in Int : i = a - c /\ j = b - d /\ k = a + b - c - d
    OBVIOUS
  <2>2. r = [q EXCEPT !.msglist = w, !.timerlist = u, !.msgcount = i,
                      !.timercount = j, !.count = k, !.im = y]
    BY <2>1, <1>11
  <2>3. QED
    BY <2>2, <1>1 DEF Queue
<1>15. ms = Plain(q) \cap S /\ ts = Timed(q) \cap S
  BY <1>1, <1>3, <1>4
<1>16. Plain(r) = Plain(q) \ ms /\ Timed(r) = Timed(q) \ ts
  <2>1. Plain(q) \cap Timed(q) = {}
    BY DEF Plain, Timed
  <2>2. QED
    BY <2>1, <1>9, <1>13, <1>15 DEF Plain, Timed
<1>17. NoMsg \notin Plain(q) /\ NoMsg \notin Timed(q)
  BY NoMsgNone DEF Plain, Timed
<1>18. Elems(r.msglist) = Plain(r) \ {NoMsg} /\ Elems(r.timerlist) = Timed(r) \ {NoMsg}
  BY <1>6, <1>7, <1>13, <1>16, <1>17
<1>19. /\ r.msgcount = Len(r.msglist) /\ r.timercount = Len(r.timerlist)
       /\ r.count = r.msgcount + r.timercount
  <2>1. Len(r.msglist) = a - c /\ Len(r.timerlist) = b - d
    BY <1>2, <1>6, <1>7, <1>10, <1>13
  <2>2. QED
    BY <2>1, <1>13
<1>20. ASSUME NEW k \in Msg, k \in Plain(r) \/ r.im[k].st = "fetched"
       PROVE  Near(r.im[k].end)
  <2>1. \A j \in Msg : j \in Plain(q) \/ q.im[j].st = "fetched" => Near(q.im[j].end)
    BY QueueParts, NoMsgNone DEF QueueInv
  <2>2. r.im[k].st # "freed"
    BY <1>20 DEF Plain
  <2>3. r.im[k] = q.im[k]
    BY <2>2, <1>9, <1>13
  <2>4. QED
    BY <2>1, <2>3, <1>16, <1>20
<1>21. QueueInv(r)
  BY <1>6, <1>7, <1>13, <1>14, <1>18, <1>19, <1>20 DEF QueueInv, QueueBut
<1>22. Shrinks(q, r)
  BY <1>10, <1>13 DEF Shrinks
<1>23. QED
  BY <1>12, <1>21, <1>22

-----------------------------------------------------------------------------
(* The inductive invariant *)

Where == [pc : {"idle", "lock", "asleep"}, call : [mode : Mode, timed : BOOLEAN]]

\* NoLostWakeup is inductive only with the counters of QueueInv, and with
\* nobody's wake-up left for later.
ImsgInv ==
    /\ QueueInv(iq) /\ iq.cd = FALSE
    /\ th \in [Thread -> Where]
    /\ now \in 0..MaxNow
    /\ used \in [Budget -> Nat]
    /\ NoLostWakeup

\* The invariant of the queue is about the messages and the clock.
LEMMA QueueLater ==
    ASSUME NEW c, QueueInv(c), iq' = c, now \in Nat, now' \in Nat, now <= now'
    PROVE  QueueInv(iq)'
<1>1. \A k \in Msg : c.im[k].end \in Nat
  BY QueueParts DEF QueueInv, Imsg
<1>2. \A k \in Msg \ {NoMsg} :
         k \in Plain(c) \/ c.im[k].st = "fetched"
            => c.im[k].end <= now' + Anticip /\ Sec(c.im[k].end) <= Sec(now')
  <2>1. PICK n \in Nat, l \in Nat : n = now /\ l = now' /\ n <= l
    OBVIOUS
  <2>2. ASSUME NEW t \in Nat, t <= n + Anticip, Sec(t) <= Sec(n)
        PROVE  t <= l + Anticip /\ Sec(t) <= Sec(l)
    BY <2>1, <2>2, NearLater
  <2>3. ASSUME NEW k \in Msg \ {NoMsg}, k \in Plain(c) \/ c.im[k].st = "fetched"
        PROVE  c.im[k].end <= n + Anticip /\ Sec(c.im[k].end) <= Sec(n)
    BY <2>1, <2>3, QueueParts DEF QueueInv, Near
  <2> QED
    BY <1>1, <2>1, <2>2, <2>3
<1>3. QED
  BY <1>2, QueueParts DEF QueueInv, QueueBut, Near

\* A thread that a section may wake.
LEMMA WokenType ==
    ASSUME th \in [Thread -> Where], NEW r, NEW t \in Thread
    PROVE  Woken(r, t) \in Where
BY DEF Woken, Where

\* A critical section that adds or takes messages, by thread t or by others.
LEMMA SectionInv ==
    ASSUME ImsgInv, NEW r, QueueInv(r), Follows(iq, r), Leave(r),
           now' = now, used' = used, th' \in [Thread -> Where],
           \A t \in Thread : th'[t] = Woken(r, t) \/ th'[t].pc # "asleep"
    PROVE  ImsgInv' /\ Passes(iq, iq')
<1>1. PICK c : c = iq
  OBVIOUS
<1>2. QueueInv(c) /\ Follows(c, r) /\ c.cd = FALSE
  BY <1>1 DEF ImsgInv
<1>3. c \in Queue /\ r \in Queue /\ c.msgcount \in Int /\ r.msgcount \in Int
  BY <1>2, QueueParts DEF QueueInv, Queue
<1>4. PICK s : s = [r EXCEPT !.cd = FALSE]
  OBVIOUS
<1>5. /\ s \in Queue /\ s.cd = FALSE /\ s.msglist = r.msglist /\ s.timerlist = r.timerlist
      /\ s.msgcount = r.msgcount /\ s.timercount = r.timercount /\ s.count = r.count
      /\ s.im = r.im
  BY <1>3, <1>4 DEF Queue
<1>6. Plain(s) = Plain(r) /\ Timed(s) = Timed(r)
  BY <1>5 DEF Plain, Timed
<1>7. QueueInv(s)
  BY <1>5, <1>6, QueueParts DEF QueueInv, QueueBut
<1>8. iq' = s
  BY <1>4 DEF Leave
<1>9. now \in Nat /\ now' \in Nat /\ now <= now' /\ now' \in 0..MaxNow
  BY ImsgAssumption DEF ImsgInv
<1>10. QueueInv(iq)'
  BY <1>7, <1>8, <1>9, QueueLater
<1>11. ASSUME s.msgcount > 0, NEW t \in Thread
       PROVE  th'[t].pc # "asleep"
  <2>1. CASE r.cd
    BY <2>1, <1>3 DEF Woken, Where, ImsgInv
  <2>2. CASE ~r.cd
    <3>1. c.msgcount > 0
      BY <2>2, <1>2, <1>3, <1>5, <1>11 DEF Follows, Rings
    <3>2. th[t].pc # "asleep"
      BY <3>1, <1>1 DEF ImsgInv, NoLostWakeup
    <3>3. QED
      BY <2>2, <3>2 DEF Woken
  <2>3. QED
    BY <2>1, <2>2
<1>12. NoLostWakeup'
  BY <1>8, <1>11 DEF NoLostWakeup
<1>13. ImsgInv'
  BY <1>5, <1>8, <1>9, <1>10, <1>12 DEF ImsgInv
<1>14. Passes(c, s)
  BY <1>2, <1>5 DEF Follows, Passes
<1>15. QED
  BY <1>1, <1>8, <1>13, <1>14

\* A step that leaves the queue as it is, and puts nobody to sleep while
\* there are messages.
LEMMA StillInv ==
    ASSUME ImsgInv, iq' = iq, now' \in 0..MaxNow, now <= now',
           used' = used, th' \in [Thread -> Where],
           \A t \in Thread : th'[t].pc = "asleep" => th[t].pc = "asleep" \/ iq.msgcount <= 0
    PROVE  ImsgInv' /\ Passes(iq, iq')
<1>1. PICK c : c = iq
  OBVIOUS
<1>2. QueueInv(c)
  BY <1>1 DEF ImsgInv
<1>3. now \in Nat /\ now' \in Nat
  BY ImsgAssumption DEF ImsgInv
<1>4. QueueInv(iq)'
  BY <1>1, <1>2, <1>3, QueueLater
<1>5. c \in Queue /\ c.msgcount \in Int
  BY <1>2, QueueParts DEF QueueInv, Queue
<1>6. NoLostWakeup'
  BY <1>1, <1>5 DEF ImsgInv, NoLostWakeup
<1>7. ImsgInv'
  BY <1>4, <1>6 DEF ImsgInv
<1>8. Passes(c, c)
  BY <1>5, FollowsSelf DEF Follows
<1>9. QED
  BY <1>1, <1>7, <1>8

\* A step that removes messages, or puts a delayed one forward.
LEMMA ShrunkInv ==
    ASSUME ImsgInv, NEW r, QueueInv(r), Shrinks(iq, r), iq' = r,
           now' = now, used' \in [Budget -> Nat], th' = th
    PROVE  ImsgInv'
<1>1. PICK c : c = iq
  OBVIOUS
<1>2. QueueInv(c) /\ Shrinks(c, r)
  BY <1>1 DEF ImsgInv
<1>3. now \in Nat /\ now' \in Nat /\ now <= now'
  BY ImsgAssumption DEF ImsgInv
<1>4. QueueInv(iq)'
  BY <1>3, QueueLater
<1>5. c.msgcount \in Int /\ r.msgcount \in Int
  BY <1>2, QueueParts DEF QueueInv, Queue
<1>6. NoLostWakeup'
  BY <1>1, <1>2, <1>5 DEF ImsgInv, NoLostWakeup, Shrinks
<1>7. QED
  BY <1>1, <1>2, <1>4, <1>6 DEF ImsgInv, Shrinks

\* One more call of those that are bounded.
LEMMA Spent ==
    ASSUME ImsgInv, NEW b \in Budget, Spend(b)
    PROVE  used' \in [Budget -> Nat] /\ used'[b] # used[b]
BY DEF ImsgInv, Spend

-----------------------------------------------------------------------------
(* The steps *)

\* rtl_imsgAdd, rtl_imsgAddDelayed: AddNew.
LEMMA AddNewInv ==
    ASSUME ImsgInv, NEW m \in Msg, NEW x \in Imsg, x.st = "none",
           ~InTimers(x) => Near(x.end), AddNew(m, x)
    PROVE  ImsgInv' /\ Passes(iq, iq')
<1>1. PICK c : c = iq
  OBVIOUS
<1>2. QueueInv(c) /\ c.im[m].st = "none"
  BY <1>1 DEF ImsgInv, AddNew, Unallocated
<1>3. c \in Queue
  BY <1>2, QueueParts DEF QueueInv
<1>4. QueueBut(c, m)
  BY <1>2, Excepted
<1>5. PICK p : p = [c EXCEPT !.im[m] = x]
  OBVIOUS
<1>6. QueueBut(p, m)
  BY <1>4, <1>5, Altered
<1>7. /\ p \in Queue /\ p.im[m] = x /\ p.msglist = c.msglist /\ p.msgcount = c.msgcount
      /\ p.cd = c.cd /\ \A k \in Msg \ {m} : p.im[k] = c.im[k]
  BY <1>3, <1>5, <1>6, QueueParts DEF Queue
<1>8. Follows(c, p)
  BY <1>2, <1>3, <1>7, KeptFollows
<1>9. PICK r : r = MsgAdd(p, m) /\ QueueInv(r) /\ Follows(p, r)
  BY <1>6, <1>7, Added
<1>10. r \in Queue
  BY <1>9, QueueParts DEF QueueInv
<1>11. Follows(c, r)
  BY <1>3, <1>7, <1>8, <1>9, <1>10, FollowsTwice
<1>12. /\ Leave(r) /\ WakeUp(r) /\ now' = now /\ used' = used
  BY <1>1, <1>5, <1>9 DEF AddNew
<1>13. th \in [Thread -> Where]
  BY DEF ImsgInv
<1>14. \A t \in Thread : th'[t] = Woken(r, t) /\ Woken(r, t) \in Where
  BY <1>12, <1>13, WokenType DEF WakeUp
<1>15. th' \in [Thread -> Where]
  BY <1>12, <1>14 DEF WakeUp
<1>16. QED
  BY <1>1, <1>9, <1>11, <1>12, <1>14, <1>15, SectionInv

\* The messages that are added.
LEMMA NewMsgs ==
    ASSUME ImsgInv, NEW m \in Msg
    PROVE  /\ Add(m) \/ AddTimer(m) \/ AddDelayed(m)
                 => \E x \in Imsg : /\ x.st = "none" /\ (~InTimers(x) => Near(x.end))
                                    /\ AddNew(m, x)
<1>1. PICK c : c = iq
  OBVIOUS
<1>2. QueueInv(c)
  BY <1>1 DEF ImsgInv
<1>3. c.im[m].to \in To
  BY <1>2, QueueParts DEF QueueInv, Imsg
<1>4. now \in Nat
  BY ImsgAssumption DEF ImsgInv
<1>5. PICK x \in Imsg : x = ImsgAlloc(iq.im[m].to)
  BY <1>1, <1>3, <1>4 DEF ImsgAlloc, Imsg
<1>6. x.st = "none" /\ x.end = now
  BY <1>5 DEF ImsgAlloc
<1>7. CASE Add(m)
  <2>1. Near(x.end)
    BY <1>4, <1>6, PastNear
  <2>2. QED
    BY <2>1, <1>5, <1>6, <1>7 DEF Add
<1>8. ASSUME NEW delta \in Delta
      PROVE  now + delta \in Nat
  BY <1>4, ImsgAssumption
<1>9. CASE AddTimer(m)
  <2>1. PICK delta \in Delta : AddNew(m, TimerAlloc(delta, iq.im[m].to))
    BY <1>9 DEF AddTimer
  <2>2. PICK y \in Imsg : y = TimerAlloc(delta, iq.im[m].to)
    <3>1. PICK n \in Nat : n = now + delta
      BY <1>8
    <3>2. [x EXCEPT !.timer = TRUE, !.end = n] \in Imsg
      BY DEF Imsg
    <3>3. QED
      BY <3>1, <3>2, <1>5 DEF TimerAlloc
  <2>3. y.st = "none" /\ InTimers(y)
    BY <2>2, <1>5, <1>6 DEF TimerAlloc, Imsg, InTimers
  <2>4. QED
    BY <2>1, <2>2, <2>3
<1>10. CASE AddDelayed(m)
  <2>1. PICK delta \in Delta, timer \in BOOLEAN :
           AddNew(m, [ImsgAlloc(iq.im[m].to) EXCEPT
                        !.timer = timer, !.delayed = TRUE, !.end = now + delta])
    BY <1>10 DEF AddDelayed
  <2>2. PICK n \in Nat : n = now + delta
    BY <1>8
  <2>3. PICK y \in Imsg : y = [x EXCEPT !.timer = timer, !.delayed = TRUE, !.end = n]
    BY DEF Imsg
  <2>4. y.st = "none" /\ InTimers(y)
    BY <2>3, <1>6 DEF Imsg, InTimers
  <2>5. QED
    BY <2>1, <2>2, <2>3, <2>4, <1>5
<1>11. QED
  BY <1>7, <1>9, <1>10

\* rtl_imsgGet and rtl_imsgGetArray.
LEMMA GetInv ==
    ASSUME ImsgInv, NEW mode,
           Get(mode) \/ \E nbmax \in 1..NbMax : GetArray(mode, nbmax)
    PROVE  ImsgInv' /\ Passes(iq, iq')
<1>1. PICK c : c = iq
  OBVIOUS
<1>2. QueueInv(c) /\ now \in Nat
  BY <1>1, ImsgAssumption DEF ImsgInv
<1>3. PICK r : /\ QueueInv(r) /\ Follows(c, r)
               /\ Leave(r) /\ WakeUp(r) /\ now' = now /\ used' = used
  <2>1. CASE Get(mode)
    <3>1. PICK r : r = MsgGet(c, mode).q /\ QueueInv(r) /\ Follows(c, r)
      BY <1>2, Got
    <3>2. QED
      BY <3>1, <2>1, <1>1 DEF Get
  <2>2. CASE \E nbmax \in 1..NbMax : GetArray(mode, nbmax)
    <3>1. PICK n \in 1..NbMax : GetArray(mode, n)
      BY <2>2
    <3>2. n \in Nat
      BY ImsgAssumption
    <3>3. PICK r : r = MsgGetArray(c, mode, n) /\ QueueInv(r) /\ Follows(c, r)
      BY <3>2, <1>2, GotArray
    <3>4. QED
      BY <3>1, <3>3, <1>1 DEF GetArray
  <2>3. QED
    BY <2>1, <2>2
<1>4. th \in [Thread -> Where]
  BY DEF ImsgInv
<1>5. \A t \in Thread : th'[t] = Woken(r, t) /\ Woken(r, t) \in Where
  BY <1>3, <1>4, WokenType DEF WakeUp
<1>6. th' \in [Thread -> Where]
  BY <1>3, <1>5 DEF WakeUp
<1>7. QED
  BY <1>1, <1>3, <1>5, <1>6, SectionInv

\* The calling thread of a section goes elsewhere, the others may be woken.
LEMMA CallerType ==
    ASSUME ImsgInv, NEW r, NEW u \in Thread, NEW w \in Where, w.pc # "asleep",
           th' = [t \in Thread |-> IF t = u THEN w ELSE Woken(r, t)]
    PROVE  /\ th' \in [Thread -> Where]
           /\ \A t \in Thread : th'[t] = Woken(r, t) \/ th'[t].pc # "asleep"
<1>1. th \in [Thread -> Where]
  BY DEF ImsgInv
<1>2. \A t \in Thread : Woken(r, t) \in Where
  BY <1>1, WokenType
<1>3. QED
  BY <1>2

\* rtl_imsgWait, rtl_imsgWaitTime: the call.
LEMMA WaitCallInv ==
    ASSUME ImsgInv, NEW t \in Thread, NEW call \in Calls[t], WaitCall(t, call)
    PROVE  ImsgInv' /\ Passes(iq, iq')
<1>1. PICK c : c = iq
  OBVIOUS
<1>2. QueueInv(c) /\ c \in Queue /\ now \in Nat
  BY <1>1, QueueParts, ImsgAssumption DEF ImsgInv, QueueInv
<1> DEFINE g == IF call.mode = "MSG" THEN [q |-> c, ret |-> NoMsg] ELSE MsgGet(c, "TIMER")
<1>3. PICK r : r = g.q /\ QueueInv(r) /\ Follows(c, r)
  <2>1. QueueInv(MsgGet(c, "TIMER").q) /\ Follows(c, MsgGet(c, "TIMER").q)
    BY <1>2, Got
  <2>2. Follows(c, c)
    BY <1>2, FollowsSelf
  <2>3. QED
    BY <2>1, <2>2, <1>2
<1>4. PICK w : w = IF g.ret # NoMsg THEN Idle ELSE [pc |-> "lock", call |-> call]
  OBVIOUS
<1>5. w \in Where /\ w.pc # "asleep"
  <2>1. call \in [mode : Mode, timed : BOOLEAN]
    BY ImsgAssumption
  <2>2. QED
    BY <2>1, <1>4 DEF Where, Idle, Mode
<1>6. /\ Leave(r) /\ now' = now /\ used' = used
      /\ th' = [u \in Thread |-> IF u = t THEN w ELSE Woken(r, u)]
  <2>1. /\ Leave(g.q) /\ now' = now /\ used' = used
        /\ th' = [u \in Thread |-> IF u # t THEN Woken(g.q, u)
                                   ELSE IF g.ret # NoMsg THEN Idle
                                   ELSE [pc |-> "lock", call |-> call]]
    BY <1>1 DEF WaitCall
  <2> HIDE DEF g
  <2>2. QED
    BY <2>1, <1>3, <1>4
<1> HIDE DEF g
<1>7. /\ th' \in [Thread -> Where]
      /\ \A u \in Thread : th'[u] = Woken(r, u) \/ th'[u].pc # "asleep"
  BY <1>5, <1>6, CallerType
<1>8. QED
  BY <1>1, <1>3, <1>6, <1>7, SectionInv

\* rtl_imsgWait, rtl_imsgWaitTime: there is a message.
LEMMA WaitGetInv ==
    ASSUME ImsgInv, NEW t \in Thread, WaitGet(t)
    PROVE  ImsgInv' /\ Passes(iq, iq')
<1>1. PICK c, mode : c = iq /\ mode = th[t].call.mode
  OBVIOUS
<1>2. QueueInv(c) /\ now \in Nat
  BY <1>1, ImsgAssumption DEF ImsgInv
<1>3. PICK r : r = MsgGet(c, mode).q /\ QueueInv(r) /\ Follows(c, r)
  BY <1>2, Got
<1>4. Idle \in Where /\ Idle.pc # "asleep"
  BY DEF Idle, Where, Mode
<1>5. /\ Leave(r) /\ now' = now /\ used' = used
      /\ th' = [u \in Thread |-> IF u = t THEN Idle ELSE Woken(r, u)]
  BY <1>1, <1>3 DEF WaitGet
<1>6. /\ th' \in [Thread -> Where]
      /\ \A u \in Thread : th'[u] = Woken(r, u) \/ th'[u].pc # "asleep"
  BY <1>4, <1>5, CallerType
<1>7. QED
  BY <1>1, <1>3, <1>5, <1>6, SectionInv

\* A thread falls asleep, or wakes up by itself.
LEMMA SleepInv ==
    ASSUME ImsgInv, NEW t \in Thread, WaitSleep(t) \/ Spurious(t) \/ WaitTimeout(t)
    PROVE  ImsgInv' /\ Passes(iq, iq')
<1>1. th \in [Thread -> Where] /\ now \in 0..MaxNow
  BY DEF ImsgInv
<1>2. iq' = iq /\ now' = now /\ used' = used
  BY DEF WaitSleep, Spurious, WaitTimeout
<1>3. th[t] \in Where /\ Idle \in Where
  BY <1>1 DEF Idle, Where, Mode
<1>4. /\ th' \in [Thread -> Where]
      /\ \A u \in Thread : th'[u].pc = "asleep" => th[u].pc = "asleep" \/ iq.msgcount <= 0
  <2>1. CASE WaitSleep(t)
    BY <2>1, <1>1, <1>3 DEF WaitSleep, Where
  <2>2. CASE Spurious(t)
    BY <2>2, <1>1, <1>3 DEF Spurious, Where
  <2>3. CASE WaitTimeout(t)
    <3>1. th' = [th EXCEPT ![t] = Idle] /\ Idle.pc # "asleep"
      BY <2>3 DEF WaitTimeout, Idle
    <3>2. QED
      BY <3>1, <1>1, <1>3
  <2>4. QED
    BY <2>1, <2>2, <2>3
<1>5. now <= now'
  BY <1>1, <1>2, ImsgAssumption
<1>6. QED
  BY <1>1, <1>2, <1>4, <1>5, StillInv

\* rtl_imsgRemove, rtl_imsgRemoveTo and the others that remove messages.
LEMMA RemoveInv ==
    ASSUME ImsgInv,
           \/ \E m \in Msg : Remove(m)
           \/ \E to \in To : RemoveTo(to)
           \/ RemoveAll
    PROVE  ImsgInv' /\ used'["remove"] # used["remove"]
<1>1. PICK c : c = iq
  OBVIOUS
<1>2. QueueInv(c)
  BY <1>1 DEF ImsgInv
<1>3. "remove" \in Budget /\ Spend("remove") /\ now' = now /\ th' = th
  BY DEF Budget, Remove, RemoveTo, RemoveAll
<1>4. PICK r : QueueInv(r) /\ Shrinks(c, r) /\ iq' = r
  <2>1. CASE \E m \in Msg : Remove(m)
    <3>1. PICK m \in Msg : Remove(m)
      BY <2>1
    <3>2. c.im[m].st = "queued" /\ iq' = DelQueued(c, m)
      BY <3>1, <1>1 DEF Remove
    <3>3. QED
      BY <3>2, <1>2, Deleted
  <2>2. CASE \E to \in To : RemoveTo(to)
    <3>1. PICK to \in To : RemoveTo(to)
      BY <2>2
    <3>2. PICK S \in SUBSET Msg : S = {m \in Msg : iq.im[m].to = to}
      OBVIOUS
    <3>3. iq' = DelAll(c, S)
      BY <3>1, <3>2, <1>1 DEF RemoveTo
    <3>4. QED
      BY <3>3, <1>2, DeletedAll
  <2>3. CASE RemoveAll
    <3>1. iq' = DelAll(c, Msg)
      BY <2>3, <1>1 DEF RemoveAll
    <3>2. QED
      BY <3>1, <1>2, DeletedAll
  <2>4. QED
    BY <2>1, <2>2, <2>3
<1>5. used' \in [Budget -> Nat] /\ used'["remove"] # used["remove"]
  BY <1>3, Spent
<1>6. QED
  BY <1>1, <1>3, <1>4, <1>5, ShrunkInv

\* rtl_imsgCancelDelay.
LEMMA CancelInv ==
    ASSUME ImsgInv, NEW m \in Msg, CancelDelay(m)
    PROVE  ImsgInv' /\ Passes(iq, iq')
<1>1. PICK c : c = iq
  OBVIOUS
<1>2. QueueInv(c) /\ c \in Queue /\ c.im \in [Msg -> Imsg] /\ c.msgcount \in Int
  BY <1>1, QueueParts DEF ImsgInv, QueueInv, Queue
<1>3. PICK n \in Nat : n = now
  BY ImsgAssumption DEF ImsgInv
<1>4. c.im[m].st = "queued" /\ InTimers(c.im[m])
  BY <1>1 DEF CancelDelay, InTimers
<1>5. PICK x \in Imsg : x = [c.im[m] EXCEPT !.end = n]
  BY <1>2 DEF Imsg
<1>6. x.st = "queued" /\ InTimers(x) /\ x.end = n
  BY <1>2, <1>4, <1>5 DEF Imsg, InTimers
<1>7. PICK r : r = [c EXCEPT !.im[m] = x]
  OBVIOUS
<1>8. /\ r \in Queue /\ r.msglist = c.msglist /\ r.timerlist = c.timerlist
      /\ r.msgcount = c.msgcount /\ r.timercount = c.timercount /\ r.count = c.count
      /\ r.cd = c.cd /\ r.im[m] = x /\ \A k \in Msg \ {m} : r.im[k] = c.im[k]
  BY <1>2, <1>7 DEF Queue
<1>9. Plain(r) = Plain(c) /\ Timed(r) = Timed(c)
  BY <1>4, <1>6, <1>8 DEF Plain, Timed
<1>10. m \notin Plain(r) /\ r.im[m].st # "fetched"
  BY <1>6, <1>8 DEF Plain
<1>11. \A k \in Msg \ {NoMsg} : k \in Plain(r) \/ r.im[k].st = "fetched" => Near(r.im[k].end)
  BY <1>2, <1>8, <1>9, <1>10, QueueParts DEF QueueInv
<1>12. QueueInv(r)
  BY <1>2, <1>8, <1>9, <1>11, QueueParts DEF QueueInv, QueueBut
<1>13. iq' = r /\ now' = now /\ th' = th /\ Spend("cancel") /\ "cancel" \in Budget
  BY <1>1, <1>3, <1>5, <1>7 DEF CancelDelay, Budget
<1>14. Shrinks(c, r)
  BY <1>2, <1>8 DEF Shrinks
<1>15. used' \in [Budget -> Nat]
  BY <1>13, Spent
<1>16. ImsgInv'
  BY <1>1, <1>12, <1>13, <1>14, <1>15, ShrunkInv
<1>17. Passes(c, r)
  <2>1. \A k \in Msg : c.im[k].st = "fetched" => r.im[k].st = "fetched"
    BY <1>4, <1>8
  <2>2. QED
    BY <2>1, <1>2, <1>8, KeptFollows DEF Follows
<1>18. QED
  BY <1>1, <1>13, <1>16, <1>17

\* Every step keeps the invariant, and one that removes nothing passes messages on.
LEMMA NextInv ==
    ASSUME ImsgInv, [Next]_vars
    PROVE  ImsgInv' /\ (used'["remove"] = used["remove"] => Passes(iq, iq'))
<1>1. CASE UNCHANGED vars
  <2>1. iq' = iq /\ th' = th /\ now' = now /\ used' = used
    BY <1>1 DEF vars
  <2>2. th' \in [Thread -> Where] /\ now' \in 0..MaxNow /\ now <= now'
    BY <2>1, ImsgAssumption DEF ImsgInv
  <2>3. QED
    BY <2>1, <2>2, StillInv
<1>2. CASE \E m \in Msg : Add(m) \/ AddTimer(m) \/ AddDelayed(m)
  <2>1. PICK m \in Msg : Add(m) \/ AddTimer(m) \/ AddDelayed(m)
    BY <1>2
  <2>2. PICK x \in Imsg : /\ x.st = "none" /\ (~InTimers(x) => Near(x.end))
                          /\ AddNew(m, x)
    BY <2>1, NewMsgs
  <2>3. QED
    BY <2>2, AddNewInv
<1>3. CASE \E m \in Msg : CancelDelay(m)
  BY <1>3, CancelInv
<1>4. CASE \E mode \in Mode : Get(mode) \/ \E nbmax \in 1..NbMax : GetArray(mode, nbmax)
  BY <1>4, GetInv
<1>5. CASE \E t \in Thread : \E call \in Calls[t] : WaitCall(t, call)
  BY <1>5, WaitCallInv
<1>6. CASE \E t \in Thread : WaitGet(t)
  BY <1>6, WaitGetInv
<1>7. CASE \E t \in Thread : WaitSleep(t) \/ Spurious(t) \/ WaitTimeout(t)
  BY <1>7, SleepInv
<1>8. CASE (\E m \in Msg : Remove(m)) \/ (\E to \in To : RemoveTo(to)) \/ RemoveAll
  BY <1>8, RemoveInv
<1>9. CASE Tick
  <2>1. iq' = iq /\ th' = th /\ used' = used /\ now < MaxNow /\ now' = now + 1
    BY <1>9 DEF Tick
  <2>2. th' \in [Thread -> Where] /\ now' \in 0..MaxNow /\ now <= now'
    BY <2>1, ImsgAssumption DEF ImsgInv
  <2>3. QED
    BY <2>1, <2>2, StillInv
<1>10. QED
  BY <1>1, <1>2, <1>3, <1>4, <1>5, <1>6, <1>7, <1>8, <1>9 DEF Next, WaitStep

\* rtl_imsgInitIq
LEMMA InitInv == ASSUME Init PROVE ImsgInv
<1>1. PICK to \in [Msg -> To] :
         iq = [msglist |-> <<>>, timerlist |-> <<>>,
               msgcount |-> 0, timercount |-> 0, count |-> 0,
               cd |-> FALSE,
               im |-> [m \in Msg |-> [st |-> "none", timer |-> FALSE, delayed |-> FALSE,
                                      end |-> 0, to |-> to[m]]]]
  BY DEF Init
<1>2. PICK e \in Seq(Msg) : e = <<>> /\ Len(e) = 0 /\ Elems(e) = {} /\ Distinct(e)
  BY EmptyList
<1>3. PICK y \in [Msg -> Imsg] :
         y = [m \in Msg |-> [st |-> "none", timer |-> FALSE, delayed |-> FALSE,
                             end |-> 0, to |-> to[m]]]
  BY DEF Imsg
<1>4. \A m \in Msg : y[m].st = "none"
  BY <1>3
<1>5. PICK c : c = [msglist |-> e, timerlist |-> e, msgcount |-> 0, timercount |-> 0,
                    count |-> 0, cd |-> FALSE, im |-> y]
  OBVIOUS
<1>6. c \in Queue
  BY <1>5 DEF Queue
<1>7. Plain(c) = {} /\ Timed(c) = {}
  BY <1>4, <1>5 DEF Plain, Timed
<1>8. \A k \in Msg : k \notin Plain(c) /\ c.im[k].st # "fetched"
  BY <1>4, <1>5, <1>7
<1>9. QueueInv(c)
  <2>1. /\ c.msglist = e /\ c.timerlist = e
        /\ c.msgcount = 0 /\ c.timercount = 0 /\ c.count = 0 /\ c.im = y
    BY <1>5
  <2>2. /\ Elems(c.msglist) = Plain(c) \ {NoMsg}
        /\ Elems(c.timerlist) = Timed(c) \ {NoMsg}
    BY <1>2, <1>7, <2>1
  <2>3. QED
    BY <1>2, <1>6, <1>7, <1>8, <2>1, <2>2 DEF QueueInv, QueueBut
<1>10. iq = c
  BY <1>1, <1>2, <1>3, <1>5
<1>11. QueueInv(iq)
  BY <1>9, <1>10
<1>12. iq.cd = FALSE /\ iq.msgcount = 0
  BY <1>1
<1>13. NoLostWakeup
  BY <1>12 DEF NoLostWakeup
<1>14. th \in [Thread -> Where]
  BY DEF Init, Idle, Where, Mode
<1>15. now \in 0..MaxNow /\ used \in [Budget -> Nat]
  BY ImsgAssumption DEF Init
<1>16. QED
  BY <1>11, <1>12, <1>13, <1>14, <1>15 DEF ImsgInv

-----------------------------------------------------------------------------
(* The theorems *)

\* Lists, flags, counters and times of the queue agree in every reachable state.
THEOREM QueueInvariance == Spec => []ImsgInv
<1>1. Init => ImsgInv
  BY InitInv
<1>2. ImsgInv /\ [Next]_vars => ImsgInv'
  BY NextInv
<1>3. QED
  BY <1>1, <1>2, PTL DEF Spec

\* Every field keeps its type; the counters never fall below zero.
THEOREM QueueTypes == Spec => []TypeOK
<1>1. ASSUME ImsgInv PROVE TypeOK
  <2>1. PICK c : c = iq
    OBVIOUS
  <2>2. QueueInv(c) /\ c.cd = FALSE
    BY <1>1, <2>1 DEF ImsgInv
  <2>3. /\ c \in Queue /\ c.msgcount \in Nat /\ c.timercount \in Nat /\ c.count \in Nat
    BY <2>2, QueueParts DEF QueueInv
  <2>4. c \in [msglist : Seq(Msg), timerlist : Seq(Msg),
               msgcount : Nat, timercount : Nat, count : Nat,
               cd : {FALSE}, im : [Msg -> Imsg]]
    BY <2>2, <2>3 DEF Queue
  <2>5. QED
    BY <2>1, <2>4, <1>1 DEF TypeOK, ImsgInv, Where
<1>2. QED
  BY <1>1, QueueInvariance, PTL

\* The counters are the lengths of the lists.
THEOREM QueueCounted == Spec => []Counted
<1>1. ASSUME ImsgInv PROVE Counted
  <2>1. PICK c : c = iq /\ QueueInv(c)
    BY <1>1 DEF ImsgInv
  <2>2. QED
    BY <2>1, QueueParts DEF QueueInv, Counted
<1>2. QED
  BY <1>1, QueueInvariance, PTL

\* In a list without repetition a message occurs once or not at all.
LEMMA OccursIs ==
    ASSUME NEW s \in Seq(Msg), Distinct(s), NEW m
    PROVE  Occurs(m, s) = IF m \in Elems(s) THEN 1 ELSE 0
<1>1. PICK S : S = {i \in 1..Len(s) : s[i] = m}
  OBVIOUS
<1>2. CASE m \in Elems(s)
  <2>1. PICK i \in 1..Len(s) : s[i] = m
    BY <1>2 DEF Elems
  <2>2. S = {i}
    BY <1>1, <2>1 DEF Distinct
  <2>3. Cardinality(S) = 1
    BY <2>2, FS_Singleton
  <2>4. QED
    BY <1>1, <1>2, <2>3 DEF Occurs
<1>3. CASE m \notin Elems(s)
  <2>1. S = {}
    BY <1>1, <1>3 DEF Elems
  <2>2. Cardinality(S) = 0
    BY <2>1, FS_EmptySet
  <2>3. QED
    BY <1>1, <1>3, <2>2 DEF Occurs
<1>4. QED
  BY <1>2, <1>3

\* A message in the queue is linked once, in the list its flags tell.
THEOREM QueueLinked == Spec => []Linked
<1>1. ASSUME ImsgInv PROVE Linked
  <2>1. PICK c : c = iq /\ QueueInv(c)
    BY <1>1 DEF ImsgInv
  <2>2. /\ c.msglist \in Seq(Msg) /\ Distinct(c.msglist) /\ Elems(c.msglist) = Plain(c)
        /\ c.timerlist \in Seq(Msg) /\ Distinct(c.timerlist) /\ Elems(c.timerlist) = Timed(c)
    BY <2>1, QueueParts, NoMsgNone DEF QueueInv, Timed, Plain
  <2>3. ASSUME NEW m \in Msg
        PROVE  /\ Occurs(m, c.timerlist) = IF c.im[m].st = "queued" /\ InTimers(c.im[m])
                                           THEN 1 ELSE 0
               /\ Occurs(m, c.msglist) = IF c.im[m].st = "queued" /\ ~InTimers(c.im[m])
                                         THEN 1 ELSE 0
    <3>1. /\ m \in Timed(c) <=> c.im[m].st = "queued" /\ InTimers(c.im[m])
          /\ m \in Plain(c) <=> c.im[m].st = "queued" /\ ~InTimers(c.im[m])
      BY DEF Timed, Plain
    <3>2. /\ Occurs(m, c.timerlist) = IF m \in Timed(c) THEN 1 ELSE 0
          /\ Occurs(m, c.msglist) = IF m \in Plain(c) THEN 1 ELSE 0
      BY <2>2, OccursIs
    <3>3. QED
      BY <3>1, <3>2
  <2>4. QED
    BY <2>1, <2>3 DEF Linked
<1>2. QED
  BY <1>1, QueueInvariance, PTL

\* Nothing is fetched, and no delayed message joins the plain ones, more than
\* Anticip early or before the second of its time.
THEOREM QueueNotEarly == Spec => []NotEarly
<1>1. ASSUME ImsgInv PROVE NotEarly
  <2>1. PICK c : c = iq /\ QueueInv(c)
    BY <1>1 DEF ImsgInv
  <2>2. Elems(c.msglist) = Plain(c)
    BY <2>1, QueueParts, NoMsgNone DEF QueueInv, Plain
  <2>3. \A m \in Msg : m \in Plain(c) \/ c.im[m].st = "fetched" => Near(c.im[m].end)
    BY <2>1, QueueParts, NoMsgNone DEF QueueInv
  <2>4. QED
    BY <2>1, <2>2, <2>3 DEF NotEarly
<1>2. QED
  BY <1>1, QueueInvariance, PTL

\* No thread sleeps while a plain message waits.
THEOREM QueueWakes == Spec => []NoLostWakeup
<1>1. ImsgInv => NoLostWakeup
  BY DEF ImsgInv
<1>2. QED
  BY <1>1, QueueInvariance, PTL

\* What Passes says, in the words of Fifo.
LEMMA PassesFifo ==
    ASSUME NEW q \in Queue, NEW r \in Queue, Passes(q, r)
    PROVE  \E n \in 0..Len(q.msglist) :
              LET kept == SubSeq(q.msglist, n + 1, Len(q.msglist))
              IN  /\ Len(kept) <= Len(r.msglist)
                  /\ kept = SubSeq(r.msglist, 1, Len(kept))
                  /\ \A i \in 1..n : r.im[q.msglist[i]].st = "fetched"
<1>1. PICK l \in Seq(Msg), k \in Seq(Msg) : l = q.msglist /\ k = r.msglist
  BY DEF Queue
<1>2. PICK a \in Seq(Msg), t \in Seq(Msg) :
         l \o t = a \o k /\ \A m \in Elems(a) : r.im[m].st = "fetched"
  BY <1>1 DEF Passes
<1>3. PICK x \in Nat, y \in Nat, u \in Nat, v \in Nat :
         x = Len(l) /\ y = Len(k) /\ u = Len(a) /\ v = Len(t)
  BY List
<1>4. PICK w \in Seq(Msg) : w = l \o t
  BY JoinedLists
<1>5. Len(w) = x + v /\ \A i \in 1..(x + v) : w[i] = IF i <= x THEN l[i] ELSE t[i - x]
  BY <1>3, <1>4, JoinedLists
<1>6. Len(w) = u + y /\ \A i \in 1..(u + y) : w[i] = IF i <= u THEN a[i] ELSE k[i - u]
  BY <1>2, <1>3, <1>4, JoinedLists
<1>7. PICK n \in 0..x : n = IF u <= x THEN u ELSE x
  OBVIOUS
<1>8. \A i \in 1..n : l[i] = a[i] /\ i \in 1..u
  BY <1>5, <1>6, <1>7
<1>9. \A i \in 1..n : r.im[l[i]].st = "fetched"
  BY <1>2, <1>3, <1>8 DEF Elems
<1>10. x - n <= y
  BY <1>5, <1>6, <1>7
<1>11. \A i \in 1..(x - n) : l[n+i] = k[i]
  <2> SUFFICES ASSUME NEW i \in 1..(x - n)
               PROVE  l[n+i] = k[i]
    OBVIOUS
  <2>1. n = u /\ n+i \in 1..x /\ ~(n+i <= u) /\ n+i-u = i
    BY <1>7
  <2>2. n+i \in 1..(x + v) /\ n+i \in 1..(u + y)
    BY <2>1, <1>5, <1>6
  <2>3. QED
    BY <2>1, <2>2, <1>5, <1>6
<1>12. PICK kept \in Seq(Msg) : /\ kept = SubSeq(l, n+1, x)
                               /\ Len(kept) = x - n /\ \A i \in 1..(x - n) : kept[i] = l[n+i]
  <2>1. n+1 \in Int /\ x \in Int /\ \A i \in (n+1)..x : l[i] \in Msg
    BY <1>3, List
  <2>2. /\ SubSeq(l, n+1, x) \in Seq(Msg)
        /\ Len(SubSeq(l, n+1, x)) = IF n+1 <= x THEN x-(n+1)+1 ELSE 0
        /\ \A i \in 1..(x-(n+1)+1) : SubSeq(l, n+1, x)[i] = l[(n+1)+i-1]
    BY <2>1, SubSeqProperties
  <2>3. PICK s \in Seq(Msg) : s = SubSeq(l, n+1, x)
    BY <2>2
  <2>4. Len(s) = x - n /\ \A i \in 1..(x - n) : s[i] = l[n+i]
    <3>1. x-(n+1)+1 = x - n /\ \A i \in 1..(x - n) : (n+1)+i-1 = n+i
      OBVIOUS
    <3>2. QED
      BY <3>1, <2>2, <2>3
  <2>5. QED
    BY <2>3, <2>4
<1>13. PICK h \in Seq(Msg) : /\ h = SubSeq(k, 1, x - n)
                            /\ Len(h) = x - n /\ \A i \in 1..(x - n) : h[i] = k[i]
  <2>1. 1 \in Int /\ x - n \in Int /\ \A i \in 1..(x - n) : k[i] \in Msg
    BY <1>3, <1>10, List
  <2>2. /\ SubSeq(k, 1, x - n) \in Seq(Msg)
        /\ Len(SubSeq(k, 1, x - n)) = IF 1 <= x - n THEN x-n-1+1 ELSE 0
        /\ \A i \in 1..(x-n-1+1) : SubSeq(k, 1, x - n)[i] = k[1+i-1]
    BY <2>1, SubSeqProperties
  <2>3. PICK s \in Seq(Msg) : s = SubSeq(k, 1, x - n)
    BY <2>2
  <2>4. Len(s) = x - n /\ \A i \in 1..(x - n) : s[i] = k[i]
    <3>1. x-n-1+1 = x - n /\ \A i \in 1..(x - n) : 1+i-1 = i
      OBVIOUS
    <3>2. QED
      BY <3>1, <2>2, <2>3
  <2>5. QED
    BY <2>3, <2>4
<1>14. kept = h
  <2>1. \A i \in 1..(x - n) : kept[i] = h[i]
    BY <1>11, <1>12, <1>13
  <2>2. Len(kept) = Len(h) /\ \A i \in 1..Len(kept) : kept[i] = h[i]
    BY <2>1, <1>12, <1>13
  <2>3. QED
    BY <2>2, SeqEqual
<1>15. /\ Len(kept) <= Len(k)
       /\ kept = SubSeq(k, 1, Len(kept))
  BY <1>3, <1>10, <1>12, <1>13, <1>14
<1>16. QED
  BY <1>1, <1>3, <1>9, <1>12, <1>15

\* Plain messages form a queue, in one order for all threads.
THEOREM QueueFifo == Spec => Fifo
<1> DEFINE Step == used'["remove"] = used["remove"] =>
                      \E n \in 0..Len(iq.msglist) :
                          LET kept == SubSeq(iq.msglist, n + 1, Len(iq.msglist))
                          IN  /\ Len(kept) <= Len(iq'.msglist)
                              /\ kept = SubSeq(iq'.msglist, 1, Len(kept))
                              /\ \A i \in 1..n : iq'.im[iq.msglist[i]].st = "fetched"
<1>1. ASSUME ImsgInv, [Next]_vars PROVE Step
  <2> SUFFICES ASSUME used'["remove"] = used["remove"]
               PROVE  Step
    OBVIOUS
  <2>1. ImsgInv' /\ Passes(iq, iq')
    BY <1>1, NextInv
  <2>2. PICK c : c = iq /\ QueueInv(c)
    BY <1>1 DEF ImsgInv
  <2>3. PICK d : d = iq'
    OBVIOUS
  <2>4. d \in Queue
    BY <2>1, <2>3 DEF ImsgInv, QueueInv, QueueBut
  <2>5. c \in Queue /\ Passes(c, d)
    BY <2>1, <2>2, <2>3, QueueParts DEF QueueInv
  <2>6. \E n \in 0..Len(c.msglist) :
            LET kept == SubSeq(c.msglist, n + 1, Len(c.msglist))
            IN  /\ Len(kept) <= Len(d.msglist)
                /\ kept = SubSeq(d.msglist, 1, Len(kept))
                /\ \A i \in 1..n : d.im[c.msglist[i]].st = "fetched"
    BY <2>4, <2>5, PassesFifo
  <2>7. QED
    BY <2>2, <2>3, <2>6
<1>2. ImsgInv /\ [Next]_vars => [Step]_vars
  BY <1>1
<1>3. QED
  BY <1>2, QueueInvariance, PTL DEF Spec, Fifo
=============================================================================
