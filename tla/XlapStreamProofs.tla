-------------------------- MODULE XlapStreamProofs --------------------------
(***************************************************************************)
(* Without the long mode a link finds exactly the frames its peer sent,    *)
(* whatever the sizes of the frames and however read() cuts the stream,    *)
(* and only a frame larger than FRAME_MAX makes it close.                  *)
(***************************************************************************)
EXTENDS XlapStream, SequenceTheorems, WellFoundedInduction, TLAPS

(* The ends of the frames *)

\* What the peer sends is a sequence of frames.
Frames == \E m \in 1..MaxFrames : sent \in [1..m -> Kind]

\* A set of naturals has a least element.
LEMMA LeastOf ==
    ASSUME NEW S \in SUBSET Nat, S # {}
    PROVE  \E i \in S : \A j \in S : i <= j
<1>1. PICK i \in S : \A j \in S : ~(<<j, i>> \in OpToRel(<, Nat))
  BY NatLessThanWellFounded, WFMin
<1>2. \A j \in S : ~(j < i)
  BY <1>1 DEF OpToRel
<1> QED
  BY <1>2

\* A set that has 0, and k where it has k - 1, has all of 0..n.
LEMMA UpTo ==
    ASSUME NEW n \in Nat, NEW S, 0 \in S, \A k \in 1..n : k-1 \in S => k \in S
    PROVE  \A k \in 0..n : k \in S
<1> SUFFICES ASSUME \E k \in 0..n : k \notin S
             PROVE  FALSE
  OBVIOUS
<1>1. PICK k \in {j \in 0..n : j \notin S} : \A j \in {j \in 0..n : j \notin S} : k <= j
  <2>1. {j \in 0..n : j \notin S} \in SUBSET Nat /\ {j \in 0..n : j \notin S} # {}
    OBVIOUS
  <2> QED
    BY <2>1, LeastOf
<1>2. k \in 0..n /\ k # 0
  BY <1>1
<1>3. k \in 1..n /\ k-1 \in 0..n /\ ~(k <= k-1)
  BY <1>2
<1>4. k-1 \in S
  BY <1>1, <1>3
<1> QED
  BY <1>1, <1>3, <1>4

LEMMA SentLength ==
    ASSUME Frames
    PROVE  /\ Len(sent) \in 1..MaxFrames /\ sent \in Seq(Kind)
           /\ sent \in [1..Len(sent) -> Kind] /\ MaxFrames \in Nat
<1>1. PICK m \in 1..MaxFrames : sent \in [1..m -> Kind]
  BY DEF Frames
<1>2. m \in Nat /\ MaxFrames \in Nat
  BY <1>1, FrameAssumption
<1>3. sent \in Seq(Kind) /\ Len(sent) = m
  BY <1>1, <1>2, LenProperties
<1> QED
  BY <1>1, <1>2, <1>3

\* A frame is as large as the smallest one at least.
LEMMA SizeAtLeast ==
    ASSUME NEW f \in Kind
    PROVE  /\ f.body \in Nat /\ f.body >= 4
           /\ Size(f) \in Nat /\ Size(f) >= 6
           /\ ~LongModeActive => f.long = FALSE /\ Size(f) = f.body + 2
<1>1. \/ f \in [long : {FALSE}, body : ShortBody]
      \/ (LongModeActive /\ f \in [long : {TRUE}, body : LongBody])
  BY Zenon DEF Kind
<1>2. ShortBody \subseteq 4..ByteMax /\ LongBody \subseteq 4..WordMax
  BY FrameAssumption
<1>3. IdxCtrl(FALSE) = 2 /\ IdxCtrl(TRUE) = 3
  BY DEF IdxCtrl, StartSz
<1>4. CASE f \in [long : {FALSE}, body : ShortBody]
  <2>1. f.long = FALSE /\ f.body \in 4..ByteMax
    BY <1>2, <1>4
  <2>2. Size(f) = 2 + f.body
    BY <1>3, <2>1 DEF Size
  <2> QED
    BY <2>1, <2>2
<1>5. CASE LongModeActive /\ f \in [long : {TRUE}, body : LongBody]
  <2>1. f.long = TRUE /\ f.body \in 4..WordMax
    BY <1>2, <1>5
  <2>2. Size(f) = 3 + f.body
    BY <1>3, <2>1 DEF Size
  <2> QED
    BY <1>5, <2>1, <2>2
<1> QED
  BY <1>1, <1>4, <1>5

\* The recursive function End has the values that its definition gives.
LEMMA EndDefined ==
    ASSUME MaxFrames \in Nat
    PROVE  End = [k \in 0..MaxFrames |-> IF k = 0 THEN 0 ELSE End[k-1] + Size(sent[k])]
<1> DEFINE Good(n, f) == f = [k \in 0..n |-> IF k = 0 THEN 0 ELSE f[k-1] + Size(sent[k])]
           S == {n \in 0..MaxFrames : \E f : Good(n, f)}
<1>1. 0 \in S
  <2>1. Good(0, [k \in 0..0 |-> 0])
    OBVIOUS
  <2> HIDE DEF Good
  <2> QED
    BY <2>1
<1>2. ASSUME NEW n \in 1..MaxFrames, n-1 \in S
      PROVE  n \in S
  <2>1. PICK f : Good(n-1, f)
    BY <1>2
  <2> DEFINE g == [k \in 0..n |-> IF k = n THEN f[n-1] + Size(sent[n]) ELSE f[k]]
  <2>2. n \in Nat /\ n # 0 /\ n-1 \in 0..(n-1) /\ n \in 0..n
    OBVIOUS
  <2>3. \A k \in 0..(n-1) : g[k] = f[k]
    BY <2>2
  <2>4. \A k \in 0..n : k # n => k \in 0..(n-1)
    OBVIOUS
  <2>5. \A k \in 0..n : g[k] = IF k = 0 THEN 0 ELSE g[k-1] + Size(sent[k])
    <3> SUFFICES ASSUME NEW k \in 0..n
                 PROVE  g[k] = IF k = 0 THEN 0 ELSE g[k-1] + Size(sent[k])
      OBVIOUS
    <3>1. CASE k = n
      <4>1. g[k] = f[n-1] + Size(sent[n])
        BY <3>1
      <4>2. g[n-1] = f[n-1]
        BY <2>2, <2>3
      <4> QED
        BY <3>1, <4>1, <4>2, <2>2
    <3>2. CASE k # n
      <4>1. k \in 0..(n-1) /\ g[k] = f[k]
        BY <3>2, <2>3, <2>4
      <4>2. f[k] = IF k = 0 THEN 0 ELSE f[k-1] + Size(sent[k])
        BY <2>1, <4>1
      <4>3. k # 0 => k-1 \in 0..(n-1)
        BY <4>1
      <4>4. k # 0 => g[k-1] = f[k-1]
        BY <4>3, <2>3
      <4> QED
        BY <4>1, <4>2, <4>4
    <3> QED
      BY <3>1, <3>2
  <2>6. Good(n, g)
    <3> DEFINE h == [k \in 0..n |-> IF k = 0 THEN 0 ELSE g[k-1] + Size(sent[k])]
    <3>1. DOMAIN g = 0..n /\ DOMAIN h = 0..n /\ \A k \in 0..n : g[k] = h[k]
      BY <2>5
    <3>2. g = [k \in 0..n |-> g[k]] /\ h = [k \in 0..n |-> h[k]]
      OBVIOUS
    <3> HIDE DEF g, h
    <3>3. g = h
      BY <3>1, <3>2
    <3> QED
      BY <3>3 DEF h
  <2> HIDE DEF Good, g
  <2> QED
    BY <2>6
<1>3. MaxFrames \in S
  <2> HIDE DEF S
  <2>1. \A k \in 0..MaxFrames : k \in S
    BY <1>1, <1>2, UpTo
  <2> QED
    BY <2>1
<1>4. \E f : Good(MaxFrames, f)
  <2> HIDE DEF Good
  <2> QED
    BY <1>3
<1> QED
  BY <1>4 DEF End

\* Each frame ends where the one before it ends and its own size further.
LEMMA EndSteps ==
    ASSUME Frames
    PROVE  /\ End[0] = 0
           /\ \A k \in 0..Len(sent) : End[k] \in Nat
           /\ \A k \in 1..Len(sent) : End[k] = End[k-1] + Size(sent[k])
<1>1. /\ Len(sent) \in 1..MaxFrames /\ MaxFrames \in Nat
      /\ \A k \in 1..Len(sent) : sent[k] \in Kind
  BY SentLength
<1>2. \A k \in 0..MaxFrames : End[k] = IF k = 0 THEN 0 ELSE End[k-1] + Size(sent[k])
  BY <1>1, EndDefined
<1>3. End[0] = 0
  <2>1. 0 \in 0..MaxFrames
    BY <1>1
  <2> QED
    BY <1>2, <2>1
<1>4. \A k \in 1..Len(sent) : End[k] = End[k-1] + Size(sent[k])
  <2>1. \A k \in 1..Len(sent) : k \in 0..MaxFrames /\ k # 0
    BY <1>1
  <2> QED
    BY <1>2, <2>1
<1>5. \A k \in 0..Len(sent) : End[k] \in Nat
  <2> DEFINE S == {k \in 0..Len(sent) : End[k] \in Nat}
  <2>1. 0 \in S
    BY <1>1, <1>3
  <2>2. ASSUME NEW k \in 1..Len(sent), k-1 \in S
        PROVE  k \in S
    <3>1. End[k-1] \in Nat /\ k \in 0..Len(sent) /\ sent[k] \in Kind
      BY <2>2, <1>1
    <3>2. Size(sent[k]) \in Nat
      BY <3>1, SizeAtLeast
    <3> QED
      BY <3>1, <3>2, <1>4
  <2>3. Len(sent) \in Nat
    BY <1>1
  <2> HIDE DEF S
  <2>4. \A k \in 0..Len(sent) : k \in S
    BY <2>1, <2>2, <2>3, UpTo
  <2> QED
    BY <2>4 DEF S
<1> QED
  BY <1>3, <1>4, <1>5

\* Frames end one after the other.
LEMMA EndRises ==
    ASSUME Frames, NEW j \in 0..Len(sent), NEW k \in 0..Len(sent), j <= k
    PROVE  End[j] <= End[k]
<1>1. Len(sent) \in Nat /\ \A i \in 1..Len(sent) : Size(sent[i]) \in Nat
  <2>1. Len(sent) \in Nat /\ \A i \in 1..Len(sent) : sent[i] \in Kind
    BY SentLength
  <2> QED
    BY <2>1, SizeAtLeast
<1> DEFINE S == {i \in 0..Len(sent) : j <= i => End[j] <= End[i]}
<1>2. 0 \in S
  BY <1>1, EndSteps
<1>3. ASSUME NEW i \in 1..Len(sent), i-1 \in S
      PROVE  i \in S
  <2>1. End[i] = End[i-1] + Size(sent[i]) /\ End[i-1] \in Nat /\ End[j] \in Nat /\ End[i] \in Nat
    <3>1. i-1 \in 0..Len(sent) /\ i \in 0..Len(sent)
      BY <1>1
    <3> QED
      BY <3>1, EndSteps
  <2>2. Size(sent[i]) \in Nat /\ i \in 0..Len(sent)
    BY <1>1
  <2>3. j <= i => j = i \/ j <= i-1
    BY <1>1
  <2>4. j <= i-1 => End[j] <= End[i-1]
    BY <1>3
  <2> QED
    BY <2>1, <2>2, <2>3, <2>4
<1> HIDE DEF S
<1>4. k \in S
  BY <1>1, <1>2, <1>3, UpTo
<1> QED
  BY <1>4 DEF S

-----------------------------------------------------------------------------
(* The bytes of the stream *)

\* The frame of a byte is the one it lies in.
LEMMA FrameIs ==
    ASSUME Frames, NEW k \in 1..Len(sent), NEW p \in Nat, End[k-1] < p, p <= End[k]
    PROVE  FrameAt(p) = k
<1>1. Len(sent) \in Nat
  BY SentLength
<1>2. ASSUME NEW i \in 1..Len(sent), NEW j \in 1..Len(sent), i < j,
             End[i-1] < p, p <= End[i], End[j-1] < p, p <= End[j]
      PROVE  FALSE
  <2>1. i \in 0..Len(sent) /\ j-1 \in 0..Len(sent) /\ i <= j-1
    BY <1>1, <1>2
  <2>2. End[i] <= End[j-1] /\ End[i] \in Nat /\ End[j-1] \in Nat
    BY <2>1, EndRises, EndSteps
  <2> QED
    BY <1>2, <2>2
<1>3. \A j \in 1..Len(sent) : (End[j-1] < p /\ p <= End[j]) => j = k
  <2>1. \A j \in 1..Len(sent) : j = k \/ j < k \/ k < j
    BY <1>1
  <2> QED
    BY <1>2, <2>1
<1> QED
  BY <1>3 DEF FrameAt

\* Every byte lies in a frame.
LEMMA EveryByte ==
    ASSUME Frames, NEW p \in 1..Total
    PROVE  \E k \in 1..Len(sent) : End[k-1] < p /\ p <= End[k]
<1>1. Len(sent) \in Nat /\ Len(sent) \in 0..Len(sent)
  BY SentLength
<1>2. Total = End[Len(sent)] /\ Total \in Nat
  BY <1>1, EndSteps DEF Total
<1> DEFINE S == {k \in 0..Len(sent) : p <= End[k]}
<1>3. S \in SUBSET Nat /\ S # {}
  BY <1>1, <1>2
<1>4. PICK k \in S : \A j \in S : k <= j
  BY <1>3, LeastOf
<1>5. k \in 0..Len(sent) /\ p <= End[k]
  BY <1>4
<1>6. k # 0
  BY <1>2, <1>5, EndSteps
<1>7. k \in 1..Len(sent) /\ k-1 \in 0..Len(sent) /\ ~(k <= k-1)
  BY <1>1, <1>5, <1>6
<1>8. k-1 \notin S
  BY <1>4, <1>7
<1>9. ~(p <= End[k-1]) /\ End[k-1] \in Nat
  BY <1>7, <1>8, EndSteps
<1> QED
  BY <1>2, <1>5, <1>7, <1>9

\* The header of a short frame.
LEMMA HeaderIs ==
    ASSUME Frames, ~LongModeActive, NEW k \in 1..Len(sent)
    PROVE  /\ Val(End[k-1] + 1) = STARTFRAME
           /\ Val(End[k-1] + 2) = sent[k].body
<1>1. /\ sent[k] \in Kind /\ sent[k].long = FALSE
      /\ Size(sent[k]) \in Nat /\ Size(sent[k]) >= 6
  <2>1. sent[k] \in Kind
    BY SentLength
  <2> QED
    BY <2>1, SizeAtLeast
<1>2. PICK e \in Nat : e = End[k-1] /\ End[k] = e + Size(sent[k])
  <2>1. k-1 \in 0..Len(sent)
    BY SentLength
  <2> QED
    BY <2>1, EndSteps
<1>3. FrameAt(e + 1) = k /\ FrameAt(e + 2) = k
  <2>1. /\ e + 1 \in Nat /\ e < e + 1 /\ e + 1 <= e + Size(sent[k])
        /\ e + 2 \in Nat /\ e < e + 2 /\ e + 2 <= e + Size(sent[k])
    BY <1>1
  <2> QED
    BY <1>2, <2>1, FrameIs
<1>4. (e + 1) - e - 1 = 0 /\ (e + 2) - e - 1 = 1
  OBVIOUS
<1>5. Val(e + 1) = STARTFRAME
  BY <1>1, <1>2, <1>3, <1>4 DEF Val
<1>6. Val(e + 2) = sent[k].body
  BY <1>1, <1>2, <1>3, <1>4 DEF Val
<1> QED
  BY <1>2, <1>5, <1>6

\* The value of any byte is a number.
LEMMA ValIsNat ==
    ASSUME Frames, ~LongModeActive, NEW p \in 1..Total
    PROVE  Val(p) \in Nat
<1>1. PICK k \in 1..Len(sent) : End[k-1] < p /\ p <= End[k]
  BY EveryByte
<1>2. FrameAt(p) = k
  <2>1. p \in Nat
    BY SentLength, EndSteps DEF Total
  <2> QED
    BY <1>1, <2>1, FrameIs
<1>3. sent[k] \in Kind /\ sent[k].long = FALSE /\ sent[k].body \in Nat
  <2>1. sent[k] \in Kind
    BY SentLength
  <2> QED
    BY <2>1, SizeAtLeast
<1> QED
  BY <1>2, <1>3 DEF Val, STARTFRAME

-----------------------------------------------------------------------------
(* The invariant *)

\* Frame k, as the positions of its bytes.
Whole(k) == [o \in 1..Size(sent[k]) |-> End[k-1] + o]

\* Bytes p + 1, p + 2, .. of the buffer are those that follow the frames
\* found so far.
Kept(p) == \A k \in 1..rsz : rframe[p + k] = End[Len(got)] + k

\* What is left is less than a frame.
Short == Len(got) < Len(sent) => rsz < Size(sent[Len(got) + 1])

StreamInv ==
    /\ Frames
    /\ nread \in 0..Total /\ rsz \in Nat /\ pos \in Nat
    /\ rframe \in [1..Capacity -> 0..Total]
    /\ got \in Seq(Seq(Nat)) /\ Len(got) <= Len(sent)
    /\ End[Len(got)] + rsz = nread
    /\ \A k \in 1..Len(got) : got[k] = Whole(k)
    /\ phase \in {"poll", "search", "closed"}
    /\ phase = "poll" => Kept(0) /\ Short
    /\ phase = "search" => Kept(pos) /\ pos + rsz <= Total
    /\ phase = "closed" => \E k \in 1..Len(sent) : Size(sent[k]) > FrameMax

\* The stream does not change.
LEMMA SameStream ==
    ASSUME sent' = sent
    PROVE  /\ Frames' = Frames /\ End' = End /\ Total' = Total /\ Capacity' = Capacity
           /\ \A k : Whole(k)' = Whole(k)
<1>1. End' = End
  BY DEF End
<1> QED
  BY <1>1 DEF Frames, Total, Capacity, Whole

LEMMA TotalIs ==
    ASSUME Frames
    PROVE  /\ Total \in Nat /\ Total = End[Len(sent)] /\ Capacity = Total + 2
           /\ Len(sent) \in Nat /\ Len(sent) > 0
<1>1. Len(sent) \in Nat /\ Len(sent) > 0 /\ Len(sent) \in 0..Len(sent)
  BY SentLength
<1>2. End[Len(sent)] \in Nat
  BY <1>1, EndSteps
<1> QED
  BY <1>1, <1>2 DEF Total, Capacity

\* A byte that is not consumed belongs to the frame after the last one found.
LEMMA NextFrame ==
    ASSUME StreamInv, rsz > 0
    PROVE  /\ Len(got) \in Nat /\ Len(got) + 1 \in 1..Len(sent)
           /\ End[Len(got)] \in Nat
           /\ End[Len(got) + 1] = End[Len(got)] + Size(sent[Len(got) + 1])
           /\ Size(sent[Len(got) + 1]) \in Nat /\ Size(sent[Len(got) + 1]) >= 6
<1>1. Len(got) \in Nat /\ Frames /\ Len(got) <= Len(sent) /\ Total \in Nat
      /\ nread <= Total /\ Total = End[Len(sent)] /\ Len(sent) \in Nat
  BY TotalIs DEF StreamInv
<1>2. End[Len(got)] \in Nat
  BY <1>1, EndSteps
<1>3. Len(got) # Len(sent)
  BY <1>1, <1>2 DEF StreamInv
<1>4. Len(got) + 1 \in 1..Len(sent)
  BY <1>1, <1>3
<1>5. sent[Len(got) + 1] \in Kind
  BY <1>1, <1>4, SentLength
<1>6. End[Len(got) + 1] = End[(Len(got) + 1) - 1] + Size(sent[Len(got) + 1])
  BY <1>1, <1>4, EndSteps
<1>7. (Len(got) + 1) - 1 = Len(got)
  BY <1>1
<1> QED
  BY <1>1, <1>2, <1>4, <1>5, <1>6, <1>7, SizeAtLeast

\* What SearchFrame sees of the frame that begins the bytes left.
LEMMA HeaderSeen ==
    ASSUME StreamInv, ~LongModeActive, phase = "search", rsz > 0, NEW junk \in Junk
    PROVE  /\ ~BadStart(junk)
           /\ Wait(junk) \in Nat /\ Wait(junk) > 0
           /\ Complete(junk) <=> rsz >= Size(sent[Len(got) + 1])
           /\ Complete(junk) => Wait(junk) = Size(sent[Len(got) + 1])
<1>1. PICK g, s, e, m \in Nat :
        /\ g = Len(got) /\ g + 1 \in 1..Len(sent)
        /\ e = End[g] /\ m = Size(sent[g + 1]) /\ s = rsz
        /\ End[g + 1] = e + m /\ m >= 6
  BY NextFrame DEF StreamInv
<1>2. /\ Frames /\ s > 0 /\ pos \in Nat /\ rframe \in [1..Capacity -> 0..Total]
      /\ \A k \in 1..s : rframe[pos + k] = e + k
      /\ pos + s <= Total /\ Capacity = Total + 2 /\ Total \in Nat
  BY <1>1, TotalIs DEF StreamInv, Kept
<1>3. Val(e + 1) = STARTFRAME /\ Val(e + 2) = sent[g + 1].body
  <2>1. (g + 1) - 1 = g
    OBVIOUS
  <2> QED
    BY <1>1, <1>2, <2>1, HeaderIs
<1>4. sent[g + 1].body \in Nat /\ m = sent[g + 1].body + 2
  <2>1. sent[g + 1] \in Kind
    BY <1>1, <1>2, SentLength
  <2> QED
    BY <1>1, <2>1, SizeAtLeast
<1>5. rframe[pos + 1] = e + 1 /\ (s > 1 => rframe[pos + 2] = e + 2)
  BY <1>2
<1>6. Byte(pos, junk) = STARTFRAME
  BY <1>3, <1>5 DEF Byte
<1>7. s > 1 => Byte(pos + 1, junk) = sent[g + 1].body
  <2>1. (pos + 1) + 1 = pos + 2
    BY <1>2
  <2> QED
    BY <1>3, <1>5, <2>1 DEF Byte
<1>8. Byte(pos + 1, junk) \in Nat
  <2>1. (pos + 1) + 1 = pos + 2 /\ pos + 2 \in 1..Capacity
    BY <1>2
  <2>2. rframe[pos + 2] \in 0..Total
    BY <1>2, <2>1
  <2>3. rframe[pos + 2] # 0 => Val(rframe[pos + 2]) \in Nat
    <3>1. rframe[pos + 2] # 0 => rframe[pos + 2] \in 1..Total
      BY <1>2, <2>2
    <3> QED
      BY <1>2, <3>1, ValIsNat
  <2>4. junk \in Nat
    BY DEF Junk
  <2> QED
    BY <2>1, <2>3, <2>4 DEF Byte
<1>9. IdxCtrl(FALSE) = 2
  BY DEF IdxCtrl, StartSz
<1>10. Wait(junk) = Byte(pos + 1, junk) + 2
  BY <1>6, <1>9 DEF Wait
<1>11. ~BadStart(junk)
  BY <1>6 DEF BadStart
<1>12. IdxCtrl(Byte(pos, junk) # STARTFRAME) = 2
  BY <1>6, <1>9
<1>13. Complete(junk) <=> s > 2 /\ s >= Wait(junk)
  BY <1>1, <1>8, <1>10, <1>12 DEF Complete
<1>14. s > 1 => Wait(junk) = m
  BY <1>4, <1>7, <1>10
<1> QED
  BY <1>1, <1>8, <1>10, <1>11, <1>13, <1>14

-----------------------------------------------------------------------------
(* Every step keeps it *)

LEMMA InitStream == ASSUME Init PROVE StreamInv
<1>1. Frames
  <2>1. PICK n \in 1..MaxFrames : sent \in [1..n -> Kind]
    BY DEF Init
  <2> QED
    BY <2>1 DEF Frames
<1>2. Total \in Nat /\ Len(sent) \in Nat /\ End[0] = 0
  BY <1>1, TotalIs, EndSteps
<1>3. rframe \in [1..Capacity -> 0..Total]
  BY <1>2 DEF Init
<1>4. Len(got) = 0 /\ got \in Seq(Seq(Nat)) /\ nread = 0 /\ rsz = 0 /\ pos = 0 /\ phase = "poll"
  BY DEF Init
<1>5. Short
  <2>1. ASSUME 0 < Len(sent)
        PROVE  0 < Size(sent[1])
    <3>1. sent[1] \in Kind
      BY <1>1, <1>2, <2>1, SentLength
    <3>2. Size(sent[1]) \in Nat /\ Size(sent[1]) >= 6
      BY <3>1, SizeAtLeast
    <3> QED
      BY <3>2
  <2> QED
    BY <1>4, <2>1 DEF Short
<1> QED
  BY <1>1, <1>2, <1>3, <1>4, <1>5 DEF StreamInv, Kept

\* Fewer bytes left than the smallest frame has are less than a frame.
LEMMA FewAreShort ==
    ASSUME Frames, Len(got) \in Nat, rsz \in Nat, rsz < 6
    PROVE  Short
<1>1. SUFFICES ASSUME Len(got) < Len(sent)
               PROVE  rsz < Size(sent[Len(got) + 1])
  BY DEF Short
<1>2. sent[Len(got) + 1] \in Kind
  BY <1>1, SentLength
<1>3. Size(sent[Len(got) + 1]) \in Nat /\ Size(sent[Len(got) + 1]) >= 6
  BY <1>2, SizeAtLeast
<1> QED
  BY <1>3

LEMMA ReadKeeps ==
    ASSUME StreamInv, NEW n \in 1..Total, ReadSocket(n)
    PROVE  StreamInv'
<1>1. PICK t, e \in Nat : t = Total /\ e = End[Len(got)] /\ e + rsz = nread /\ Capacity = t + 2
  <2>1. Frames /\ Len(got) \in 0..Len(sent)
    BY SentLength DEF StreamInv
  <2> QED
    BY <2>1, TotalIs, EndSteps DEF StreamInv
<1>2. /\ Frames /\ rsz \in Nat /\ nread \in 0..t /\ nread + n <= t
      /\ rframe \in [1..(t + 2) -> 0..t] /\ got \in Seq(Seq(Nat)) /\ Len(got) \in Nat
      /\ \A k \in 1..rsz : rframe[0 + k] = e + k
      /\ phase = "poll" /\ n \in Nat /\ n > 0
  BY <1>1 DEF StreamInv, ReadSocket, Kept
<1>3. /\ sent' = sent /\ got' = got /\ nread' = nread + n /\ rsz' = rsz + n /\ pos' = 0
      /\ rframe' = [k \in 1..(t + 2) |-> IF k \in (rsz+1)..(rsz+n) THEN nread + k - rsz
                                         ELSE rframe[k]]
      /\ phase' = IF rsz + n < 6 THEN "poll" ELSE "search"
  BY <1>1 DEF ReadSocket, ApciSz, StartSz
<1>4. /\ Frames' /\ End' = End /\ Total' = t /\ Capacity' = t + 2
      /\ \A k : Whole(k)' = Whole(k)
  BY <1>1, <1>2, <1>3, SameStream
<1>5. rframe' \in [1..(t + 2) -> 0..t]
  <2>1. ASSUME NEW k \in 1..(t + 2)
        PROVE  (IF k \in (rsz+1)..(rsz+n) THEN nread + k - rsz ELSE rframe[k]) \in 0..t
    BY <1>1, <1>2
  <2> QED
    BY <1>3, <2>1
<1>6. \A k \in 1..(rsz + n) : rframe'[k] = e + k
  <2> SUFFICES ASSUME NEW k \in 1..(rsz + n)
               PROVE  rframe'[k] = e + k
    OBVIOUS
  <2>1. k \in 1..(t + 2)
    BY <1>1, <1>2
  <2>2. CASE k \in (rsz+1)..(rsz+n)
    <3>1. rframe'[k] = nread + k - rsz
      BY <1>3, <2>1, <2>2
    <3>2. nread = e + rsz /\ k \in Int /\ rsz \in Nat
      BY <1>1, <1>2
    <3> QED
      BY <3>1, <3>2
  <2>3. CASE k \notin (rsz+1)..(rsz+n)
    <3>1. k \in 1..rsz /\ 0 + k = k
      BY <1>2, <2>3
    <3> QED
      BY <1>2, <1>3, <2>1, <2>3, <3>1
  <2> QED
    BY <2>2, <2>3
<1>7. Kept(0)' /\ Kept(pos)'
  <2>1. \A k \in 1..(rsz + n) : 0 + k = k
    BY <1>2
  <2> QED
    BY <1>1, <1>3, <1>4, <1>6, <2>1 DEF Kept
<1>8. phase' = "poll" => Short'
  <2>1. rsz' \in Nat /\ (phase' = "poll" => rsz' < 6)
    BY <1>2, <1>3
  <2>2. Frames /\ Len(got) \in Nat
    BY <1>2
  <2>3. ASSUME phase' = "poll", Len(got) < Len(sent)
        PROVE  rsz' < Size(sent[Len(got) + 1])
    <3>1. sent[Len(got) + 1] \in Kind
      BY <2>2, <2>3, SentLength
    <3>2. Size(sent[Len(got) + 1]) \in Nat /\ Size(sent[Len(got) + 1]) >= 6
      BY <3>1, SizeAtLeast
    <3> QED
      BY <2>1, <2>3, <3>2
  <2> QED
    BY <1>3, <2>3 DEF Short, Size
<1>9. nread' \in 0..t /\ rsz' \in Nat /\ pos' \in Nat /\ e + rsz' = nread' /\ pos' + rsz' <= t
  <2>1. nread' = nread + n /\ rsz' = rsz + n /\ pos' = 0
    BY <1>3
  <2>2. e + rsz = nread /\ rsz \in Nat /\ nread \in 0..t /\ n \in Nat /\ nread + n <= t
    BY <1>1, <1>2
  <2> QED
    BY <2>1, <2>2
<1>10. /\ Len(got') <= Len(sent') /\ got' \in Seq(Seq(Nat))
       /\ \A k \in 1..Len(got') : got'[k] = Whole(k)'
  BY <1>3, <1>4 DEF StreamInv
<1>11. phase' \in {"poll", "search"}
  BY <1>3
<1> QED
  BY <1>1, <1>3, <1>4, <1>5, <1>7, <1>8, <1>9, <1>10, <1>11 DEF StreamInv

LEMMA FoundKeeps ==
    ASSUME StreamInv, ~LongModeActive, FrameFound
    PROVE  StreamInv'
<1>1. phase = "search" /\ rsz > 0
  BY DEF FrameFound
<1>2. PICK junk \in Junk :
        /\ Complete(junk)
        /\ got' = Append(got, SubSeq(rframe, pos + 1, pos + Wait(junk)))
        /\ pos' = pos + Wait(junk) /\ rsz' = rsz - Wait(junk)
  BY DEF FrameFound
<1>3. PICK g, m, e, t \in Nat :
        /\ g = Len(got) /\ m = Size(sent[g + 1]) /\ e = End[g] /\ t = Total
        /\ g + 1 \in 1..Len(sent) /\ End[g + 1] = e + m /\ m >= 6 /\ Capacity = t + 2
  <2>1. Frames
    BY DEF StreamInv
  <2> QED
    BY <1>1, <2>1, NextFrame, TotalIs
<1>4. Wait(junk) = m /\ rsz >= m
  BY <1>1, <1>2, <1>3, HeaderSeen
<1>5. /\ Frames /\ rsz \in Nat /\ pos \in Nat /\ got \in Seq(Seq(Nat)) /\ nread \in 0..t
      /\ rframe \in [1..(t + 2) -> 0..t] /\ e + rsz = nread /\ pos + rsz <= t
      /\ \A k \in 1..rsz : rframe[pos + k] = e + k
      /\ \A k \in 1..g : got[k] = Whole(k)
  BY <1>1, <1>3 DEF StreamInv, Kept
<1>6. /\ sent' = sent /\ nread' = nread /\ rframe' = rframe /\ phase' = "search"
  BY <1>1 DEF FrameFound
<1>7. /\ Frames' /\ End' = End /\ Total' = t /\ Capacity' = t + 2
      /\ \A k : Whole(k)' = Whole(k)
  BY <1>3, <1>5, <1>6, SameStream
<1>8. PICK fr : fr = SubSeq(rframe, pos + 1, pos + m)
  OBVIOUS
<1>9. fr = Whole(g + 1) /\ fr \in Seq(Nat)
  <2>1. fr = [o \in 1..m |-> e + o]
    <3>1. \A o \in 1..m : rframe[(pos + 1) + o - 1] = e + o
      <4>1. \A o \in 1..m : o \in 1..rsz /\ (pos + 1) + o - 1 = pos + o
        BY <1>4, <1>5
      <4> QED
        BY <1>5, <4>1
    <3>2. \A i \in (pos + 1)..(pos + m) : rframe[i] \in Nat
      <4>1. \A i \in (pos + 1)..(pos + m) : i \in 1..(t + 2)
        BY <1>4, <1>5
      <4>2. \A i \in 1..(t + 2) : rframe[i] \in 0..t
        BY <1>5
      <4>3. 0..t \subseteq Nat
        OBVIOUS
      <4> QED
        BY <4>1, <4>2, <4>3
    <3>3. /\ pos + 1 \in Int /\ pos + m \in Int /\ pos + 1 <= pos + m
          /\ (pos + m) - (pos + 1) + 1 = m
      <4>1. pos \in Nat /\ m >= 6
        BY <1>3, <1>5
      <4> QED
        BY <4>1
    <3>4. /\ fr \in Seq(Nat) /\ Len(fr) = m
          /\ \A o \in 1..m : fr[o] = rframe[(pos + 1) + o - 1]
      BY <1>8, <3>2, <3>3, SubSeqProperties
    <3>5. fr = [o \in 1..m |-> fr[o]]
      BY <3>4, LenProperties
    <3> QED
      BY <3>1, <3>4, <3>5
  <2>2. (g + 1) - 1 = g
    OBVIOUS
  <2>3. fr = Whole(g + 1)
    BY <1>3, <2>1, <2>2 DEF Whole
  <2>4. fr \in [1..m -> Nat]
    BY <2>1
  <2> QED
    BY <2>3, <2>4
<1>10. /\ got' \in Seq(Seq(Nat)) /\ Len(got') = g + 1
       /\ got'[g + 1] = Whole(g + 1) /\ \A k \in 1..g : got'[k] = got[k]
  <2>1. got' = Append(got, fr) /\ got \in Seq(Seq(Nat)) /\ Len(got) = g
    BY <1>2, <1>3, <1>4, <1>5, <1>8
  <2>2. /\ got' \in Seq(Seq(Nat)) /\ Len(got') = g + 1 /\ got'[g + 1] = fr
        /\ \A k \in 1..g : got'[k] = got[k]
    BY <2>1, <1>9, AppendProperties
  <2> QED
    BY <1>9, <2>2
<1>11. \A k \in 1..Len(got') : got'[k] = Whole(k)'
  <2>1. \A k \in 1..(g + 1) : k \in 1..g \/ k = g + 1
    OBVIOUS
  <2> QED
    BY <1>5, <1>7, <1>10, <2>1
<1>12. Kept(pos)'
  <2> SUFFICES ASSUME NEW k \in 1..(rsz - m)
               PROVE  rframe[(pos + m) + k] = (e + m) + k
    BY <1>2, <1>3, <1>4, <1>6, <1>7, <1>10 DEF Kept
  <2>1. m + k \in 1..rsz /\ (pos + m) + k = pos + (m + k) /\ (e + m) + k = e + (m + k)
    BY <1>4, <1>5
  <2> QED
    BY <1>5, <2>1
<1>13. /\ rsz' \in Nat /\ pos' \in Nat /\ (e + m) + rsz' = nread' /\ pos' + rsz' <= t
       /\ End'[Len(got')] = e + m /\ Len(got') <= Len(sent')
  <2>1. Len(sent) \in Nat
    BY <1>5, SentLength
  <2> QED
    <3>1. rsz' = rsz - m /\ pos' = pos + m /\ nread' = nread
      BY <1>2, <1>4, <1>6
    <3>2. /\ rsz \in Nat /\ rsz >= m /\ pos \in Nat /\ e + rsz = nread /\ pos + rsz <= t
      BY <1>4, <1>5
    <3>3. rsz' \in Nat /\ pos' \in Nat /\ (e + m) + rsz' = nread' /\ pos' + rsz' <= t
      BY <3>1, <3>2
    <3>4. End'[Len(got')] = e + m /\ Len(got') <= Len(sent')
      BY <1>3, <1>6, <1>7, <1>10, <2>1
    <3> QED
      BY <3>3, <3>4
<1> QED
  BY <1>5, <1>6, <1>7, <1>10, <1>11, <1>12, <1>13 DEF StreamInv

LEMMA LeftKeeps ==
    ASSUME StreamInv, ~LongModeActive, KeepLeft
    PROVE  StreamInv'
<1>1. phase = "search" /\ rsz > 0
  BY DEF KeepLeft
<1>2. PICK junk \in Junk : ~Complete(junk) /\ rframe' = Left(junk)
  BY DEF KeepLeft
<1>3. PICK e, t \in Nat : e = End[Len(got)] /\ t = Total /\ Capacity = t + 2
  <2>1. Frames
    BY DEF StreamInv
  <2> QED
    BY <1>1, <2>1, NextFrame, TotalIs
<1>4. /\ Frames /\ rsz \in Nat /\ pos \in Nat
      /\ rframe \in [1..(t + 2) -> 0..t] /\ pos + rsz <= t
      /\ \A k \in 1..rsz : rframe[pos + k] = e + k
  BY <1>1, <1>3 DEF StreamInv, Kept
<1>5. /\ sent' = sent /\ nread' = nread /\ rsz' = rsz /\ pos' = pos /\ got' = got
      /\ phase' = "poll"
  BY DEF KeepLeft
<1>6. /\ Frames' /\ End' = End /\ Total' = t /\ Capacity' = t + 2
      /\ \A k : Whole(k)' = Whole(k)
  BY <1>3, <1>4, <1>5, SameStream
<1>7. rframe' = [k \in 1..(t + 2) |-> IF k <= rsz THEN rframe[pos + k] ELSE rframe[k]]
  <2>1. Wait(junk) > 0
    BY <1>1, HeaderSeen
  <2> QED
    BY <1>2, <1>3, <2>1 DEF Left
<1>8. rframe' \in [1..(t + 2) -> 0..t]
  <2>1. ASSUME NEW k \in 1..(t + 2)
        PROVE  (IF k <= rsz THEN rframe[pos + k] ELSE rframe[k]) \in 0..t
    <3>1. k <= rsz => pos + k \in 1..(t + 2)
      BY <1>4
    <3> QED
      BY <1>4, <3>1
  <2> QED
    BY <1>7, <2>1
<1>9. Kept(0)'
  <2> SUFFICES ASSUME NEW k \in 1..rsz
               PROVE  rframe'[k] = e + k
    <3>1. \A k \in 1..rsz : 0 + k = k
      BY <1>4
    <3> QED
      BY <1>3, <1>5, <1>6, <3>1 DEF Kept
  <2>1. k \in 1..(t + 2) /\ k <= rsz
    BY <1>4
  <2> QED
    BY <1>4, <1>7, <2>1
<1>10. Short'
  <2>1. /\ ~(rsz >= Size(sent[Len(got) + 1])) /\ Size(sent[Len(got) + 1]) \in Nat
    BY <1>1, <1>2, HeaderSeen, NextFrame
  <2>2. rsz < Size(sent[Len(got) + 1])
    BY <1>4, <2>1
  <2> QED
    BY <1>5, <2>2 DEF Short, Size
<1> QED
  BY <1>3, <1>5, <1>6, <1>8, <1>9, <1>10 DEF StreamInv

LEMMA ErrorKeeps ==
    ASSUME StreamInv, ~LongModeActive, FormatError
    PROVE  StreamInv'
<1>1. /\ phase = "search" /\ rsz > 0
      /\ sent' = sent /\ nread' = nread /\ rframe' = rframe /\ rsz' = rsz /\ pos' = pos
      /\ got' = got /\ phase' = "closed"
  BY DEF FormatError
<1>2. PICK junk \in Junk : BadStart(junk) \/ (~Complete(junk) /\ rsz >= FrameMax)
  BY DEF FormatError
<1>3. rsz >= FrameMax /\ ~(rsz >= Size(sent[Len(got) + 1]))
  BY <1>1, <1>2, HeaderSeen
<1>4. Size(sent[Len(got) + 1]) > FrameMax /\ Len(got) + 1 \in 1..Len(sent)
  <2>1. FrameMax \in Nat /\ rsz \in Nat
    BY FrameAssumption DEF StreamInv
  <2> QED
    BY <1>1, <1>3, <2>1, NextFrame
<1>5. /\ Frames' = Frames /\ End' = End /\ Total' = Total /\ Capacity' = Capacity
      /\ \A k : Whole(k)' = Whole(k)
  BY <1>1, SameStream
<1>6. \E k \in 1..Len(sent') : Size(sent'[k]) > FrameMax
  BY <1>1, <1>4
<1>7. (\E k \in 1..Len(sent) : Size(sent[k]) > FrameMax)'
  BY <1>6 DEF Size
<1> QED
  BY <1>1, <1>5, <1>7 DEF StreamInv

LEMMA UsedKeeps ==
    ASSUME StreamInv, AllUsed
    PROVE  StreamInv'
<1>1. /\ sent' = sent /\ nread' = nread /\ rframe' = rframe /\ rsz' = rsz /\ pos' = pos
      /\ got' = got /\ phase' = "poll" /\ rsz = 0
  BY DEF AllUsed, StreamInv
<1>2. /\ Frames' = Frames /\ End' = End /\ Total' = Total /\ Capacity' = Capacity
      /\ \A k : Whole(k)' = Whole(k)
  BY <1>1, SameStream
<1>3. Kept(0)'
  BY <1>1 DEF Kept
<1>4. Short
  <2>1. Frames /\ Len(got) \in Nat
    BY DEF StreamInv
  <2> QED
    BY <1>1, <2>1, FewAreShort
<1>5. Short'
  BY <1>1, <1>4 DEF Short, Size
<1> QED
  BY <1>1, <1>2, <1>3, <1>5 DEF StreamInv

LEMMA NextStream ==
    ASSUME StreamInv, ~LongModeActive, [Next]_vars
    PROVE  StreamInv'
<1>1. CASE UNCHANGED vars
  <2>1. /\ sent' = sent /\ nread' = nread /\ rframe' = rframe /\ rsz' = rsz /\ pos' = pos
        /\ got' = got /\ phase' = phase
    BY <1>1 DEF vars
  <2>2. /\ Frames' = Frames /\ End' = End /\ Total' = Total /\ Capacity' = Capacity
        /\ \A k : Whole(k)' = Whole(k)
    BY <2>1, SameStream
  <2> QED
    BY <2>1, <2>2 DEF StreamInv, Kept, Short, Size
<1> QED
  BY <1>1, ReadKeeps, FoundKeeps, LeftKeeps, UsedKeeps, ErrorKeeps DEF Next

-----------------------------------------------------------------------------
(* The theorems *)

\* Without the long mode, the buffer of the link holds what follows the
\* frames found so far, from the right place on, whatever read() returned.
THEOREM StreamInvariance ==
    ASSUME ~LongModeActive
    PROVE  Spec => []StreamInv
<1>1. Init => StreamInv
  BY InitStream
<1>2. StreamInv /\ [Next]_vars => StreamInv'
  BY NextStream
<1> QED
  BY <1>1, <1>2, PTL DEF Spec

\* What IncomingFrame is given are the frames the peer sent, byte for byte
\* (FramesIntact).
THEOREM FramesCorrect ==
    ASSUME ~LongModeActive
    PROVE  Spec => []FramesIntact
<1>1. StreamInv => FramesIntact
  <2> SUFFICES ASSUME StreamInv, NEW k \in 1..Len(got)
               PROVE  k <= Len(sent) /\ got[k] = Whole(k)
    BY DEF FramesIntact, Whole
  <2>1. Len(got) \in Nat /\ Len(sent) \in Nat /\ Len(got) <= Len(sent)
    BY TotalIs DEF StreamInv
  <2> QED
    BY <2>1 DEF StreamInv
<1> QED
  BY <1>1, StreamInvariance, PTL

\* Only a frame above FRAME_MAX makes the link close, and otherwise every
\* frame is found once its last byte was read (OnlyLargeRefused).
THEOREM RefusedCorrect ==
    ASSUME ~LongModeActive
    PROVE  Spec => []OnlyLargeRefused
<1>1. ASSUME StreamInv, phase = "poll", nread = Total
      PROVE  Len(got) = Len(sent)
  <2> SUFFICES ASSUME Len(got) # Len(sent)
               PROVE  FALSE
    OBVIOUS
  <2>1. /\ Frames /\ Len(got) \in Nat /\ Len(sent) \in Nat /\ Len(got) < Len(sent)
        /\ Total = End[Len(sent)] /\ rsz \in Nat
    BY TotalIs, <1>1 DEF StreamInv
  <2>2. PICK g, e \in Nat : g = Len(got) /\ e = End[g] /\ e + rsz = End[Len(sent)]
    <3>1. End[Len(got)] \in Nat
      BY <2>1, EndSteps
    <3> QED
      BY <1>1, <2>1, <3>1 DEF StreamInv
  <2>3. g + 1 \in 1..Len(sent) /\ (g + 1) - 1 = g /\ g + 1 \in 0..Len(sent)
        /\ Len(sent) \in 0..Len(sent) /\ g + 1 <= Len(sent)
    BY <2>1, <2>2
  <2>4. End[g + 1] = e + Size(sent[g + 1]) /\ End[g + 1] <= End[Len(sent)]
    BY <2>1, <2>2, <2>3, EndSteps, EndRises
  <2>5. Size(sent[g + 1]) \in Nat
    <3>1. sent[g + 1] \in Kind
      BY <2>1, <2>3, SentLength
    <3> QED
      BY <3>1, SizeAtLeast
  <2>6. rsz < Size(sent[g + 1])
    BY <1>1, <2>1, <2>2 DEF StreamInv, Short
  <2> QED
    BY <2>1, <2>2, <2>4, <2>5, <2>6
<1>2. StreamInv => OnlyLargeRefused
  BY <1>1 DEF OnlyLargeRefused, StreamInv
<1> QED
  BY <1>2, StreamInvariance, PTL
=============================================================================
