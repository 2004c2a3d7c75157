----------------------------- MODULE XlapStream -----------------------------
(***************************************************************************)
(* How a link of lib/xlap.c cuts the byte stream of its socket into frames *)
(* (ReadSocket and SearchFrame).  A short frame is STARTFRAME, one length  *)
(* byte and its body; a long frame (long mode only) is STARTFRAMELONG, two *)
(* length bytes and its body.  read() returns any number of the bytes that *)
(* have arrived.                                                           *)
(*                                                                         *)
(* A byte is named by its position in the stream, 1, 2, ...; Val gives its *)
(* value.  The buffer lk_rframe holds positions, 0 where nothing was ever  *)
(* stored.                                                                 *)
(***************************************************************************)
EXTENDS Integers, Sequences

CONSTANTS
    LongModeActive,     \* rtl_LapEnableLongMode was called
    FrameMax,           \* FRAME_MAX, in bytes
    ReadSize,           \* TCP_READ_SIZE, in bytes
    ShortBody,          \* bodies of short frames the peer sends, in bytes
    LongBody,           \* bodies of long frames the peer sends, in bytes
    MaxFrames           \* bound: frames the peer sends

StartSz == 1
ApciSz  == StartSz + 1 + 4

\* The largest body one length byte can tell, and two length bytes.
ByteMax == 255
WordMax == 65535

ASSUME FrameAssumption ==
    /\ LongModeActive \in BOOLEAN
    /\ FrameMax \in Nat /\ ReadSize \in Nat
    /\ ShortBody \subseteq 4..ByteMax
    /\ LongBody \subseteq 4..WordMax
    /\ MaxFrames \in Nat

VARIABLES
    sent,       \* the frames the peer writes, in order
    nread,      \* bytes of the stream already read
    rframe,     \* lk_rframe, as positions
    rsz,        \* lk_rsz: bytes not yet consumed
    pos,        \* local variable of ReadSocket
    phase,      \* "poll", or "search" inside the loop of ReadSocket
    got         \* the frames given to IncomingFrame, as positions

vars == <<sent, nread, rframe, rsz, pos, phase, got>>

-----------------------------------------------------------------------------
(* The stream of the peer *)

STARTFRAME     == 104
STARTFRAMELONG == 105

Kind == [long : {FALSE}, body : ShortBody]
        \cup (IF LongModeActive THEN [long : {TRUE}, body : LongBody] ELSE {})

\* The index of the first control byte, counted from the start byte.
IdxCtrl(long) == StartSz + (IF long THEN 2 ELSE 1)

Size(f) == IdxCtrl(f.long) + f.body

\* End[k] is the position of the last byte of frame k.
End[k \in 0..MaxFrames] == IF k = 0 THEN 0 ELSE End[k-1] + Size(sent[k])

Total == End[Len(sent)]

\* The frame that holds position p, and the value of the byte there.  The
\* bytes of a body may look like anything; a start byte is the worst case.
FrameAt(p) == CHOOSE k \in 1..Len(sent) : End[k-1] < p /\ p <= End[k]
Val(p) ==
    LET f == sent[FrameAt(p)]
        o == p - End[FrameAt(p) - 1] - 1
    IN  CASE o = 0 -> IF f.long THEN STARTFRAMELONG ELSE STARTFRAME
          [] o = 1 -> IF f.long THEN f.body \div 256 ELSE f.body
          [] o = 2 /\ f.long -> f.body % 256
          [] OTHER -> STARTFRAME

-----------------------------------------------------------------------------
(* SearchFrame on the bytes rframe[pos..], rsz of which have arrived.  A    *)
(* header byte that has not arrived yet is whatever the buffer holds: an    *)
(* old byte, or junk where nothing was stored.                              *)

Byte(k, junk) == IF rframe[k+1] = 0 THEN junk ELSE Val(rframe[k+1])

\* lk_rwait: the size of the frame as far as its header is known, else 0.
Wait(junk) ==
    IF Byte(pos, junk) = STARTFRAME
    THEN Byte(pos + 1, junk) + IdxCtrl(FALSE)
    ELSE IF rsz >= 2
         THEN Byte(pos + 1, junk) * 256 + Byte(pos + 2, junk) + IdxCtrl(TRUE)
         ELSE 0

BadStart(junk) ==
    /\ Byte(pos, junk) # STARTFRAME
    /\ Byte(pos, junk) # STARTFRAMELONG \/ ~LongModeActive

\* Fault: a frame is taken for complete one byte late.
Complete_Late(junk) ==
    /\ Wait(junk) # 0
    /\ rsz > IdxCtrl(Byte(pos, junk) # STARTFRAME)
    /\ rsz > Wait(junk)

Complete(junk) ==
    /\ Wait(junk) # 0
    /\ rsz > IdxCtrl(Byte(pos, junk) # STARTFRAME)
    /\ rsz >= Wait(junk)

-----------------------------------------------------------------------------
Junk == {0, 255}

\* SearchFrame looks at most two bytes past the bytes that have arrived.
Capacity == Total + 2

Init ==
    /\ sent \in UNION {[1..n -> Kind] : n \in 1..MaxFrames}
    /\ nread = 0
    /\ rframe = [k \in 1..Capacity |-> 0]
    /\ rsz = 0
    /\ pos = 0
    /\ phase = "poll"
    /\ got = <<>>

\* ReadSocket up to its loop: n bytes are stored after the rsz ones.
ReadSocket(n) ==
    /\ phase = "poll"
    /\ n <= ReadSize /\ nread + n <= Total
    /\ rframe' = [k \in 1..Capacity |-> IF k \in (rsz+1)..(rsz+n) THEN nread + k - rsz
                                        ELSE rframe[k]]
    /\ nread' = nread + n
    /\ rsz' = rsz + n
    /\ pos' = 0
    /\ phase' = IF rsz + n < ApciSz THEN "poll" ELSE "search"
    /\ UNCHANGED <<sent, got>>

\* SearchFrame finds a frame: IncomingFrame has it, the loop goes on after it.
FrameFound ==
    /\ phase = "search" /\ rsz > 0
    /\ \E junk \in Junk :
        /\ ~BadStart(junk) /\ Complete(junk)
        /\ got' = Append(got, SubSeq(rframe, pos + 1, pos + Wait(junk)))
        /\ pos' = pos + Wait(junk)
        /\ rsz' = rsz - Wait(junk)
    /\ UNCHANGED <<sent, nread, rframe, phase>>

\* Fault: the bytes left are not moved.
Left_InPlace(junk) == rframe

\* The bytes left are moved to the front, provided lk_rwait is known.
Left(junk) ==
    IF Wait(junk) > 0
    THEN [k \in 1..Capacity |-> IF k <= rsz THEN rframe[pos + k] ELSE rframe[k]]
    ELSE rframe

\* SearchFrame needs more bytes: those left are kept.
KeepLeft ==
    /\ phase = "search" /\ rsz > 0
    /\ \E junk \in Junk :
        /\ ~BadStart(junk) /\ ~Complete(junk) /\ rsz < FrameMax
        /\ rframe' = Left(junk)
    /\ phase' = "poll"
    /\ UNCHANGED <<sent, nread, rsz, pos, got>>

\* No byte is left.
AllUsed ==
    /\ phase = "search" /\ rsz <= 0
    /\ phase' = "poll"
    /\ UNCHANGED <<sent, nread, rframe, rsz, pos, got>>

\* EVT_FRAME_FMTERROR: the link is disconnected.
FormatError ==
    /\ phase = "search" /\ rsz > 0
    /\ \E junk \in Junk : BadStart(junk) \/ (~Complete(junk) /\ rsz >= FrameMax)
    /\ phase' = "closed"
    /\ UNCHANGED <<sent, nread, rframe, rsz, pos, got>>

Next ==
    \/ \E n \in 1..Total : ReadSocket(n)
    \/ FrameFound
    \/ KeepLeft
    \/ AllUsed
    \/ FormatError

Spec == Init /\ [][Next]_vars

-----------------------------------------------------------------------------
\* What was given to IncomingFrame so far is exactly the first frames the
\* peer sent, byte for byte, however read() cut the stream.
FramesIntact ==
    \A k \in 1..Len(got) :
        k <= Len(sent) /\ got[k] = [o \in 1..Size(sent[k]) |-> End[k-1] + o]

\* A link is only disconnected for its format when the peer did send a frame
\* larger than FRAME_MAX, and otherwise every frame is found.
OnlyLargeRefused ==
    /\ phase = "closed" => \E k \in 1..Len(sent) : Size(sent[k]) > FrameMax
    /\ (phase = "poll" /\ nread = Total) => Len(got) = Len(sent)
=============================================================================
