---------------------------- MODULE VideoStream ----------------------------
(***************************************************************************)
(* How a player's parser thread gets stream data to the decoder thread:    *)
(* RequestVideoStreamBuffer, SubmitVideoStreamData and ResetVideoDecoder   *)
(* of vdecoder/vdecoder.c on top of SbmStream.                             *)
(*                                                                         *)
(* A frame may come in several parts.  The parts gather, unlocked, in      *)
(* partialStreamDataInfo and only a whole frame is added to the buffer     *)
(* manager: until then the bytes of the parts lie behind pWriteAddr, where *)
(* the manager believes the ring is free.  The two calls of SbmAddStream   *)
(* in one submission are two steps, the decoder runs in between.           *)
(*                                                                         *)
(* Assumed of the player: it submits no more bytes than it was granted, a  *)
(* part that continues a frame follows a first part, and it resets the     *)
(* decoder only while it has no grant and no decode call is running        *)
(* (neither partialStreamDataInfo nor the decoders have a lock).           *)
(***************************************************************************)
EXTENDS SbmStream

CONSTANTS
    Sizes,           \* bytes the parser asks for
    EmptyFrameSize   \* what a request for no bytes is given (4)

ASSUME VideoStreamAssumption ==
    /\ Sizes \subseteq Nat
    /\ EmptyFrameSize \in Nat \ {0}

VARIABLES
    partial,    \* partialStreamDataInfo
    pc,         \* "idle", "asking", "granted", "complete"
    want,       \* the size asked for
    ppBuf, pBufSize, pRingBufSize    \* the blocks granted

grant == <<ppBuf, pBufSize, pRingBufSize>>
vars == <<sbmVars, partial, pc, want, grant>>

NoPartial == [pData |-> NULL, nLength |-> 0, nPts |-> NoPts]

Init ==
    /\ SbmStreamInit
    /\ partial = [NoPartial EXCEPT !.nPts = 0]
    /\ pc = "idle"
    /\ want = 0
    /\ ppBuf = NULL /\ pBufSize = 0 /\ pRingBufSize = 0

-----------------------------------------------------------------------------
(* The parser thread. *)

\* The parser has n bytes to deliver; it asks until it is granted a buffer.
Ask(n) ==
    /\ pc = "idle"
    /\ pc' = "asking"
    /\ want' = n
    /\ UNCHANGED <<sbmVars, partial, grant>>

\* What the request is for: no bytes still get a few.
Need == IF want = 0 THEN EmptyFrameSize ELSE want

\* Mutant: the bytes of the parts that wait for the rest are forgotten.
StartAtWriteAddr == pWriteAddr

\* Where the data go: behind the parts that wait for the rest.
StartAddr == WrapAddr(pWriteAddr + partial.nLength)

\* Bytes of a grant up to the end of the ring.
FirstBlock(pStart, nFreeSize) ==
    IF pStart + nFreeSize <= nStreamBufferSize
    THEN nFreeSize ELSE nStreamBufferSize - pStart

RequestVideoStreamBuffer ==
    /\ pc = "asking"
    /\ SbmStreamCanRequest(Need + partial.nLength)
    /\ pc' = "granted"
    /\ ppBuf' = StartAddr
    /\ pBufSize' = FirstBlock(StartAddr, Need)
    /\ pRingBufSize' = Need - FirstBlock(StartAddr, Need)
    /\ UNCHANGED <<sbmVars, partial, want>>

\* A first part: a frame whose rest never came is added as it is.
SubmitFirstPart(nLength, nPts) ==
    /\ IF partial.nLength # 0
       THEN SbmStreamAddStream(partial)
       ELSE UNCHANGED sbmVars
    /\ partial' = [pData |-> ppBuf, nLength |-> nLength, nPts |-> nPts]

\* A part that continues the frame.
SubmitNextPart(nLength, nPts) ==
    /\ partial.pData # NULL
    /\ partial' = [partial EXCEPT
                     !.nLength = @ + nLength,
                     !.nPts = IF @ = NoPts /\ nPts # NoPts THEN nPts ELSE @]
    /\ UNCHANGED sbmVars

\* SubmitVideoStreamData up to the test of bIsLastPart.
SubmitVideoStreamData(nLength, nPts, bIsFirstPart, bIsLastPart) ==
    /\ pc = "granted"
    /\ nLength <= pBufSize + pRingBufSize
    /\ IF bIsFirstPart THEN SubmitFirstPart(nLength, nPts)
                       ELSE SubmitNextPart(nLength, nPts)
    /\ pc' = IF bIsLastPart THEN "complete" ELSE "idle"
    /\ ppBuf' = NULL /\ pBufSize' = 0 /\ pRingBufSize' = 0
    /\ want' = 0

\* Mutant: the frame is added and stays partial.
SubmittedStaysPartial == partial

\* partialStreamDataInfo after a whole frame.
AfterSubmit == NoPartial

\* SubmitVideoStreamData after a last part: the frame is complete.
SubmitComplete ==
    /\ pc = "complete"
    /\ SbmStreamAddStream(partial)
    /\ partial' = AfterSubmit
    /\ pc' = "idle"
    /\ UNCHANGED <<want, grant>>

-----------------------------------------------------------------------------
\* ResetVideoDecoder: the decoder gives back what it holds, then the buffer
\* manager and the partial frame start again.
ResetVideoDecoder ==
    /\ pc \in {"idle", "asking"}
    /\ aborted' = (aborted \/ (held # <<>> /\ nValidFrameNum # 0
                                           /\ Head(held) # nFlushPos))
    /\ held' = <<>>
    /\ SbmStreamReset
    /\ partial' = [NoPartial EXCEPT !.nPts = 0]
    /\ UNCHANGED <<pc, want, grant>>

Parser ==
    \/ \E n \in Sizes : Ask(n)
    \/ RequestVideoStreamBuffer
    \/ \E n \in 0 .. nStreamBufferSize, t \in Pts \cup {NoPts},
          first \in BOOLEAN, last \in BOOLEAN :
           SubmitVideoStreamData(n, t, first, last)
    \/ SubmitComplete

\* The calls of a decoder.
Decoder ==
    \/ SbmStreamRequestStream /\ UNCHANGED <<partial, pc, want, grant>>
    \/ SbmStreamReturnStream /\ UNCHANGED <<partial, pc, want, grant>>
    \/ SbmStreamFlushStream /\ UNCHANGED <<partial, pc, want, grant>>

Next == Parser \/ Decoder \/ ResetVideoDecoder

Spec == Init /\ [][Next]_vars

(***************************************************************************)
(* The decoder takes what is there and gives it back (a decode call ends), *)
(* the parser goes on asking and a submission ends.  The decoder may put a *)
(* slot back before it gives it back: strong fairness.  Nothing is assumed *)
(* of how often the player submits or resets.                              *)
(***************************************************************************)
Fairness ==
    /\ WF_vars(SbmStreamRequestStream /\ UNCHANGED <<partial, pc, want, grant>>)
    /\ SF_vars(SbmStreamFlushStream /\ UNCHANGED <<partial, pc, want, grant>>)
    /\ WF_vars(RequestVideoStreamBuffer)
    /\ WF_vars(SubmitComplete)

FairSpec == Spec /\ Fairness

-----------------------------------------------------------------------------
\* Types of all variables.
TypeOK ==
    /\ SbmTypeOK
    /\ partial \in DataInfos
    /\ pc \in {"idle", "asking", "granted", "complete"}
    /\ want \in Sizes \cup {0}
    /\ ppBuf \in Addresses \cup {NULL}
    /\ pBufSize \in 0 .. nStreamBufferSize
    /\ pRingBufSize \in 0 .. nStreamBufferSize

\* The slot of the k-th stored frame, the oldest is the 0-th.
StoredSlot(k) == IF nFlushPos + k >= nMaxFrameNum
                 THEN nFlushPos + k - nMaxFrameNum ELSE nFlushPos + k

\* Bytes from address a on to address b.
Distance(a, b) == IF a <= b THEN b - a ELSE b - a + nStreamBufferSize

(***************************************************************************)
(* The fifo's three positions and two counters, kept apart by five calls   *)
(* of two threads, describe one queue, and the decoder holds its oldest    *)
(* slots in order.                                                         *)
(***************************************************************************)
PositionsAgree ==
    /\ nUnReadFrameNum <= nValidFrameNum
    /\ nValidFrameNum <= nMaxFrameNum
    /\ nWritePos = StoredSlot(nValidFrameNum)
    /\ nReadPos = StoredSlot(nValidFrameNum - nUnReadFrameNum)
    /\ Len(held) = nValidFrameNum - nUnReadFrameNum
    /\ \A i \in 1 .. Len(held) : held[i] = StoredSlot(i - 1)

\* The decoder can never be sent into abort() by SbmStreamReturnStream or
\* SbmStreamFlushStream ("wrong frame sequence", "not current nFlushPos").
NoAbort == ~aborted

\* Bytes stored from the k-th frame on, and behind them nothing but free
\* bytes: from the frame's address to pWriteAddr.
BytesFrom(k) == IF k = nValidFrameNum THEN 0
                ELSE Distance(pFrames[StoredSlot(k)].pData, pWriteAddr)

(***************************************************************************)
(* The stored frames lie in the ring one after the other, in fifo order,   *)
(* without gap or overlap, up to pWriteAddr, and nValidDataSize counts     *)
(* them.  Behind it: SubmitVideoStreamData stores the address it got from  *)
(* RequestVideoStreamBuffer, SbmStreamAddStream advances pWriteAddr on its *)
(* own; nothing compares the two.                                          *)
(***************************************************************************)
StoredLayout ==
    /\ \A k \in 0 .. nValidFrameNum - 1 :
        /\ pFrames[StoredSlot(k)].pData \in Addresses
        /\ BytesFrom(k) = pFrames[StoredSlot(k)].nLength + BytesFrom(k + 1)
    /\ \A j, k \in 0 .. nValidFrameNum :
        j <= k => BytesFrom(k) <= BytesFrom(j)
    /\ BytesFrom(0) = nValidDataSize

\* The parts of a frame that is not complete lie behind the stored frames.
PartialBehind ==
    /\ nValidDataSize + partial.nLength < nStreamBufferSize
    /\ partial.pData # NULL => partial.pData = pWriteAddr
    /\ partial.pData = NULL => partial.nLength = 0

\* The whole ring: stored frames, then the partial one, then free bytes.
RingLayout == StoredLayout /\ PartialBehind

\* The bytes of a block that starts at a and may ring back.
Bytes(a, n) == {WrapAddr(a + i) : i \in 0 .. n - 1}

\* The bytes the parser may write: the two blocks it was given.
Granted == {ppBuf + i : i \in 0 .. pBufSize - 1} \cup (0 .. pRingBufSize - 1)

(***************************************************************************)
(* The parser never writes over a frame that the decoder has yet to read,  *)
(* or is reading, or over a part that waits for the rest of its frame, nor *)
(* outside the ring, whatever was stored, taken and given back since it    *)
(* was granted the buffer.                                                 *)
(***************************************************************************)
WritesOnlyFree ==
    pc = "granted" =>
        /\ Granted \subseteq Addresses
        /\ Granted \cap Bytes(pWriteAddr, partial.nLength) = {}
        /\ \A k \in 0 .. nValidFrameNum - 1 :
             LET f == pFrames[StoredSlot(k)] IN
             Granted \cap Bytes(f.pData, f.nLength) = {}

\* A frame that was granted its buffer is dropped only if the fifo has no
\* slot left: the bytes are there, also after the frame before it, whose
\* rest never came, has been added first.
DroppedOnlyWithoutSlot ==
    pc = "complete" =>
        SbmStreamCanAdd(partial) \/ nValidFrameNum = nMaxFrameNum

SQ == INSTANCE StreamQueue WITH
          taken <- [i \in 1 .. Len(held) |-> pFrames[held[i]].nPts],
          waiting <- [i \in 1 .. nUnReadFrameNum |->
                        pFrames[StoredSlot(Len(held) + i - 1)].nPts],
          Frame <- Pts \cup {NoPts}

\* The buffer manager is a queue: frames come out in the order they went
\* in, and the slots the decoder points to keep their contents.
RefinesStreamQueue == SQ!SQSpec

\* The parser gets its buffer in the end if the ring is large enough for
\* the whole frame.
ParserServed ==
    pc = "asking" /\ Need + partial.nLength + Margin <= nStreamBufferSize
        ~> pc # "asking"
=============================================================================
