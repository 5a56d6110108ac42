----------------------------- MODULE SbmStream -----------------------------
(***************************************************************************)
(* The stream buffer manager of vdecoder/sbm/sbmStream.c: a ring of bytes  *)
(* that the parser thread fills and a fifo of VideoStreamDataInfo slots    *)
(* that say where each frame lies in the ring.  The decoder takes slots in *)
(* order, may put back the one it took last, and gives the oldest one back *)
(* with its bytes.  Every call runs under SbmStream.mutex.                 *)
(*                                                                         *)
(* An address is an offset from pStreamBuffer.  A frame is its place in    *)
(* the ring and its time stamp, which stands for all the other fields.     *)
(***************************************************************************)
EXTENDS Integers, Sequences

CONSTANTS
    nStreamBufferSize,   \* bytes of the ring
    nMaxFrameNum,        \* slots of the fifo (SBM_FRAME_FIFO_SIZE)
    Margin,              \* bytes SbmRequestBuffer keeps free (64)
    Pts                  \* time stamps the parser uses

ASSUME SbmAssumption ==
    /\ nStreamBufferSize \in Nat \ {0}
    /\ nMaxFrameNum \in Nat \ {0}
    /\ Margin \in Nat \ {0}
    /\ Pts \subseteq Nat

Addresses == 0 .. nStreamBufferSize - 1
NULL == -1
NoPts == -1

Slots == 0 .. nMaxFrameNum - 1

\* VideoStreamDataInfo
DataInfos == [pData : Addresses \cup {NULL}, nLength : Nat,
              nPts : Pts \cup {NoPts, 0}]

VARIABLES
    pWriteAddr, nValidDataSize,
    nValidFrameNum, nUnReadFrameNum, nReadPos, nWritePos, nFlushPos,
    pFrames,
    held,       \* slots the decoder has a pointer to, in request order
    aborted     \* a call has reached abort()

sbmNums == <<pWriteAddr, nValidDataSize, nValidFrameNum, nUnReadFrameNum,
             nReadPos, nWritePos, nFlushPos>>

sbmVars == <<sbmNums, pFrames, held, aborted>>

SbmTypeOK ==
    /\ pWriteAddr \in Addresses
    /\ nValidDataSize \in 0 .. nStreamBufferSize
    /\ nValidFrameNum \in 0 .. nMaxFrameNum
    /\ nUnReadFrameNum \in 0 .. nMaxFrameNum
    /\ nReadPos \in Slots
    /\ nWritePos \in Slots
    /\ nFlushPos \in Slots
    /\ pFrames \in [Slots -> DataInfos]
    /\ held \in Seq(Slots)
    /\ aborted \in BOOLEAN

-----------------------------------------------------------------------------
\* Mutant: ">" for ">=", the last slot is followed by one that is not there.
NextPosLate(i) == IF i + 1 > nMaxFrameNum THEN 0 ELSE i + 1

\* The position after i in the fifo.
NextPos(i) == IF i + 1 >= nMaxFrameNum THEN 0 ELSE i + 1

\* The position before i in the fifo.
PrevPos(i) == IF i - 1 < 0 THEN nMaxFrameNum - 1 ELSE i - 1

\* Address a, reached by counting on past the end of the ring.
WrapAddr(a) ==
    IF a > nStreamBufferSize - 1 THEN a - nStreamBufferSize ELSE a

SbmStreamInit ==
    /\ pWriteAddr = 0
    /\ nValidDataSize = 0
    /\ nValidFrameNum = 0
    /\ nUnReadFrameNum = 0
    /\ nReadPos = 0
    /\ nWritePos = 0
    /\ nFlushPos = 0
    /\ pFrames = [i \in Slots |-> [pData |-> NULL, nLength |-> 0, nPts |-> 0]]
    /\ held = <<>>
    /\ aborted = FALSE

\* The slots are not cleared, and the decoder is not told.
SbmStreamReset ==
    /\ pWriteAddr' = 0
    /\ nValidDataSize' = 0
    /\ nValidFrameNum' = 0
    /\ nUnReadFrameNum' = 0
    /\ nReadPos' = 0
    /\ nWritePos' = 0
    /\ nFlushPos' = 0
    /\ UNCHANGED pFrames

\* Mutant: some byte is free, so the request is granted.
CanRequestUnbounded(nRequireSize) ==
    /\ nValidFrameNum < nMaxFrameNum
    /\ nValidDataSize < nStreamBufferSize

\* SbmStreamRequestBuffer succeeds.
SbmStreamCanRequest(nRequireSize) ==
    /\ nValidFrameNum < nMaxFrameNum
    /\ nValidDataSize < nStreamBufferSize
    /\ nRequireSize + Margin <= nStreamBufferSize - nValidDataSize

\* Mutant: ">" for ">=", a full fifo takes one frame more.
CanAddOverfull(pDataInfo) ==
    /\ pDataInfo.pData # NULL
    /\ nValidFrameNum <= nMaxFrameNum
    /\ pDataInfo.nLength + nValidDataSize <= nStreamBufferSize

\* SbmStreamAddStream takes pDataInfo.
SbmStreamCanAdd(pDataInfo) ==
    /\ pDataInfo.pData # NULL
    /\ nValidFrameNum < nMaxFrameNum
    /\ pDataInfo.nLength + nValidDataSize <= nStreamBufferSize

\* A frame that is not taken leaves no trace: -1 is returned to a caller
\* that does not look at it.
SbmStreamAddStream(pDataInfo) ==
    /\ IF SbmStreamCanAdd(pDataInfo)
       THEN /\ pFrames' = [pFrames EXCEPT ![nWritePos] = pDataInfo]
            /\ nWritePos' = NextPos(nWritePos)
            /\ nValidFrameNum' = nValidFrameNum + 1
            /\ nUnReadFrameNum' = nUnReadFrameNum + 1
            /\ nValidDataSize' = nValidDataSize + pDataInfo.nLength
            /\ pWriteAddr' = WrapAddr(pWriteAddr + pDataInfo.nLength)
       ELSE UNCHANGED <<pFrames, nWritePos, nValidFrameNum, nUnReadFrameNum,
                        nValidDataSize, pWriteAddr>>
    /\ UNCHANGED <<nReadPos, nFlushPos, held, aborted>>

-----------------------------------------------------------------------------
(* The decoder. *)

SbmStreamRequestStream ==
    /\ nUnReadFrameNum # 0
    /\ held' = Append(held, nReadPos)
    /\ nReadPos' = NextPos(nReadPos)
    /\ nUnReadFrameNum' = nUnReadFrameNum - 1
    /\ UNCHANGED <<pWriteAddr, nValidDataSize, nValidFrameNum, nWritePos,
                   nFlushPos, pFrames, aborted>>

\* The decoder puts back the slot it took last.
SbmStreamReturnStream ==
    LET pDataInfo == held[Len(held)] IN
    /\ held # <<>>
    /\ held' = SubSeq(held, 1, Len(held) - 1)
    /\ IF nValidFrameNum = 0
       THEN UNCHANGED <<nReadPos, nUnReadFrameNum, aborted>>
       ELSE /\ nUnReadFrameNum' = nUnReadFrameNum + 1
            /\ IF pDataInfo # PrevPos(nReadPos)
               THEN aborted' = TRUE /\ UNCHANGED nReadPos
               ELSE nReadPos' = PrevPos(nReadPos) /\ UNCHANGED aborted
    /\ UNCHANGED <<pWriteAddr, nValidDataSize, nValidFrameNum, nWritePos,
                   nFlushPos, pFrames>>

\* Mutant: the bytes of the slot are not given back.
KeepDataSize(pDataInfo) == nValidDataSize

\* The bytes in use once the slot's bytes are given back.
DataSizeWithout(pDataInfo) == nValidDataSize - pFrames[pDataInfo].nLength

\* The decoder gives back the slot it has had longest.
SbmStreamFlushStream ==
    LET pDataInfo == Head(held) IN
    /\ held # <<>>
    /\ held' = Tail(held)
    /\ IF nValidFrameNum = 0
       THEN UNCHANGED <<nFlushPos, nValidFrameNum, nValidDataSize, aborted>>
       ELSE IF pDataInfo # nFlushPos
       THEN /\ aborted' = TRUE
            /\ UNCHANGED <<nFlushPos, nValidFrameNum, nValidDataSize>>
       ELSE /\ nFlushPos' = NextPos(nFlushPos)
            /\ nValidFrameNum' = nValidFrameNum - 1
            /\ nValidDataSize' = DataSizeWithout(pDataInfo)
            /\ UNCHANGED aborted
    /\ UNCHANGED <<pWriteAddr, nUnReadFrameNum, nReadPos, nWritePos, pFrames>>
=============================================================================
