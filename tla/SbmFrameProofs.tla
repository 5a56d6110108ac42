--------------------------- MODULE SbmFrameProofs ---------------------------
(***************************************************************************)
(* The frame mode with its detector, parser and decoder implements the     *)
(* handshake of SbmThread: no step of the detection takes part in it but   *)
(* the ones that end a READ or a RESET.  What SbmThreadProofs shows of the *)
(* handshake therefore holds of the whole.                                 *)
(***************************************************************************)
EXTENDS SbmFrame, SbmThreadProofs, WellFoundedInduction

\* A step of the detection is one of ProcessThread's, or none of SbmThread's.
LEMMA DetectStep == Detect => [Detector]_threadVars
<1> USE DEF Detector, Return, GoTo
<1>1. CheckRequest => [Detector]_threadVars
  BY DEF CheckRequest
<1>2. CheckUnknown => [Detector]_threadVars
  BY DEF CheckUnknown
<1>3. CheckKnown => [Detector]_threadVars
  BY DEF CheckKnown
<1>4. DetectStart => [Detector]_threadVars
  BY DEF DetectStart
<1>5. SupplyFlush \/ SupplyRequest \/ SupplyEmpty => [Detector]_threadVars
  BY DEF SupplyFlush, SupplyRequest, SupplyEmpty
<1>6. Starved => [Detector]_threadVars
  BY DEF Starved
<1>7. StoreNalu \/ PictureFound => [Detector]_threadVars
  BY DEF StoreNalu, PictureFound
<1>8. DisposeInvalidStreamData \/ AddInvalidPic => [Detector]_threadVars
  BY DEF DisposeInvalidStreamData, AddInvalidPic
<1>9. ResetFlush \/ ResetAll => [Detector]_threadVars
  BY DEF ResetFlush, ResetAll
<1> QED
  BY <1>1, <1>2, <1>3, <1>4, <1>5, <1>6, <1>7, <1>8, <1>9 DEF Detect

\* So is every step of the frame mode.
LEMMA NextThread == [Next]_vars => [ThreadNext]_threadVars
<1>1. Messages => Detector
  BY DEF Messages, Detector
<1>2. InitType \/ ResetCall \/ DestroyCall \/ Calls => Control
  BY DEF InitType, ResetCall, DestroyCall, Calls, Control
<1>3. Client => UNCHANGED threadVars
  BY DEF Client, SbmFrameAddStream, SbmFrameSetEos, SbmFrameRequestFramePic,
         SbmFrameReturnFramePic, SbmFrameFlushFramePic
<1>4. Finished => UNCHANGED threadVars
  BY DEF Finished, Destroyed
<1>5. UNCHANGED vars => UNCHANGED threadVars
  BY DEF vars
<1> QED
  BY DetectStep, <1>1, <1>2, <1>3, <1>4, <1>5 DEF Next, ThreadNext

\* The frame mode implements the handshake between the detector thread and
\* SbmFrameInit, SbmFrameReset and SbmFrameDestroy.
THEOREM FrameImplementsThread == Spec => ThreadSpec
<1>1. Init => ThreadInit
  BY DEF Init
<1> QED
  BY <1>1, NextThread, PTL DEF Spec, ThreadSpec

\* No post of the frame mode, whose results nobody looks at, is lost.
THEOREM FramePostsSucceed == Spec => []PostsSucceed
  BY FrameImplementsThread, ThreadPostsSucceed, PTL

\* The detector of the frame mode never falls asleep for good.
THEOREM FrameReadAlive == Spec => []ReadAlive
  BY FrameImplementsThread, ThreadReadAlive, PTL

-----------------------------------------------------------------------------
(* What the detector, the parser and the decoder leave each other.         *)

\* The positions and counters of a fifo with n slots belong together.
FifoAgrees(fifo, n) ==
    /\ fifo \in Fifos(n)
    /\ fifo.nUnReadNum <= fifo.nValidNum
    /\ fifo.nWritePos = Slot(fifo, fifo.nValidNum, n)
    /\ fifo.nReadPos = Slot(fifo, fifo.nValidNum - fifo.nUnReadNum, n)

FifosAgree ==
    /\ FifoAgrees(frameFifo, nMaxFrameNum)
    /\ FifoAgrees(mFramePicFifo, nMaxFramePicNum)

\* Slot i has been read from the fifo, as the only one, or none has been.
OnlyRead(fifo, i) == i = fifo.nFlushPos /\ fifo.nUnReadNum + 1 = fifo.nValidNum
NoneRead(fifo) == fifo.nUnReadNum = fifo.nValidNum

\* The picture the decoder has; none during the calls of the control thread.
HeldRead ==
    /\ IF held = NULL THEN NoneRead(mFramePicFifo)
                      ELSE OnlyRead(mFramePicFifo, held)
    /\ ctl # "idle" => held = NULL

\* The stream the detector has.
StreamRead ==
    /\ pStream # NULL <=> step \in {"check", "empty"}
    /\ pCurStream # NULL => pStream = NULL /\ OnlyRead(frameFifo, pCurStream)
    /\ pStream # NULL => OnlyRead(frameFifo, pStream)
    /\ pCurStream = NULL /\ pStream = NULL => NoneRead(frameFifo)

\* The picture the detector makes lies in the next slot to be written.
PicOpen ==
    /\ pCurFramePic # NULL => /\ pCurFramePic = mFramePicFifo.nWritePos
                              /\ mFramePicFifo.nValidNum < nMaxFramePicNum
    /\ step \in {"supply", "empty", "starved", "scan", "disposed"} =>
           pCurFramePic # NULL

\* What the detector has in hand at its points.
AtPoints ==
    /\ thr # "read" => step = "start"
    /\ step = "scan" => pCurStream # NULL /\ pCurStreamData # <<>>
    /\ step \in {"starved", "disposed"} => pCurStream = NULL
    /\ step = "empty" => pFrames[pStream].units = <<>>
    /\ pCurStream = NULL /\ thr # "reset" => pCurStreamData = <<>>

\* Until the type of the streams is known there is nothing to detect.
Starting == ctl \in {"start", "startSem", "startType"}

TypeUnknown ==
    /\ step = "check" => bStreamWithStartCode = -1
    /\ Starting => bStreamWithStartCode = 0
    /\ Starting => frameFifo.nValidNum = 0
    /\ bStreamWithStartCode = -1 /\ step \notin {"start", "check"} =>
           frameFifo.nValidNum = 0
    /\ bStreamWithStartCode = -1 \/ Starting =>
           /\ pCurStream = NULL /\ mFramePicFifo.nValidNum = 0
           /\ CurLength = 0 /\ bCurFrameStartCodeFound = 0
           /\ step \notin {"scan", "disposed"}

\* A picture has a start when it has bytes; the bytes too short to look at
\* go with such a picture.
CurPicKnown ==
    /\ pCurFramePic # NULL =>
           (pFramePics[pCurFramePic].pDataStartAddr = NULL <=> CurLength = 0)
    /\ step = "start" => pCurStreamData # <<"T">>
    /\ step = "supply" => /\ pCurStreamData \in {<<>>, <<"T">>}
                          /\ pCurStreamData # <<>> => CurLength > 0

\* The sizes and addresses of the streams.
StreamsFit ==
    /\ \A i \in StreamSlots : Len(pFrames[i].units) < nStreamBufferSize
    /\ \A k \in 0 .. frameFifo.nValidNum - 1 :
         pFrames[StreamSlot(k)].pData \in Addresses
    /\ pCurStream # NULL =>
         Len(pCurStreamData) <= Len(pFrames[pCurStream].units)

FrameInv ==
    /\ FifosAgree /\ HeldRead /\ StreamRead /\ PicOpen /\ AtPoints
    /\ TypeUnknown /\ CurPicKnown /\ StreamsFit /\ NoAbort

\* What lies in the ring fits into it.
Fits ==
    /\ nValidDataSize < nStreamBufferSize
    /\ pCurStream # NULL =>
           CurLength + Len(pCurStreamData) <= nValidDataSize
    /\ frameFifo.nValidNum > 0 => StreamLength(0) <= nValidDataSize
    /\ mFramePicFifo.nValidNum > 0 => PicLength(0) <= nValidDataSize

-----------------------------------------------------------------------------
(* The fifos. *)

\* The slots of a fifo as its positions see them.
LEMMA SlotFacts ==
    ASSUME NEW n \in Nat \ {0}, NEW f, FifoAgrees(f, n)
    PROVE  /\ \A k \in 0 .. n : Slot(f, k, n) \in 0 .. n - 1
           /\ \A j, k \in 0 .. n - 1 : Slot(f, j, n) = Slot(f, k, n) => j = k
           /\ \A k \in 0 .. n - 1 :
                NextPos(Slot(f, k, n), n) = Slot(f, k + 1, n)
           /\ \A k \in 1 .. n : PrevPos(Slot(f, k, n), n) = Slot(f, k - 1, n)
           /\ Slot(f, 0, n) = f.nFlushPos
<1>1. f.nFlushPos \in 0 .. n - 1
  BY DEF FifoAgrees, Fifos
<1> QED
  BY <1>1 DEF Slot, NextPos, PrevPos

\* One element more.
LEMMA FifoMore ==
    ASSUME NEW n \in Nat \ {0}, NEW f, FifoAgrees(f, n), f.nValidNum < n,
           NEW g, g = WithOneMore(f, n)
    PROVE  /\ FifoAgrees(g, n)
           /\ g.nValidNum = f.nValidNum + 1
           /\ g.nUnReadNum = f.nUnReadNum + 1
           /\ g.nFlushPos = f.nFlushPos
           /\ \A k : Slot(g, k, n) = Slot(f, k, n)
<1> USE DEF FifoAgrees, Fifos
<1>1. /\ g.nValidNum = f.nValidNum + 1 /\ g.nUnReadNum = f.nUnReadNum + 1
      /\ g.nFlushPos = f.nFlushPos /\ g.nReadPos = f.nReadPos
      /\ g.nWritePos = NextPos(f.nWritePos, n)
      /\ g = [nValidNum |-> g.nValidNum, nUnReadNum |-> g.nUnReadNum,
              nReadPos |-> g.nReadPos, nWritePos |-> g.nWritePos,
              nFlushPos |-> g.nFlushPos]
  BY DEF WithOneMore
<1>2. \A k : Slot(g, k, n) = Slot(f, k, n)
  BY <1>1 DEF Slot
<1>3. g.nWritePos = Slot(f, f.nValidNum + 1, n) /\ g.nWritePos \in 0 .. n - 1
  <2>1. PICK k \in 0 .. n - 1 : k = f.nValidNum
    OBVIOUS
  <2>2. f.nWritePos = Slot(f, k, n) /\ k + 1 \in 0 .. n
    BY <2>1
  <2>3. /\ NextPos(Slot(f, k, n), n) = Slot(f, k + 1, n)
        /\ Slot(f, k + 1, n) \in 0 .. n - 1
    BY <2>2, SlotFacts
  <2> QED
    BY <1>1, <2>1, <2>2, <2>3
<1>4. g \in Fifos(n)
  BY <1>1, <1>3
<1> QED
  BY <1>1, <1>2, <1>3, <1>4

\* One element read, or given back unread.
LEMMA FifoRead ==
    ASSUME NEW n \in Nat \ {0}, NEW f, FifoAgrees(f, n), f.nUnReadNum # 0,
           NEW g, g = WithOneRead(f, n)
    PROVE  /\ FifoAgrees(g, n)
           /\ g.nValidNum = f.nValidNum
           /\ g.nUnReadNum = f.nUnReadNum - 1
           /\ g.nFlushPos = f.nFlushPos
           /\ g.nWritePos = f.nWritePos
           /\ \A k : Slot(g, k, n) = Slot(f, k, n)
<1> USE DEF FifoAgrees, Fifos
<1>1. /\ g.nValidNum = f.nValidNum /\ g.nUnReadNum = f.nUnReadNum - 1
      /\ g.nFlushPos = f.nFlushPos /\ g.nWritePos = f.nWritePos
      /\ g.nReadPos = NextPos(f.nReadPos, n)
      /\ g = [nValidNum |-> g.nValidNum, nUnReadNum |-> g.nUnReadNum,
              nReadPos |-> g.nReadPos, nWritePos |-> g.nWritePos,
              nFlushPos |-> g.nFlushPos]
  BY DEF WithOneRead
<1>2. \A k : Slot(g, k, n) = Slot(f, k, n)
  BY <1>1 DEF Slot
<1>3. /\ g.nReadPos = Slot(f, g.nValidNum - g.nUnReadNum, n)
      /\ g.nReadPos \in 0 .. n - 1
  BY <1>1, SlotFacts, SMTT(30)
<1>4. g \in Fifos(n)
  BY <1>1, <1>3
<1> QED
  BY <1>1, <1>2, <1>3, <1>4

\* The element read last is the one before nReadPos.
LEMMA FifoReturned ==
    ASSUME NEW n \in Nat \ {0}, NEW f, FifoAgrees(f, n),
           f.nUnReadNum + 1 = f.nValidNum,
           NEW g, g = WithOneReturned(f, n)
    PROVE  /\ FifoAgrees(g, n)
           /\ PrevPos(f.nReadPos, n) = f.nFlushPos
           /\ g.nValidNum = f.nValidNum
           /\ g.nUnReadNum = f.nUnReadNum + 1
           /\ g.nFlushPos = f.nFlushPos
           /\ g.nWritePos = f.nWritePos
           /\ \A k : Slot(g, k, n) = Slot(f, k, n)
<1> USE DEF FifoAgrees, Fifos
<1>1. /\ g.nValidNum = f.nValidNum /\ g.nUnReadNum = f.nUnReadNum + 1
      /\ g.nFlushPos = f.nFlushPos /\ g.nWritePos = f.nWritePos
      /\ g.nReadPos = PrevPos(f.nReadPos, n)
      /\ g = [nValidNum |-> g.nValidNum, nUnReadNum |-> g.nUnReadNum,
              nReadPos |-> g.nReadPos, nWritePos |-> g.nWritePos,
              nFlushPos |-> g.nFlushPos]
  BY DEF WithOneReturned
<1>2. \A k : Slot(g, k, n) = Slot(f, k, n)
  BY <1>1 DEF Slot
<1>3. f.nReadPos = Slot(f, 1, n) /\ PrevPos(f.nReadPos, n) = f.nFlushPos
  BY SlotFacts
<1>4. g.nReadPos = Slot(f, g.nValidNum - g.nUnReadNum, n)
  BY <1>1, <1>3, SlotFacts
<1>5. g \in Fifos(n)
  BY <1>1, <1>3
<1> QED
  BY <1>1, <1>2, <1>3, <1>4, <1>5

\* The oldest element taken out.
LEMMA FifoFlushed ==
    ASSUME NEW n \in Nat \ {0}, NEW f, FifoAgrees(f, n),
           f.nUnReadNum < f.nValidNum,
           NEW g, g = WithOneFlushed(f, n)
    PROVE  /\ FifoAgrees(g, n)
           /\ g.nValidNum = f.nValidNum - 1
           /\ g.nUnReadNum = f.nUnReadNum
           /\ g.nWritePos = f.nWritePos
           /\ \A k \in 0 .. n - 1 : Slot(g, k, n) = Slot(f, k + 1, n)
<1> USE DEF FifoAgrees, Fifos
<1>1. /\ g.nValidNum = f.nValidNum - 1 /\ g.nUnReadNum = f.nUnReadNum
      /\ g.nReadPos = f.nReadPos /\ g.nWritePos = f.nWritePos
      /\ g.nFlushPos = NextPos(f.nFlushPos, n)
      /\ g = [nValidNum |-> g.nValidNum, nUnReadNum |-> g.nUnReadNum,
              nReadPos |-> g.nReadPos, nWritePos |-> g.nWritePos,
              nFlushPos |-> g.nFlushPos]
  BY DEF WithOneFlushed
<1>2. g.nFlushPos \in 0 .. n - 1
  BY <1>1 DEF NextPos
<1>3. \A k \in 0 .. n - 1 : Slot(g, k, n) = Slot(f, k + 1, n)
  BY <1>1 DEF Slot, NextPos
<1>4. g \in Fifos(n)
  BY <1>1, <1>2
<1>5. g.nWritePos = Slot(g, g.nValidNum, n)
  BY <1>1, <1>3
<1>6. g.nReadPos = Slot(g, g.nValidNum - g.nUnReadNum, n)
  BY <1>1, <1>3
<1> QED
  BY <1>1, <1>3, <1>4, <1>5, <1>6

\* An empty fifo.
LEMMA FifoEmpty ==
    ASSUME NEW n \in Nat \ {0}
    PROVE  FifoAgrees(EmptyFifo, n) /\ NoneRead(EmptyFifo)
<1>1. EmptyFifo \in Fifos(n)
  BY DEF EmptyFifo, Fifos
<1> QED
  BY <1>1 DEF FifoAgrees, NoneRead, Slot, EmptyFifo

\* The fifo of the streams,
LEMMA StreamFifo ==
    ASSUME FrameInv
    PROVE  /\ FifoAgrees(frameFifo, nMaxFrameNum)
           /\ frameFifo.nValidNum \in Nat
           /\ frameFifo.nValidNum <= nMaxFrameNum
           /\ frameFifo.nUnReadNum \in Nat
           /\ frameFifo.nUnReadNum <= frameFifo.nValidNum
           /\ frameFifo.nReadPos =
                  StreamSlot(frameFifo.nValidNum - frameFifo.nUnReadNum)
           /\ frameFifo.nWritePos = StreamSlot(frameFifo.nValidNum)
           /\ frameFifo.nFlushPos = StreamSlot(0)
           /\ \A k \in 0 .. nMaxFrameNum : StreamSlot(k) \in StreamSlots
           /\ \A j, k \in 0 .. nMaxFrameNum - 1 :
                StreamSlot(j) = StreamSlot(k) => j = k
<1>1. FifoAgrees(frameFifo, nMaxFrameNum)
  BY DEF FrameInv, FifosAgree
<1>2. /\ \A k \in 0 .. nMaxFrameNum :
           Slot(frameFifo, k, nMaxFrameNum) \in 0 .. nMaxFrameNum - 1
      /\ \A j, k \in 0 .. nMaxFrameNum - 1 :
           Slot(frameFifo, j, nMaxFrameNum) = Slot(frameFifo, k, nMaxFrameNum)
               => j = k
      /\ Slot(frameFifo, 0, nMaxFrameNum) = frameFifo.nFlushPos
  BY <1>1, FrameAssumption, SlotFacts
<1> QED
  BY <1>1, <1>2, FrameAssumption DEF FifoAgrees, Fifos, StreamSlot,
     StreamSlots

\* and of the pictures.
LEMMA PicFifo ==
    ASSUME FrameInv
    PROVE  /\ FifoAgrees(mFramePicFifo, nMaxFramePicNum)
           /\ mFramePicFifo.nValidNum \in Nat
           /\ mFramePicFifo.nValidNum <= nMaxFramePicNum
           /\ mFramePicFifo.nUnReadNum \in Nat
           /\ mFramePicFifo.nUnReadNum <= mFramePicFifo.nValidNum
           /\ mFramePicFifo.nReadPos =
                  PicSlot(mFramePicFifo.nValidNum - mFramePicFifo.nUnReadNum)
           /\ mFramePicFifo.nWritePos = PicSlot(mFramePicFifo.nValidNum)
           /\ mFramePicFifo.nFlushPos = PicSlot(0)
           /\ \A k \in 0 .. nMaxFramePicNum : PicSlot(k) \in PicSlots
           /\ \A j, k \in 0 .. nMaxFramePicNum - 1 :
                PicSlot(j) = PicSlot(k) => j = k
<1>1. FifoAgrees(mFramePicFifo, nMaxFramePicNum)
  BY DEF FrameInv, FifosAgree
<1>2. /\ \A k \in 0 .. nMaxFramePicNum :
           Slot(mFramePicFifo, k, nMaxFramePicNum) \in 0 .. nMaxFramePicNum - 1
      /\ \A j, k \in 0 .. nMaxFramePicNum - 1 :
           Slot(mFramePicFifo, j, nMaxFramePicNum)
               = Slot(mFramePicFifo, k, nMaxFramePicNum) => j = k
      /\ Slot(mFramePicFifo, 0, nMaxFramePicNum) = mFramePicFifo.nFlushPos
  BY <1>1, FrameAssumption, SlotFacts
<1> QED
  BY <1>1, <1>2, FrameAssumption DEF FifoAgrees, Fifos, PicSlot, PicSlots

-----------------------------------------------------------------------------
(* What a step leaves alone stays as it is. *)

\* The streams and the detector's place in them,
LEMMA SameStreams ==
    ASSUME FrameInv,
           UNCHANGED <<streams, pCurStream, pCurStreamData, pStream, step,
                       thr>>
    PROVE  /\ FifoAgrees(frameFifo', nMaxFrameNum)
           /\ StreamRead' /\ AtPoints' /\ StreamsFit'
<1>1. UNCHANGED <<frameFifo, pFrames>>
  BY DEF streams
<1>2. \A k : StreamSlot(k)' = StreamSlot(k)
  BY <1>1 DEF StreamSlot
<1> QED
  BY <1>1, <1>2 DEF FrameInv, FifosAgree, StreamRead, OnlyRead, NoneRead,
     AtPoints, StreamsFit

\* the picture being made,
LEMMA SameCurPic ==
    ASSUME FrameInv, UNCHANGED <<pCurFramePic, pCurStreamData, step>>,
           pCurFramePic # NULL =>
               pFramePics'[pCurFramePic] = pFramePics[pCurFramePic]
    PROVE  CurLength' = CurLength /\ CurPicKnown'
<1>1. CurLength' = CurLength
  BY DEF CurLength
<1> QED
  BY <1>1 DEF FrameInv, CurPicKnown

\* and the fifo of the pictures.
LEMMA SamePics ==
    ASSUME FrameInv, UNCHANGED <<mFramePicFifo, held, pCurFramePic, ctl>>,
           pCurFramePic # NULL \/ step' \in {"start", "check"}
    PROVE  /\ FifoAgrees(mFramePicFifo', nMaxFramePicNum)
           /\ HeldRead' /\ PicOpen'
BY DEF FrameInv, FifosAgree, HeldRead, OnlyRead, NoneRead, PicOpen

\* Before the type of the streams is known nothing begins but the check.
LEMMA SameType ==
    ASSUME FrameInv,
           UNCHANGED <<frameFifo, bStreamWithStartCode, ctl, pCurStream,
                       bCurFrameStartCodeFound>>,
           mFramePicFifo'.nValidNum <= mFramePicFifo.nValidNum,
           mFramePicFifo'.nValidNum \in Nat,
           CurLength' = CurLength, step' = step
    PROVE  TypeUnknown'
BY DEF FrameInv, TypeUnknown, Starting

-----------------------------------------------------------------------------
(* The parser and the decoder. *)

\* SbmFrameAddStream writes the slot behind the valid ones.
LEMMA AddStreamKeeps ==
    ASSUME TypeOK, FrameInv, Fits, NEW c \in Contents, SbmFrameAddStream(c)
    PROVE  /\ TypeOK' /\ FrameInv'
           /\ frameFifo.nValidNum < nMaxFrameNum
           /\ frameFifo'.nValidNum = frameFifo.nValidNum + 1
           /\ \A k : StreamSlot(k)' = StreamSlot(k)
           /\ \A i \in StreamSlots :
                pFrames'[i] = IF i = StreamSlot(frameFifo.nValidNum)
                              THEN [pData |-> pWriteAddr, units |-> c]
                              ELSE pFrames[i]
           /\ Len(c) \in Nat
           /\ Len(c) + Margin <= nStreamBufferSize - nValidDataSize
<1> USE FrameAssumption
<1> DEFINE w == frameFifo.nWritePos
<1>1. /\ FifoAgrees(frameFifo', nMaxFrameNum)
      /\ frameFifo'.nValidNum = frameFifo.nValidNum + 1
      /\ frameFifo'.nUnReadNum = frameFifo.nUnReadNum + 1
      /\ frameFifo'.nFlushPos = frameFifo.nFlushPos
      /\ \A k : StreamSlot(k)' = StreamSlot(k)
  BY FifoMore DEF FrameInv, FifosAgree, StreamSlot, SbmFrameAddStream
<1>2. /\ w \in StreamSlots
      /\ frameFifo.nValidNum < nMaxFrameNum
      /\ \A k \in 0 .. frameFifo.nValidNum - 1 : StreamSlot(k) # w
      /\ frameFifo.nValidNum > 0 => frameFifo.nFlushPos # w
  BY StreamFifo DEF SbmFrameAddStream
<1>3. /\ c \in Seq(Units) /\ Len(c) \in Nat
      /\ Len(c) + Margin <= nStreamBufferSize - nValidDataSize
      /\ nValidDataSize \in Nat
  BY DEF TypeOK, SbmFrameAddStream
<1>4. \A i \in StreamSlots :
         pFrames'[i] = IF i = w THEN [pData |-> pWriteAddr, units |-> c]
                                ELSE pFrames[i]
  BY <1>2 DEF TypeOK, SbmFrameAddStream
<1>5. TypeOK'
  <2>1. WrapAddr(pWriteAddr + Len(c)) \in Addresses
    BY <1>3 DEF TypeOK, WrapAddr, Addresses
  <2>2. pFrames' \in [StreamSlots -> [pData : Addresses \cup {NULL},
                                      units : Seq(Units)]]
    BY <1>2, <1>3 DEF TypeOK, SbmFrameAddStream
  <2>3. nValidDataSize' \in 0 .. nStreamBufferSize
    BY <1>3 DEF SbmFrameAddStream
  <2> QED
    BY <1>1, <2>1, <2>2, <2>3 DEF TypeOK, ThreadTypeOK, FifoAgrees,
       SbmFrameAddStream, threadVars, mqVars, pictures, detect, player
<1>6. FifosAgree' /\ NoAbort'
  BY <1>1 DEF FrameInv, FifosAgree, NoAbort, SbmFrameAddStream, pictures
<1>7. HeldRead'
  BY DEF FrameInv, HeldRead, OnlyRead, NoneRead, SbmFrameAddStream, pictures,
     player, threadVars
<1>8. StreamRead'
  BY <1>1, StreamFifo DEF FrameInv, StreamRead, OnlyRead, NoneRead,
     SbmFrameAddStream, detect
<1>9. CurLength' = CurLength
  BY DEF CurLength, SbmFrameAddStream, pictures, detect
<1>10. PicOpen'
  BY DEF FrameInv, PicOpen, SbmFrameAddStream, pictures, detect
<1>11. AtPoints'
  <2>1. pStream # NULL => pStream # w /\ pStream \in StreamSlots
    BY <1>2, StreamFifo, SMTT(30) DEF FrameInv, StreamRead, OnlyRead, TypeOK
  <2> QED
    BY <1>4, <2>1 DEF FrameInv, AtPoints, StreamRead, SbmFrameAddStream,
       detect, threadVars
<1>12. TypeUnknown'
  BY <1>9 DEF FrameInv, TypeUnknown, Starting, Settled, SbmFrameAddStream,
     threadVars, detect, pictures
<1>13. CurPicKnown'
  BY <1>9 DEF FrameInv, CurPicKnown, SbmFrameAddStream, pictures, detect
<1>14. StreamsFit'
  <2>1. \A i \in StreamSlots : Len(pFrames'[i].units) < nStreamBufferSize
    BY <1>3, <1>4 DEF FrameInv, StreamsFit
  <2>2. ASSUME NEW k \in 0 .. frameFifo.nValidNum
        PROVE  pFrames'[StreamSlot(k)].pData \in Addresses
    <3>1. StreamSlot(k) \in StreamSlots
      BY StreamFifo
    <3>2. CASE k = frameFifo.nValidNum
      BY <1>2, <1>4, <3>2, StreamFifo DEF TypeOK
    <3>3. CASE k # frameFifo.nValidNum
      <4>1. k \in 0 .. frameFifo.nValidNum - 1
        BY <3>3, StreamFifo
      <4>2. StreamSlot(k) # w /\ pFrames[StreamSlot(k)].pData \in Addresses
        BY <1>2, <4>1 DEF FrameInv, StreamsFit
      <4> QED
        BY <1>4, <3>1, <4>2
    <3> QED
      BY <3>2, <3>3
  <2>3. pCurStream # NULL => pCurStream # w /\ pCurStream \in StreamSlots
    BY <1>2, StreamFifo DEF FrameInv, StreamRead, OnlyRead, TypeOK
  <2>4. UNCHANGED <<pCurStream, pCurStreamData>>
    BY DEF SbmFrameAddStream, detect
  <2>5. pCurStream # NULL =>
           Len(pCurStreamData) <= Len(pFrames'[pCurStream].units)
    BY <1>4, <2>3 DEF FrameInv, StreamsFit
  <2> QED
    BY <1>1, <2>1, <2>2, <2>4, <2>5, StreamFifo DEF StreamsFit
<1>15. TypeOK' /\ FrameInv'
  BY <1>5, <1>6, <1>7, <1>8, <1>10, <1>11, <1>12, <1>13, <1>14 DEF FrameInv
<1>16. w = StreamSlot(frameFifo.nValidNum)
  BY StreamFifo
<1> QED
  BY <1>1, <1>2, <1>3, <1>4, <1>15, <1>16

\* DecodeVideoStream signals the end of the stream.
LEMMA SetEosKeeps ==
    ASSUME TypeOK, FrameInv, SbmFrameSetEos
    PROVE  TypeOK' /\ FrameInv'
<1> USE DEF SbmFrameSetEos, threadVars, mqVars, ring, streams, pictures, detect
<1>1. TypeOK'
  BY DEF TypeOK, ThreadTypeOK
<1>2. /\ FifoAgrees(frameFifo', nMaxFrameNum)
      /\ StreamRead' /\ AtPoints' /\ StreamsFit'
  BY SameStreams
<1>3. CurLength' = CurLength /\ CurPicKnown'
  BY SameCurPic
<1>4. FifoAgrees(mFramePicFifo', nMaxFramePicNum) /\ HeldRead' /\ PicOpen'
  BY SamePics DEF FrameInv, PicOpen, TypeOK
<1>5. TypeUnknown'
  BY <1>3, SameType, PicFifo
<1> QED
  BY <1>1, <1>2, <1>3, <1>4, <1>5 DEF FrameInv, FifosAgree, NoAbort

\* The decoder takes the oldest picture it has not read.
LEMMA RequestPicKeeps ==
    ASSUME TypeOK, FrameInv, SbmFrameRequestFramePic
    PROVE  /\ TypeOK' /\ FrameInv'
           /\ mFramePicFifo'.nValidNum = mFramePicFifo.nValidNum
           /\ \A k : PicSlot(k)' = PicSlot(k)
<1> USE FrameAssumption DEF SbmFrameRequestFramePic, threadVars, mqVars, ring,
        streams, detect
<1>1. /\ FifoAgrees(mFramePicFifo', nMaxFramePicNum)
      /\ mFramePicFifo'.nValidNum = mFramePicFifo.nValidNum
      /\ mFramePicFifo'.nUnReadNum = mFramePicFifo.nUnReadNum - 1
      /\ mFramePicFifo'.nFlushPos = mFramePicFifo.nFlushPos
      /\ mFramePicFifo'.nWritePos = mFramePicFifo.nWritePos
      /\ \A k : PicSlot(k)' = PicSlot(k)
  BY FifoRead, FrameAssumption DEF FrameInv, FifosAgree, PicSlot
<1>2. NoneRead(mFramePicFifo) /\ held' = mFramePicFifo.nFlushPos
  BY PicFifo DEF FrameInv, HeldRead, NoneRead
<1>3. held' \in PicSlots
  BY <1>2, PicFifo, FrameAssumption
<1>4. TypeOK'
  BY <1>1, <1>3 DEF TypeOK, ThreadTypeOK, FifoAgrees
<1>5. /\ FifoAgrees(frameFifo', nMaxFrameNum)
      /\ StreamRead' /\ AtPoints' /\ StreamsFit'
  BY SameStreams
<1>6. CurLength' = CurLength /\ CurPicKnown'
  BY SameCurPic
<1>7. HeldRead'
  <2>1. held' # NULL
    BY <1>3 DEF PicSlots, NULL
  <2>2. OnlyRead(mFramePicFifo', held')
    BY <1>1, <1>2, PicFifo DEF OnlyRead, NoneRead
  <2> QED
    BY <2>1, <2>2 DEF HeldRead
<1>8. PicOpen'
  BY <1>1 DEF FrameInv, PicOpen
<1>9. TypeUnknown'
  <2>1. /\ mFramePicFifo'.nValidNum <= mFramePicFifo.nValidNum
        /\ mFramePicFifo'.nValidNum \in Nat
    BY <1>1, PicFifo
  <2> QED
    BY <1>6, <2>1, SameType
<1> QED
  BY <1>1, <1>4, <1>5, <1>6, <1>7, <1>8, <1>9 DEF FrameInv, FifosAgree,
     NoAbort

\* It puts its picture back: the one before nReadPos.
LEMMA ReturnPicKeeps ==
    ASSUME TypeOK, FrameInv, SbmFrameReturnFramePic
    PROVE  /\ TypeOK' /\ FrameInv'
           /\ mFramePicFifo'.nValidNum = mFramePicFifo.nValidNum
           /\ \A k : PicSlot(k)' = PicSlot(k)
<1> USE FrameAssumption DEF threadVars, mqVars, ring, streams, detect
<1>1. OnlyRead(mFramePicFifo, held)
  BY DEF FrameInv, HeldRead, SbmFrameReturnFramePic
<1>2. /\ FifoAgrees(WithOneReturned(mFramePicFifo, nMaxFramePicNum),
                    nMaxFramePicNum)
      /\ PrevPos(mFramePicFifo.nReadPos, nMaxFramePicNum)
             = mFramePicFifo.nFlushPos
  BY <1>1, FifoReturned, FrameAssumption DEF FrameInv, FifosAgree, OnlyRead
<1>3. /\ mFramePicFifo' = WithOneReturned(mFramePicFifo, nMaxFramePicNum)
      /\ aborted' = aborted
  BY <1>1, <1>2, PicFifo DEF OnlyRead, SbmFrameReturnFramePic
<1> USE DEF SbmFrameReturnFramePic
<1>4. /\ FifoAgrees(mFramePicFifo', nMaxFramePicNum)
      /\ mFramePicFifo'.nValidNum = mFramePicFifo.nValidNum
      /\ mFramePicFifo'.nUnReadNum = mFramePicFifo.nUnReadNum + 1
      /\ mFramePicFifo'.nFlushPos = mFramePicFifo.nFlushPos
      /\ mFramePicFifo'.nWritePos = mFramePicFifo.nWritePos
      /\ \A k : PicSlot(k)' = PicSlot(k)
  BY <1>1, <1>3, FifoReturned, FrameAssumption DEF FrameInv, FifosAgree,
     PicSlot, OnlyRead
<1>5. TypeOK'
  BY <1>3, <1>4 DEF TypeOK, ThreadTypeOK, FifoAgrees
<1>6. /\ FifoAgrees(frameFifo', nMaxFrameNum)
      /\ StreamRead' /\ AtPoints' /\ StreamsFit'
  BY SameStreams
<1>7. CurLength' = CurLength /\ CurPicKnown'
  BY SameCurPic
<1>8. HeldRead'
  BY <1>1, <1>4, PicFifo DEF HeldRead, OnlyRead, NoneRead
<1>9. PicOpen'
  BY <1>4 DEF FrameInv, PicOpen
<1>10. TypeUnknown'
  BY <1>4, <1>7, SameType, PicFifo
<1> QED
  BY <1>3, <1>4, <1>5, <1>6, <1>7, <1>8, <1>9, <1>10 DEF FrameInv,
     FifosAgree, NoAbort

\* Or gives it back for good: the oldest one.
LEMMA FlushPicKeeps ==
    ASSUME TypeOK, FrameInv, Fits, SbmFrameFlushFramePic
    PROVE  /\ TypeOK' /\ FrameInv'
           /\ mFramePicFifo.nValidNum > 0
           /\ mFramePicFifo'.nValidNum = mFramePicFifo.nValidNum - 1
           /\ nValidDataSize' = nValidDataSize - PicLength(0)
           /\ CurLength' = CurLength
           /\ \A k \in 0 .. nMaxFramePicNum - 1 :
                PicSlot(k)' = PicSlot(k + 1)
           /\ \A i \in PicSlots :
                pFramePics'[i] = IF i = PicSlot(0) THEN NoPic
                                 ELSE pFramePics[i]
<1> USE FrameAssumption DEF threadVars, mqVars, ring, streams, detect
<1>1. OnlyRead(mFramePicFifo, held) /\ held = PicSlot(0)
  BY PicFifo DEF FrameInv, HeldRead, SbmFrameFlushFramePic, OnlyRead
<1>2. /\ mFramePicFifo.nValidNum > 0
      /\ held \in PicSlots
      /\ mFramePicFifo' = WithOneFlushed(mFramePicFifo, nMaxFramePicNum)
      /\ nValidDataSize' = nValidDataSize - PicLength(0)
      /\ pFramePics' = [pFramePics EXCEPT ![held] = NoPic]
      /\ aborted' = aborted
  BY <1>1, PicFifo, FrameAssumption DEF OnlyRead, SbmFrameFlushFramePic,
     PicLength
<1> USE DEF SbmFrameFlushFramePic
<1>3. /\ FifoAgrees(mFramePicFifo', nMaxFramePicNum)
      /\ mFramePicFifo'.nValidNum = mFramePicFifo.nValidNum - 1
      /\ mFramePicFifo'.nUnReadNum = mFramePicFifo.nUnReadNum
      /\ mFramePicFifo'.nWritePos = mFramePicFifo.nWritePos
      /\ \A k \in 0 .. nMaxFramePicNum - 1 : PicSlot(k)' = PicSlot(k + 1)
  BY <1>1, <1>2, FifoFlushed, PicFifo, FrameAssumption DEF PicSlot, OnlyRead
<1>4. \A i \in PicSlots : pFramePics'[i] = IF i = PicSlot(0) THEN NoPic
                                           ELSE pFramePics[i]
  BY <1>1, <1>2 DEF TypeOK
<1>5. TypeOK'
  <2>1. nValidDataSize' \in 0 .. nStreamBufferSize
    <3>1. PicLength(0) \in Nat /\ PicLength(0) <= nValidDataSize
      <4>1. pFramePics[held].nlength \in Nat
        BY <1>2 DEF TypeOK
      <4> QED
        BY <1>1, <1>2, <4>1 DEF PicLength, Fits
    <3> QED
      BY <1>2, <3>1 DEF TypeOK
  <2>2. pFramePics' \in [PicSlots -> [pDataStartAddr : Addresses \cup {NULL},
                                      nlength : 0 .. nStreamBufferSize,
                                      nalus : Seq(Nalu), bValidFlag : 0 .. 1]]
    <3>1. NoPic \in [pDataStartAddr : Addresses \cup {NULL},
                     nlength : 0 .. nStreamBufferSize,
                     nalus : Seq(Nalu), bValidFlag : 0 .. 1]
      BY FrameAssumption DEF NoPic
    <3> QED
      BY <1>2, <3>1 DEF TypeOK
  <2> QED
    BY <1>2, <1>3, <2>1, <2>2 DEF TypeOK, ThreadTypeOK, FifoAgrees
<1>6. /\ FifoAgrees(frameFifo', nMaxFrameNum)
      /\ StreamRead' /\ AtPoints' /\ StreamsFit'
  BY SameStreams
<1>7. CurLength' = CurLength /\ CurPicKnown'
  <2>1. pCurFramePic # NULL => pCurFramePic # held /\ pCurFramePic \in PicSlots
    BY <1>1, <1>2, PicFifo DEF FrameInv, PicOpen, TypeOK
  <2>2. pCurFramePic # NULL =>
           pFramePics'[pCurFramePic] = pFramePics[pCurFramePic]
    BY <1>1, <1>4, <2>1
  <2>3. UNCHANGED <<pCurFramePic, pCurStreamData, step>>
    OBVIOUS
  <2> QED
    BY <2>2, <2>3, SameCurPic
<1>8. HeldRead'
  BY <1>1, <1>3, PicFifo DEF HeldRead, OnlyRead, NoneRead
<1>9. PicOpen'
  BY <1>3, PicFifo DEF FrameInv, PicOpen
<1>10. TypeUnknown'
  <2>1. /\ mFramePicFifo'.nValidNum \in Nat
        /\ mFramePicFifo'.nValidNum <= mFramePicFifo.nValidNum
    BY <1>2, <1>3, PicFifo
  <2>2. UNCHANGED <<frameFifo, bStreamWithStartCode, ctl, pCurStream,
                    bCurFrameStartCodeFound, step>>
    OBVIOUS
  <2> QED
    BY <1>7, <2>1, <2>2, SameType
<1> QED
  BY <1>2, <1>3, <1>4, <1>5, <1>6, <1>7, <1>8, <1>9, <1>10 DEF FrameInv,
     FifosAgree, NoAbort

-----------------------------------------------------------------------------
(* What the detector calls under the mutex. *)

\* flushStream of the stream the detector has: the oldest one.
LEMMA FlushStreamFacts ==
    ASSUME TypeOK, FrameInv, NEW s \in StreamSlots, OnlyRead(frameFifo, s),
           NEW b \in BOOLEAN, FlushStream(s, b)
    PROVE  /\ s = StreamSlot(0) /\ frameFifo.nValidNum > 0
           /\ FifoAgrees(frameFifo', nMaxFrameNum) /\ NoneRead(frameFifo')
           /\ frameFifo'.nValidNum = frameFifo.nValidNum - 1
           /\ \A k \in 0 .. nMaxFrameNum - 1 :
                StreamSlot(k)' = StreamSlot(k + 1)
           /\ pFrames' \in [StreamSlots -> [pData : Addresses \cup {NULL},
                                            units : Seq(Units)]]
           /\ \A i \in StreamSlots :
                pFrames'[i] = IF i = s THEN NoStream ELSE pFrames[i]
           /\ nValidDataSize' = IF b
                                THEN nValidDataSize - Len(pFrames[s].units)
                                ELSE nValidDataSize
           /\ aborted' = aborted
<1> USE FrameAssumption
<1>1. s = StreamSlot(0) /\ frameFifo.nValidNum > 0 /\ s = frameFifo.nFlushPos
  BY StreamFifo DEF OnlyRead
<1>2. /\ frameFifo' = WithOneFlushed(frameFifo, nMaxFrameNum)
      /\ nValidDataSize' = IF b THEN nValidDataSize - Len(pFrames[s].units)
                           ELSE nValidDataSize
      /\ pFrames' = [pFrames EXCEPT ![s] = NoStream]
      /\ aborted' = aborted
  BY <1>1 DEF FlushStream
<1>3. /\ FifoAgrees(frameFifo', nMaxFrameNum)
      /\ frameFifo'.nValidNum = frameFifo.nValidNum - 1
      /\ frameFifo'.nUnReadNum = frameFifo.nUnReadNum
      /\ \A k \in 0 .. nMaxFrameNum - 1 : StreamSlot(k)' = StreamSlot(k + 1)
  <2>1. frameFifo.nUnReadNum < frameFifo.nValidNum
    BY StreamFifo DEF OnlyRead
  <2> QED
    BY <1>2, <2>1, FifoFlushed, StreamFifo DEF StreamSlot
<1>4. NoneRead(frameFifo')
  BY <1>3, StreamFifo DEF NoneRead, OnlyRead
<1>5. /\ pFrames' \in [StreamSlots -> [pData : Addresses \cup {NULL},
                                       units : Seq(Units)]]
      /\ \A i \in StreamSlots :
           pFrames'[i] = IF i = s THEN NoStream ELSE pFrames[i]
  <2>1. NoStream \in [pData : Addresses \cup {NULL}, units : Seq(Units)]
    BY DEF NoStream
  <2> QED
    BY <1>2, <2>1 DEF TypeOK
<1> QED
  BY <1>1, <1>2, <1>3, <1>4, <1>5

\* The streams behind it keep their sizes and addresses.
LEMMA FlushStreamFits ==
    ASSUME TypeOK, FrameInv, NEW s \in StreamSlots, OnlyRead(frameFifo, s),
           NEW b \in BOOLEAN, FlushStream(s, b), pCurStream' = NULL
    PROVE  StreamsFit'
<1> USE FrameAssumption
<1>1. /\ s = StreamSlot(0) /\ frameFifo.nValidNum > 0
      /\ frameFifo'.nValidNum = frameFifo.nValidNum - 1
      /\ \A k \in 0 .. nMaxFrameNum - 1 : StreamSlot(k)' = StreamSlot(k + 1)
      /\ \A i \in StreamSlots :
           pFrames'[i] = IF i = s THEN NoStream ELSE pFrames[i]
  BY FlushStreamFacts
<1>2. \A i \in StreamSlots : Len(pFrames'[i].units) < nStreamBufferSize
  BY <1>1 DEF FrameInv, StreamsFit, NoStream
<1> PICK v \in Nat : v = frameFifo.nValidNum
  BY StreamFifo
<1>3. ASSUME NEW k \in 0 .. v - 2
      PROVE  pFrames'[StreamSlot(k)'].pData \in Addresses
  <2>1. /\ StreamSlot(k)' = StreamSlot(k + 1)
        /\ StreamSlot(k + 1) # s /\ StreamSlot(k + 1) \in StreamSlots
    BY <1>1, StreamFifo
  <2>2. pFrames[StreamSlot(k + 1)].pData \in Addresses
    BY DEF FrameInv, StreamsFit
  <2> QED
    BY <1>1, <2>1, <2>2
<1> QED
  BY <1>1, <1>2, <1>3 DEF StreamsFit

\* addFramePic of the picture the detector makes: it is the next to be
\* written and there is room for it.
LEMMA AddPicFacts ==
    ASSUME TypeOK, FrameInv, pCurFramePic # NULL, AddFramePic
    PROVE  /\ FifoAgrees(mFramePicFifo', nMaxFramePicNum)
           /\ mFramePicFifo.nValidNum < nMaxFramePicNum
           /\ mFramePicFifo'.nValidNum = mFramePicFifo.nValidNum + 1
           /\ mFramePicFifo'.nUnReadNum = mFramePicFifo.nUnReadNum + 1
           /\ mFramePicFifo'.nFlushPos = mFramePicFifo.nFlushPos
           /\ \A k : PicSlot(k)' = PicSlot(k)
           /\ pCurFramePic = PicSlot(mFramePicFifo.nValidNum)
           /\ pCurFramePic' = NULL /\ CurLength' = 0
           /\ aborted' = aborted
<1> USE FrameAssumption
<1>1. /\ pCurFramePic = mFramePicFifo.nWritePos
      /\ mFramePicFifo.nValidNum < nMaxFramePicNum
  BY DEF FrameInv, PicOpen
<1>2. /\ mFramePicFifo' = WithOneMore(mFramePicFifo, nMaxFramePicNum)
      /\ aborted' = aborted /\ pCurFramePic' = NULL
  BY <1>1, PicFifo DEF AddFramePic
<1> QED
  BY <1>1, <1>2, FifoMore, PicFifo DEF PicSlot, CurLength

\* The decoder's picture stays the oldest one.
LEMMA AddPicHeld ==
    ASSUME TypeOK, FrameInv, pCurFramePic # NULL, AddFramePic,
           UNCHANGED <<held, ctl>>, step' = "start"
    PROVE  HeldRead' /\ PicOpen'
BY AddPicFacts, PicFifo DEF FrameInv, HeldRead, OnlyRead, NoneRead, PicOpen

-----------------------------------------------------------------------------
(* The check of the type. *)

\* A stream is taken to find out about its type.
LEMMA CheckRequestKeeps ==
    ASSUME TypeOK, FrameInv, CheckRequest
    PROVE  /\ TypeOK' /\ FrameInv'
           /\ frameFifo'.nValidNum = frameFifo.nValidNum
           /\ \A k : StreamSlot(k)' = StreamSlot(k)
<1> USE FrameAssumption DEF CheckRequest, At, Return, ReadDone, GoTo, ring,
        pictures, detect, player, threadVars, mqVars
<1>1. /\ pStream = NULL /\ pCurStream = NULL /\ NoneRead(frameFifo)
      /\ pCurStreamData = <<>>
  BY DEF FrameInv, StreamRead, TypeUnknown, AtPoints
<1>2. CASE frameFifo.nUnReadNum = 0
  <2>1. UNCHANGED <<frameFifo, pStream, pFrames>>
    BY <1>2
  <2>2. \A k : StreamSlot(k)' = StreamSlot(k)
    BY <2>1 DEF StreamSlot
  <2>3. TypeOK'
    BY <1>2 DEF TypeOK, ThreadTypeOK
  <2>4. CurLength' = CurLength /\ CurPicKnown'
    BY <1>2, SameCurPic
  <2>5. FifosAgree' /\ HeldRead' /\ PicOpen'
    BY <1>2 DEF FrameInv, FifosAgree, HeldRead, OnlyRead, NoneRead, PicOpen
  <2>6. StreamRead' /\ AtPoints' /\ StreamsFit'
    BY <1>1, <1>2, <2>2 DEF FrameInv, StreamRead, AtPoints, StreamsFit,
       NoneRead
  <2>7. TypeUnknown'
    BY <1>2, <2>4 DEF FrameInv, TypeUnknown, Starting
  <2> QED
    BY <2>1, <2>2, <2>3, <2>4, <2>5, <2>6, <2>7 DEF FrameInv, NoAbort
<1>3. CASE frameFifo.nUnReadNum # 0
  <2>1. /\ FifoAgrees(frameFifo', nMaxFrameNum)
        /\ frameFifo'.nValidNum = frameFifo.nValidNum
        /\ frameFifo'.nUnReadNum = frameFifo.nUnReadNum - 1
        /\ frameFifo'.nFlushPos = frameFifo.nFlushPos
        /\ \A k : StreamSlot(k)' = StreamSlot(k)
    BY <1>3, FifoRead, StreamFifo DEF StreamSlot
  <2>2. pStream' = StreamSlot(0) /\ pStream' \in StreamSlots
    BY <1>1, <1>3, StreamFifo DEF NoneRead
  <2>3. TypeOK'
    BY <1>3, <2>1, <2>2 DEF TypeOK, ThreadTypeOK, FifoAgrees
  <2>4. CurLength' = CurLength
    BY <1>3 DEF CurLength
  <2>5. CurPicKnown'
    BY <1>3, <2>4 DEF FrameInv, CurPicKnown
  <2>6. FifosAgree' /\ HeldRead' /\ PicOpen'
    BY <1>3, <2>1 DEF FrameInv, FifosAgree, HeldRead, OnlyRead, NoneRead,
       PicOpen
  <2>7. StreamRead'
    <3>1. OnlyRead(frameFifo', pStream')
      BY <1>1, <2>1, <2>2, StreamFifo DEF OnlyRead, NoneRead
    <3>2. pStream' # NULL /\ step' = "check" /\ pCurStream' = NULL
      BY <1>1, <1>3, <2>2 DEF StreamSlots, NULL
    <3> QED
      BY <3>1, <3>2 DEF StreamRead
  <2>8. AtPoints'
    BY <1>1, <1>3 DEF AtPoints
  <2>9. StreamsFit'
    BY <1>1, <2>1 DEF FrameInv, StreamsFit
  <2>10. TypeUnknown'
    BY <1>3, <2>1, <2>4 DEF FrameInv, TypeUnknown, Starting
  <2> QED
    BY <2>1, <2>3, <2>4, <2>5, <2>6, <2>7, <2>8, <2>9, <2>10 DEF FrameInv,
       NoAbort
<1> QED
  BY <1>2, <1>3

\* It does not show its type: it is thrown away.
LEMMA CheckUnknownKeeps ==
    ASSUME TypeOK, FrameInv, Fits, CheckUnknown
    PROVE  TypeOK' /\ FrameInv'
<1> USE FrameAssumption DEF CheckUnknown, At, pictures, detect, player,
        threadVars, mqVars
<1>1. /\ pStream # NULL /\ pStream \in StreamSlots
      /\ OnlyRead(frameFifo, pStream)
      /\ pCurStream = NULL /\ pCurStreamData = <<>>
      /\ bStreamWithStartCode = -1 /\ ~Starting
  BY DEF FrameInv, StreamRead, TypeOK, TypeUnknown, AtPoints
<1>2. /\ step' = "start" /\ UNCHANGED <<ctl, messages, sem, resetSem>>
      /\ thr' \in {"read", "count"}
  BY DEF Return, ReadDone, GoTo
<1>3. /\ pStream = StreamSlot(0) /\ frameFifo.nValidNum > 0
      /\ FifoAgrees(frameFifo', nMaxFrameNum) /\ NoneRead(frameFifo')
      /\ pFrames' \in [StreamSlots -> [pData : Addresses \cup {NULL},
                                       units : Seq(Units)]]
      /\ nValidDataSize' = nValidDataSize - Len(pFrames[pStream].units)
      /\ aborted' = aborted
  BY <1>1, FlushStreamFacts
<1>4. TypeOK'
  <2>1. StreamLength(0) = Len(pFrames[pStream].units)
    BY <1>1, <1>3 DEF StreamLength
  <2>2. Len(pFrames[pStream].units) \in Nat
    BY <1>1 DEF TypeOK
  <2>3. nValidDataSize' \in 0 .. nStreamBufferSize
    BY <1>3, <2>1, <2>2 DEF Fits, TypeOK
  <2>4. ThreadTypeOK'
    BY <1>2 DEF TypeOK, ThreadTypeOK
  <2>5. UNCHANGED <<pWriteAddr, mFramePicFifo, pFramePics, pCurFramePic,
                    bStreamWithStartCode, pCurStream, pCurStreamData,
                    bCurFrameStartCodeFound, held, nEosFlag, ended>>
        /\ pStream' = NULL
    BY DEF CheckUnknown, pictures, detect, player
  <2>6. frameFifo' \in Fifos(nMaxFrameNum) /\ aborted' \in BOOLEAN
    BY <1>3 DEF FifoAgrees, TypeOK
  <2> QED
    BY <1>2, <1>3, <2>3, <2>4, <2>5, <2>6 DEF TypeOK
<1>5. FifosAgree' /\ HeldRead' /\ PicOpen'
  BY <1>2, <1>3 DEF FrameInv, FifosAgree, HeldRead, OnlyRead, NoneRead,
     PicOpen
<1>6. StreamRead' /\ AtPoints'
  BY <1>1, <1>2, <1>3 DEF StreamRead, AtPoints
<1>7. StreamsFit'
  BY <1>1, FlushStreamFits
<1>8. CurLength' = CurLength
  BY DEF CurLength
<1>9. CurPicKnown'
  BY <1>1, <1>2, <1>8 DEF FrameInv, CurPicKnown
<1>10. TypeUnknown'
  BY <1>1, <1>2, <1>8 DEF FrameInv, TypeUnknown, Starting
<1> QED
  BY <1>3, <1>4, <1>5, <1>6, <1>7, <1>9, <1>10 DEF FrameInv, NoAbort

\* It shows its type: it is put back.
LEMMA CheckKnownKeeps ==
    ASSUME TypeOK, FrameInv, CheckKnown
    PROVE  /\ TypeOK' /\ FrameInv'
           /\ frameFifo'.nValidNum = frameFifo.nValidNum
           /\ \A k : StreamSlot(k)' = StreamSlot(k)
<1> USE FrameAssumption DEF CheckKnown, At, pictures, detect, player,
        threadVars, mqVars
<1>1. /\ OnlyRead(frameFifo, pStream)
      /\ pCurStream = NULL /\ pCurStreamData = <<>>
      /\ ~Starting
  BY DEF FrameInv, StreamRead, TypeOK, TypeUnknown, AtPoints
<1>2. /\ step' = "start" /\ UNCHANGED <<ctl, messages, sem, resetSem>>
      /\ thr' = "count"
  BY DEF Return, ReadDone
<1>3. /\ frameFifo' = WithOneReturned(frameFifo, nMaxFrameNum)
      /\ aborted' = aborted
      /\ UNCHANGED <<pFrames, nValidDataSize>>
  <2>1. /\ PrevPos(frameFifo.nReadPos, nMaxFrameNum) = pStream
        /\ frameFifo.nValidNum # 0
    BY <1>1, FifoReturned, StreamFifo DEF OnlyRead
  <2> QED
    BY <2>1 DEF ReturnStream
<1>4. /\ FifoAgrees(frameFifo', nMaxFrameNum) /\ NoneRead(frameFifo')
      /\ frameFifo'.nValidNum = frameFifo.nValidNum
      /\ \A k : StreamSlot(k)' = StreamSlot(k)
  BY <1>1, <1>3, FifoReturned, StreamFifo DEF StreamSlot, OnlyRead, NoneRead
<1>5. TypeOK'
  BY <1>2, <1>3, <1>4 DEF TypeOK, ThreadTypeOK, FifoAgrees
<1>6. FifosAgree' /\ HeldRead' /\ PicOpen'
  BY <1>2, <1>4 DEF FrameInv, FifosAgree, HeldRead, OnlyRead, NoneRead,
     PicOpen
<1>7. StreamRead' /\ AtPoints'
  BY <1>1, <1>2, <1>4 DEF StreamRead, AtPoints
<1>8. StreamsFit'
  BY <1>1, <1>3, <1>4 DEF FrameInv, StreamsFit
<1>9. CurLength' = CurLength
  BY DEF CurLength
<1>10. CurPicKnown'
  BY <1>1, <1>2, <1>9 DEF FrameInv, CurPicKnown
<1>11. TypeUnknown'
  BY <1>1, <1>2, <1>9 DEF FrameInv, TypeUnknown, Starting
<1> QED
  BY <1>3, <1>4, <1>5, <1>6, <1>7, <1>8, <1>10, <1>11 DEF FrameInv, NoAbort

-----------------------------------------------------------------------------
(* The detection. *)

\* A picture is put in place of the current one.
LEMMA PicPut ==
    ASSUME TypeOK, NEW i \in PicSlots, NEW p,
           p \in [pDataStartAddr : Addresses \cup {NULL},
                  nlength : 0 .. nStreamBufferSize,
                  nalus : Seq(Nalu), bValidFlag : 0 .. 1],
           pFramePics' = [pFramePics EXCEPT ![i] = p]
    PROVE  /\ pFramePics' \in [PicSlots ->
                  [pDataStartAddr : Addresses \cup {NULL},
                   nlength : 0 .. nStreamBufferSize,
                   nalus : Seq(Nalu), bValidFlag : 0 .. 1]]
           /\ \A j \in PicSlots :
                pFramePics'[j] = IF j = i THEN p ELSE pFramePics[j]
BY DEF TypeOK

\* detectOneFramePic begins, with a new picture if there is none.
LEMMA DetectStartKeeps ==
    ASSUME TypeOK, FrameInv, DetectStart
    PROVE  TypeOK' /\ FrameInv' /\ CurLength' = CurLength
<1> USE FrameAssumption DEF DetectStart, At, ring, streams, player,
        threadVars, mqVars
<1>1. pStream = NULL /\ pCurStreamData # <<"T">>
  BY DEF FrameInv, StreamRead, CurPicKnown
<1>2. pCurStreamData # <<>> => pCurStream # NULL
  BY DEF FrameInv, AtPoints
<1>3. CASE step' = NextStep(pCurStreamData)
  <2>1. /\ UNCHANGED <<thr, ctl, messages, sem, resetSem, frameFifo, pFrames,
                       mFramePicFifo, pCurStream, pCurStreamData, pStream,
                       bCurFrameStartCodeFound, held, aborted,
                       bStreamWithStartCode>>
        /\ thr = "read"
    <3>1. ~ Return
      BY <1>3 DEF Return, NextStep
    <3> QED
      BY <3>1 DEF GoTo, detect
  <2>2. step' = IF pCurStreamData = <<>> THEN "supply" ELSE "scan"
    BY <1>1, <1>3 DEF NextStep, Short
  <2>3. /\ pCurFramePic' # NULL /\ pCurFramePic' = mFramePicFifo.nWritePos
        /\ pCurFramePic' \in PicSlots
        /\ mFramePicFifo.nValidNum < nMaxFramePicNum
    <3>1. CASE pCurFramePic # NULL
      BY <3>1 DEF FrameInv, PicOpen, TypeOK, detect
    <3>2. CASE pCurFramePic = NULL
      <4>1. /\ pCurFramePic' = mFramePicFifo.nWritePos
            /\ mFramePicFifo.nValidNum < nMaxFramePicNum
        BY <1>3, <3>2, PicFifo DEF Return, NextStep
      <4>2. mFramePicFifo.nWritePos \in PicSlots
        BY PicFifo
      <4> QED
        BY <4>1, <4>2 DEF PicSlots, NULL
    <3> QED
      BY <3>1, <3>2
  <2>4. /\ pFramePics' \in [PicSlots ->
               [pDataStartAddr : Addresses \cup {NULL},
                nlength : 0 .. nStreamBufferSize,
                nalus : Seq(Nalu), bValidFlag : 0 .. 1]]
        /\ CurLength' = CurLength
        /\ pFramePics'[pCurFramePic'].pDataStartAddr = NULL <=> CurLength' = 0
    <3>1. CASE pCurFramePic # NULL
      <4>1. UNCHANGED <<pFramePics, pCurFramePic>>
        BY <3>1 DEF detect
      <4> QED
        BY <3>1, <4>1 DEF FrameInv, CurPicKnown, TypeOK, CurLength
    <3>2. CASE pCurFramePic = NULL
      <4>1. pFramePics' = [pFramePics EXCEPT ![pCurFramePic'] = NoPic]
        BY <1>3, <3>2 DEF Return, NextStep
      <4>2. NoPic \in [pDataStartAddr : Addresses \cup {NULL},
                       nlength : 0 .. nStreamBufferSize,
                       nalus : Seq(Nalu), bValidFlag : 0 .. 1]
        BY DEF NoPic
      <4>3. pFramePics'[pCurFramePic'] = NoPic
        BY <2>3, <4>1 DEF TypeOK
      <4> QED
        BY <2>3, <3>2, <4>1, <4>2, <4>3, PicPut DEF CurLength, NoPic
    <3> QED
      BY <3>1, <3>2
  <2>5. TypeOK'
    BY <2>1, <2>2, <2>3, <2>4 DEF TypeOK, ThreadTypeOK
  <2>6. FifosAgree' /\ HeldRead' /\ PicOpen'
    BY <2>1, <2>2, <2>3 DEF FrameInv, FifosAgree, HeldRead, OnlyRead,
       NoneRead, PicOpen
  <2>7. StreamRead' /\ AtPoints'
    BY <1>1, <1>2, <2>1, <2>2 DEF FrameInv, StreamRead, OnlyRead, NoneRead,
       AtPoints
  <2>8. \A k : StreamSlot(k)' = StreamSlot(k)
    BY <2>1 DEF StreamSlot
  <2>9. StreamsFit'
    BY <2>1, <2>8 DEF FrameInv, StreamsFit
  <2>10. CurPicKnown'
    BY <1>1, <2>1, <2>2, <2>4 DEF FrameInv, CurPicKnown
  <2>11. TypeUnknown'
    BY <1>2, <2>1, <2>2, <2>4 DEF FrameInv, TypeUnknown, Starting
  <2> QED
    BY <2>1, <2>4, <2>5, <2>6, <2>7, <2>9, <2>10, <2>11 DEF FrameInv, NoAbort
<1>4. CASE step' # NextStep(pCurStreamData)
  <2>1. /\ UNCHANGED <<pFramePics, detect, mFramePicFifo>>
        /\ step' = "start" /\ thr' = "count"
        /\ UNCHANGED <<ctl, messages, sem, resetSem>>
    <3>1. ~ GoTo(NextStep(pCurStreamData))
      BY <1>4 DEF GoTo
    <3>2. Return /\ UNCHANGED <<pFramePics, detect>>
      BY <3>1
    <3> QED
      BY <3>2 DEF Return, ReadDone
  <2>2. TypeOK'
    BY <2>1 DEF TypeOK, ThreadTypeOK, detect
  <2>3. CurLength' = CurLength /\ CurPicKnown'
    BY <2>1, SameCurPic DEF detect
  <2>4. FifosAgree' /\ HeldRead' /\ PicOpen'
    BY <2>1 DEF FrameInv, FifosAgree, HeldRead, OnlyRead, NoneRead, PicOpen,
       detect
  <2>5. StreamRead' /\ AtPoints'
    BY <1>1, <1>2, <2>1 DEF FrameInv, StreamRead, OnlyRead, NoneRead,
       AtPoints, detect
  <2>6. \A k : StreamSlot(k)' = StreamSlot(k)
    BY DEF StreamSlot
  <2>7. StreamsFit'
    BY <2>1, <2>6 DEF FrameInv, StreamsFit, detect
  <2>8. TypeUnknown'
    BY <2>1, <2>3 DEF FrameInv, TypeUnknown, Starting, detect
  <2> QED
    BY <2>2, <2>3, <2>4, <2>5, <2>7, <2>8 DEF FrameInv, NoAbort
<1> QED
  BY <1>3, <1>4

\* The bytes too short to look at go with the picture, the used-up stream is
\* given back.
LEMMA SupplyFlushKeeps ==
    ASSUME TypeOK, FrameInv, Fits, SupplyFlush
    PROVE  TypeOK' /\ FrameInv' /\ CurLength' = CurLength + Len(pCurStreamData)
<1> USE FrameAssumption DEF SupplyFlush, At, GoTo, player, threadVars, mqVars
<1>1. /\ OnlyRead(frameFifo, pCurStream) /\ pCurStream \in StreamSlots
      /\ pStream = NULL
      /\ bStreamWithStartCode # -1 /\ ~Starting
      /\ pCurFramePic # NULL /\ pCurFramePic \in PicSlots
  BY DEF FrameInv, StreamRead, TypeOK, TypeUnknown, PicOpen
<1>2. /\ FifoAgrees(frameFifo', nMaxFrameNum) /\ NoneRead(frameFifo')
      /\ pFrames' \in [StreamSlots -> [pData : Addresses \cup {NULL},
                                       units : Seq(Units)]]
      /\ nValidDataSize' = nValidDataSize
      /\ aborted' = aborted
  BY <1>1, FlushStreamFacts
<1> DEFINE p == [pFramePics[pCurFramePic] EXCEPT !.nlength = @ + RestLength]
<1>3. /\ Len(pCurStreamData) \in Nat
      /\ CurLength = pFramePics[pCurFramePic].nlength
      /\ CurLength \in Nat
      /\ CurLength + Len(pCurStreamData) <= nStreamBufferSize
  <2>1. Len(pCurStreamData) \in Nat
    BY DEF TypeOK
  <2>2. CurLength = pFramePics[pCurFramePic].nlength /\ CurLength \in Nat
    BY <1>1 DEF CurLength, TypeOK
  <2> QED
    BY <1>1, <2>1, <2>2 DEF Fits, TypeOK
<1>4. /\ p \in [pDataStartAddr : Addresses \cup {NULL},
                nlength : 0 .. nStreamBufferSize,
                nalus : Seq(Nalu), bValidFlag : 0 .. 1]
      /\ p.nlength = CurLength + Len(pCurStreamData)
      /\ p.pDataStartAddr = pFramePics[pCurFramePic].pDataStartAddr
  <2> DEFINE q == pFramePics[pCurFramePic]
  <2>1. q \in [pDataStartAddr : Addresses \cup {NULL},
               nlength : 0 .. nStreamBufferSize,
               nalus : Seq(Nalu), bValidFlag : 0 .. 1]
    BY <1>1 DEF TypeOK
  <2>2. /\ q.nlength + RestLength = CurLength + Len(pCurStreamData)
        /\ q.nlength + RestLength \in 0 .. nStreamBufferSize
    BY <1>3 DEF RestLength
  <2> HIDE DEF q
  <2>3. p = [q EXCEPT !.nlength = @ + RestLength]
    BY DEF q
  <2> HIDE DEF p
  <2>4. p.pDataStartAddr = q.pDataStartAddr
    BY <2>1, <2>3
  <2> QED
    BY <2>1, <2>2, <2>3, <2>4 DEF q
<1>5. pFramePics' = [pFramePics EXCEPT ![pCurFramePic] = p]
  OBVIOUS
<1> HIDE DEF p
<1>6. /\ pFramePics' \in [PicSlots ->
             [pDataStartAddr : Addresses \cup {NULL},
              nlength : 0 .. nStreamBufferSize,
              nalus : Seq(Nalu), bValidFlag : 0 .. 1]]
      /\ pFramePics'[pCurFramePic] = p
  BY <1>1, <1>4, <1>5, PicPut
<1>7. CurLength' = CurLength + Len(pCurStreamData)
  BY <1>1, <1>4, <1>6 DEF CurLength
<1>8. TypeOK'
  <2>1. /\ frameFifo' \in Fifos(nMaxFrameNum)
        /\ pCurStreamData' \in Seq(Units)
        /\ pCurStream' \in StreamSlots \cup {NULL}
    BY <1>2 DEF FifoAgrees
  <2> QED
    BY <1>2, <1>6, <2>1 DEF TypeOK, ThreadTypeOK
<1>9. FifosAgree' /\ HeldRead' /\ PicOpen'
  BY <1>2 DEF FrameInv, FifosAgree, HeldRead, OnlyRead, NoneRead, PicOpen
<1>10. StreamRead' /\ AtPoints'
  BY <1>1, <1>2 DEF StreamRead, AtPoints
<1>11. StreamsFit'
  BY <1>1, FlushStreamFits
<1>12. CurPicKnown'
  BY <1>1, <1>3, <1>4, <1>6, <1>7 DEF FrameInv, CurPicKnown
<1>13. TypeUnknown'
  BY <1>1 DEF TypeUnknown, Starting
<1> QED
  BY <1>2, <1>7, <1>8, <1>9, <1>10, <1>11, <1>12, <1>13 DEF FrameInv, NoAbort

\* The next stream is taken, if there is one.
LEMMA SupplyRequestKeeps ==
    ASSUME TypeOK, FrameInv, SupplyRequest
    PROVE  /\ TypeOK' /\ FrameInv' /\ CurLength' = CurLength
           /\ frameFifo'.nValidNum = frameFifo.nValidNum
           /\ \A k : StreamSlot(k)' = StreamSlot(k)
           /\ pCurStream' # NULL =>
                  /\ pCurStream' = StreamSlot(0)
                  /\ pCurStreamData' = pFrames[StreamSlot(0)].units
<1> USE FrameAssumption DEF SupplyRequest, At, GoTo, ring, pictures, player,
        threadVars, mqVars
<1>1. /\ pStream = NULL /\ NoneRead(frameFifo)
      /\ pCurFramePic # NULL /\ pCurStreamData = <<>>
  BY DEF FrameInv, StreamRead, TypeUnknown, AtPoints, PicOpen
<1>2. CurLength' = CurLength
  BY DEF CurLength
<1>3. HeldRead' /\ PicOpen' /\ FifoAgrees(mFramePicFifo', nMaxFramePicNum)
  BY <1>1 DEF FrameInv, FifosAgree, HeldRead, OnlyRead, NoneRead, PicOpen
<1>4. CASE frameFifo.nUnReadNum = 0
  <2>1. /\ UNCHANGED <<frameFifo, pStream, pFrames, pCurStream,
                       pCurStreamData, thr, ctl>>
        /\ step' = "starved"
    BY <1>4
  <2>2. \A k : StreamSlot(k)' = StreamSlot(k)
    BY <2>1 DEF StreamSlot
  <2>3. TypeOK'
    BY <1>4 DEF TypeOK, ThreadTypeOK
  <2>4. CurPicKnown'
    BY <1>2, <2>1 DEF FrameInv, CurPicKnown
  <2>5. StreamRead' /\ AtPoints' /\ StreamsFit'
    BY <1>1, <2>1, <2>2 DEF FrameInv, StreamRead, AtPoints, StreamsFit,
       NoneRead
  <2>6. TypeUnknown'
    BY <1>2, <2>1 DEF FrameInv, TypeUnknown, Starting
  <2> QED
    BY <1>2, <1>3, <2>1, <2>2, <2>3, <2>4, <2>5, <2>6 DEF FrameInv, NoAbort,
       FifosAgree
<1>5. CASE frameFifo.nUnReadNum # 0
  <2> DEFINE s == frameFifo.nReadPos
  <2>1. /\ FifoAgrees(frameFifo', nMaxFrameNum)
        /\ frameFifo'.nValidNum = frameFifo.nValidNum
        /\ frameFifo'.nUnReadNum = frameFifo.nUnReadNum - 1
        /\ frameFifo'.nFlushPos = frameFifo.nFlushPos
        /\ \A k : StreamSlot(k)' = StreamSlot(k)
    BY <1>5, FifoRead, StreamFifo DEF StreamSlot
  <2>2. /\ s = StreamSlot(0) /\ s \in StreamSlots /\ s # NULL
        /\ OnlyRead(frameFifo', s) /\ frameFifo.nValidNum # 0
    <3>1. s = StreamSlot(0) /\ s \in StreamSlots
      BY <1>1, StreamFifo DEF NoneRead
    <3>2. OnlyRead(frameFifo', s) /\ frameFifo.nValidNum # 0
      BY <1>1, <1>5, <2>1, <3>1, StreamFifo DEF NoneRead, OnlyRead
    <3> QED
      BY <3>1, <3>2 DEF StreamSlots, NULL
  <2>3. bStreamWithStartCode # -1 /\ ~Starting
    BY <2>2 DEF FrameInv, TypeUnknown
  <2>4. CASE pFrames[s].units = <<>>
    <3>1. /\ UNCHANGED <<pFrames, pCurStream, pCurStreamData, thr, ctl>>
          /\ step' = "empty" /\ pStream' = s
      BY <1>5, <2>4
    <3>2. TypeOK'
      BY <1>5, <2>1, <2>2, <3>1 DEF TypeOK, ThreadTypeOK, FifoAgrees
    <3>3. CurPicKnown'
      BY <1>2, <3>1 DEF FrameInv, CurPicKnown
    <3>4. StreamRead' /\ AtPoints'
      BY <1>1, <2>2, <2>4, <3>1 DEF StreamRead, AtPoints
    <3>5. StreamsFit'
      BY <2>1, <3>1 DEF FrameInv, StreamsFit
    <3>6. TypeUnknown'
      BY <2>3, <3>1 DEF TypeUnknown, Starting
    <3> QED
      BY <1>2, <1>3, <2>1, <3>1, <3>2, <3>3, <3>4, <3>5, <3>6 DEF FrameInv,
         NoAbort, FifosAgree
  <2>5. CASE pFrames[s].units # <<>>
    <3>1. /\ UNCHANGED <<pFrames, pStream, thr, ctl>>
          /\ step' = "scan" /\ pCurStream' = s
          /\ pCurStreamData' = pFrames[s].units
      BY <1>5, <2>5
    <3>2. pFrames[s].units \in Seq(Units)
      BY <2>2 DEF TypeOK
    <3>3. TypeOK'
      BY <1>5, <2>1, <2>2, <3>1, <3>2 DEF TypeOK, ThreadTypeOK, FifoAgrees
    <3>4. CurPicKnown'
      BY <1>2, <3>1 DEF FrameInv, CurPicKnown
    <3>5. StreamRead' /\ AtPoints'
      BY <1>1, <2>2, <2>5, <3>1 DEF StreamRead, AtPoints
    <3>6. StreamsFit'
      <4>1. Len(pCurStreamData') <= Len(pFrames'[pCurStream'].units)
        BY <3>1, <3>2
      <4> QED
        BY <2>1, <3>1, <4>1 DEF FrameInv, StreamsFit
    <3>7. TypeUnknown'
      BY <2>3, <3>1 DEF TypeUnknown, Starting
    <3> QED
      BY <1>2, <1>3, <2>1, <2>2, <3>1, <3>3, <3>4, <3>5, <3>6, <3>7 DEF
         FrameInv, NoAbort, FifosAgree
  <2> QED
    BY <2>4, <2>5
<1> QED
  BY <1>4, <1>5

\* A stream without bytes is given back at once.
LEMMA SupplyEmptyKeeps ==
    ASSUME TypeOK, FrameInv, SupplyEmpty
    PROVE  TypeOK' /\ FrameInv' /\ CurLength' = CurLength
<1> USE FrameAssumption DEF SupplyEmpty, At, GoTo, pictures, detect, player,
        threadVars, mqVars
<1>1. /\ OnlyRead(frameFifo, pStream) /\ pStream \in StreamSlots
      /\ pStream # NULL /\ pCurStream = NULL /\ pCurStreamData = <<>>
      /\ frameFifo.nValidNum # 0
      /\ pCurFramePic # NULL
  BY StreamFifo DEF FrameInv, StreamRead, TypeOK, PicOpen, AtPoints, OnlyRead
<1>2. bStreamWithStartCode # -1 /\ ~Starting
  BY <1>1 DEF FrameInv, TypeUnknown
<1>3. /\ FifoAgrees(frameFifo', nMaxFrameNum) /\ NoneRead(frameFifo')
      /\ pFrames' \in [StreamSlots -> [pData : Addresses \cup {NULL},
                                       units : Seq(Units)]]
      /\ nValidDataSize' = nValidDataSize
      /\ aborted' = aborted
  BY <1>1, FlushStreamFacts
<1>4. TypeOK'
  BY <1>3 DEF TypeOK, ThreadTypeOK, FifoAgrees
<1>5. FifosAgree' /\ HeldRead' /\ PicOpen'
  BY <1>1, <1>3 DEF FrameInv, FifosAgree, HeldRead, OnlyRead, NoneRead,
     PicOpen
<1>6. StreamRead' /\ AtPoints'
  BY <1>1, <1>3 DEF StreamRead, AtPoints
<1>7. StreamsFit'
  BY <1>1, FlushStreamFits
<1>8. CurLength' = CurLength
  BY DEF CurLength
<1>9. CurPicKnown'
  BY <1>1, <1>8 DEF FrameInv, CurPicKnown
<1>10. TypeUnknown'
  BY <1>2 DEF TypeUnknown, Starting
<1> QED
  BY <1>3, <1>4, <1>5, <1>6, <1>7, <1>8, <1>9, <1>10 DEF FrameInv, NoAbort

\* No stream has come: the detection ends, perhaps with the last picture.
LEMMA StarvedKeeps ==
    ASSUME TypeOK, FrameInv, Starved
    PROVE  /\ TypeOK' /\ FrameInv'
           /\ AddFramePic \/ UNCHANGED <<mFramePicFifo, pCurFramePic>>
<1> USE FrameAssumption DEF Starved, At, ring, streams
<1>1. /\ pStream = NULL /\ pCurStream = NULL /\ pCurStreamData = <<>>
      /\ pCurFramePic # NULL
  BY DEF FrameInv, StreamRead, AtPoints, PicOpen
<1>2. /\ step' = "start" /\ thr' = "count"
      /\ UNCHANGED <<messages, sem, ctl, resetSem, held, nEosFlag, ended>>
  BY DEF Return, ReadDone, mqVars, player
<1>3. \A k : StreamSlot(k)' = StreamSlot(k)
  BY DEF StreamSlot
<1>4. StreamRead' /\ AtPoints' /\ StreamsFit'
  BY <1>1, <1>2, <1>3 DEF FrameInv, StreamRead, AtPoints, StreamsFit,
     NoneRead
<1>5. CASE LastPicture
  <2>1. AddFramePic /\ bCurFrameStartCodeFound' = 0
    BY <1>5
  <2>2. /\ FifoAgrees(mFramePicFifo', nMaxFramePicNum)
        /\ pCurFramePic' = NULL /\ CurLength' = 0
        /\ aborted' = aborted
    BY <1>1, <2>1, AddPicFacts
  <2>3. HeldRead' /\ PicOpen'
    BY <1>1, <1>2, <2>1, AddPicHeld
  <2>4. TypeOK'
    BY <1>2, <2>1, <2>2 DEF TypeOK, ThreadTypeOK, FifoAgrees
  <2>5. CurPicKnown'
    BY <1>1, <1>2, <2>2 DEF CurPicKnown
  <2>6. TypeUnknown'
    BY <1>2, <1>5 DEF FrameInv, TypeUnknown, Starting, LastPicture
  <2> QED
    BY <1>4, <2>1, <2>2, <2>3, <2>4, <2>5, <2>6 DEF FrameInv, NoAbort,
       FifosAgree
<1>6. CASE ~LastPicture
  <2>1. UNCHANGED <<bCurFrameStartCodeFound, pCurFramePic, mFramePicFifo,
                    aborted>>
    BY <1>6
  <2>2. CurLength' = CurLength
    BY <2>1 DEF CurLength
  <2>3. HeldRead' /\ PicOpen'
    BY <1>2, <2>1 DEF FrameInv, HeldRead, OnlyRead, NoneRead, PicOpen
  <2>4. TypeOK'
    BY <1>2, <2>1 DEF TypeOK, ThreadTypeOK
  <2>5. CurPicKnown'
    BY <1>1, <1>2, <2>1, <2>2 DEF FrameInv, CurPicKnown
  <2>6. TypeUnknown'
    BY <1>2, <2>1, <2>2 DEF FrameInv, TypeUnknown, Starting
  <2> QED
    BY <1>4, <2>1, <2>3, <2>4, <2>5, <2>6 DEF FrameInv, NoAbort,
       FifosAgree
<1> QED
  BY <1>5, <1>6

-----------------------------------------------------------------------------
(* The NAL unit the detector looks at. *)

\* Numbers have a least one.
LEMMA LeastNumber ==
    ASSUME NEW T, T \subseteq Nat, T # {}
    PROVE  \E x \in T : \A y \in T : x <= y
<1>1. PICK x \in T : \A y \in T : ~ (<<y, x>> \in OpToRel(<, Nat))
  BY WFMin, NatLessThanWellFounded
<1>2. ASSUME NEW y \in T PROVE x <= y
  <2>1. ~ (<<y, x>> \in {ss \in Nat \X Nat : ss[1] < ss[2]})
    BY <1>1, Zenon DEF OpToRel
  <2> QED
    BY <2>1
<1> QED
  BY <1>2

\* It lies in what is left of the stream, and so does its end.
LEMMA NaluFacts ==
    ASSUME TypeOK, NaluPos # 0
    PROVE  /\ NaluPos \in 1 .. Len(pCurStreamData)
           /\ pCurStreamData[NaluPos] \in Nalu
           /\ NaluEnd \in NaluPos .. Len(pCurStreamData)
<1>1. pCurStreamData \in Seq(Units) /\ Len(pCurStreamData) \in Nat
      /\ DOMAIN pCurStreamData = 1 .. Len(pCurStreamData)
  BY DEF TypeOK
<1>2. /\ NaluPos \in 1 .. Len(pCurStreamData)
      /\ pCurStreamData[NaluPos] \in Nalu
  <2> DEFINE at == {i \in DOMAIN pCurStreamData : pCurStreamData[i] \in Nalu}
  <2>1. CASE bStreamWithStartCode = 1
    <3>1. at # {} /\ NaluPos = CHOOSE i \in at : \A j \in at : i <= j
      BY <2>1 DEF NaluPos
    <3>2. at \subseteq Nat
      BY <1>1
    <3>3. \E i \in at : \A j \in at : i <= j
      <4> HIDE DEF at
      <4> QED
        BY <3>1, <3>2, LeastNumber
    <3>4. NaluPos \in at
      <4> HIDE DEF at
      <4> QED
        BY <3>1, <3>3
    <3> QED
      BY <1>1, <3>4
  <2>2. CASE bStreamWithStartCode # 1
    <3>1. 1 \in at /\ NaluPos = 1
      BY <2>2 DEF NaluPos
    <3> QED
      BY <1>1, <3>1
  <2> QED
    BY <2>1, <2>2
<1>3. NaluEnd \in NaluPos .. Len(pCurStreamData)
  <2> DEFINE ends == {i \in NaluPos .. Len(pCurStreamData) - 1 :
                         pCurStreamData[i + 1] \in Nalu \cup {"T"}}
  <2>1. CASE bStreamWithStartCode = 1 /\ ends # {}
    <3>1. NaluEnd = CHOOSE i \in ends : \A j \in ends : i <= j
      BY <2>1 DEF NaluEnd
    <3>2. ends \subseteq Nat /\ ends # {}
      BY <1>1, <1>2, <2>1
    <3>3. NaluEnd \in ends
      <4> HIDE DEF ends
      <4>1. \E i \in ends : \A j \in ends : i <= j
        BY <3>2, LeastNumber
      <4> QED
        BY <3>1, <4>1
    <3> QED
      BY <1>1, <1>2, <3>3
  <2>2. CASE bStreamWithStartCode = 1 /\ ends = {}
    BY <1>1, <1>2, <2>2 DEF NaluEnd
  <2>3. CASE bStreamWithStartCode # 1
    BY <1>1, <1>2, <2>3 DEF NaluEnd
  <2> QED
    BY <2>1, <2>2, <2>3
<1> QED
  BY <1>2, <1>3

\* The current picture while the detector looks for NAL units.
LEMMA ScanFacts ==
    ASSUME TypeOK, FrameInv, Fits, At("scan")
    PROVE  /\ pStream = NULL /\ pCurFramePic # NULL /\ pCurStream # NULL
           /\ pCurFramePic \in PicSlots /\ pCurStream \in StreamSlots
           /\ OnlyRead(frameFifo, pCurStream)
           /\ bStreamWithStartCode # -1 /\ ~Starting
           /\ Len(pCurStreamData) \in Nat
           /\ Len(pCurStreamData) > 0
           /\ CurLength \in Nat
           /\ CurLength + Len(pCurStreamData) <= nValidDataSize
           /\ nValidDataSize \in 0 .. nStreamBufferSize
           /\ CurAddr \in Addresses /\ CurAddr # NULL
           /\ CurPic \in [pDataStartAddr : Addresses,
                          nlength : 0 .. nStreamBufferSize,
                          nalus : Seq(Nalu), bValidFlag : 0 .. 1]
           /\ CurPic.nlength = CurLength
           /\ CurPic.nalus = pFramePics[pCurFramePic].nalus
           /\ CurPic.bValidFlag = pFramePics[pCurFramePic].bValidFlag
           /\ CurPic.pDataStartAddr =
                  IF CurLength = 0 THEN CurAddr
                  ELSE pFramePics[pCurFramePic].pDataStartAddr
<1> USE FrameAssumption
<1>1. /\ pStream = NULL /\ pCurFramePic # NULL /\ pCurStream # NULL
      /\ pCurFramePic \in PicSlots /\ pCurStream \in StreamSlots
      /\ OnlyRead(frameFifo, pCurStream)
      /\ bStreamWithStartCode # -1 /\ ~Starting
      /\ pCurStreamData # <<>>
  BY DEF FrameInv, StreamRead, AtPoints, PicOpen, TypeUnknown, TypeOK, At
<1>2. /\ Len(pCurStreamData) \in Nat /\ Len(pCurStreamData) > 0
      /\ nValidDataSize \in 0 .. nStreamBufferSize
  BY <1>1 DEF TypeOK
<1> DEFINE pic == pFramePics[pCurFramePic]
<1>3. /\ pic \in [pDataStartAddr : Addresses \cup {NULL},
                  nlength : 0 .. nStreamBufferSize,
                  nalus : Seq(Nalu), bValidFlag : 0 .. 1]
      /\ CurLength = pic.nlength /\ CurLength \in Nat
      /\ pic.pDataStartAddr = NULL <=> CurLength = 0
  BY <1>1 DEF TypeOK, CurLength, FrameInv, CurPicKnown
<1>4. CurLength + Len(pCurStreamData) <= nValidDataSize
  BY <1>1 DEF Fits
<1>5. CurAddr \in Addresses /\ CurAddr # NULL
  <2>1. frameFifo.nValidNum > 0 /\ pCurStream = StreamSlot(0)
    BY <1>1, StreamFifo DEF OnlyRead
  <2>2. pFrames[pCurStream].pData \in Addresses
    BY <2>1, StreamFifo DEF FrameInv, StreamsFit
  <2>3. /\ Len(pFrames[pCurStream].units) \in Nat
        /\ Len(pFrames[pCurStream].units) < nStreamBufferSize
        /\ Len(pCurStreamData) <= Len(pFrames[pCurStream].units)
    BY <1>1 DEF FrameInv, StreamsFit, TypeOK
  <2>4. PICK m \in Nat : m = pFrames[pCurStream].pData
                               + (Len(pFrames[pCurStream].units)
                                  - Len(pCurStreamData))
    BY <1>2, <2>2, <2>3 DEF Addresses
  <2>5. m <= 2 * nStreamBufferSize - 2
    BY <1>2, <2>2, <2>3, <2>4, SMTT(30) DEF Addresses
  <2>6. pFrames[pCurStream].pData + Len(pFrames[pCurStream].units)
            - Len(pCurStreamData) = m
    BY <1>2, <2>2, <2>3, <2>4 DEF Addresses
  <2>7. CurAddr = WrapAddr(m)
    BY <2>6 DEF CurAddr
  <2> QED
    BY <2>5, <2>7 DEF WrapAddr, Addresses, NULL
<1>6. CurPic = [pic EXCEPT !.pDataStartAddr =
                              IF CurLength = 0 THEN CurAddr ELSE @]
  BY <1>3 DEF CurPic
<1> HIDE DEF pic
<1>7. /\ CurPic \in [pDataStartAddr : Addresses,
                     nlength : 0 .. nStreamBufferSize,
                     nalus : Seq(Nalu), bValidFlag : 0 .. 1]
      /\ CurPic.nlength = CurLength
      /\ CurPic.nalus = pic.nalus
      /\ CurPic.bValidFlag = pic.bValidFlag
      /\ CurPic.pDataStartAddr = IF CurLength = 0 THEN CurAddr
                                 ELSE pic.pDataStartAddr
  BY <1>3, <1>5, <1>6
<1> QED
  BY <1>1, <1>2, <1>3, <1>4, <1>5, <1>7 DEF pic

\* A NAL unit goes from the stream to the picture.
LEMMA StoreNaluKeeps ==
    ASSUME TypeOK, FrameInv, Fits, StoreNalu
    PROVE  /\ TypeOK' /\ FrameInv'
           /\ NaluEnd \in 1 .. Len(pCurStreamData)
           /\ CurLength' = CurLength + NaluEnd
           /\ Len(pCurStreamData') = Len(pCurStreamData) - NaluEnd
           /\ pFramePics'[pCurFramePic].pDataStartAddr = CurPic.pDataStartAddr
           /\ \A i \in PicSlots \ {pCurFramePic} :
                pFramePics'[i] = pFramePics[i]
<1> USE FrameAssumption
<1>1. /\ pStream = NULL /\ pCurFramePic # NULL /\ pCurStream # NULL
      /\ pCurFramePic \in PicSlots
      /\ bStreamWithStartCode # -1 /\ ~Starting
      /\ Len(pCurStreamData) \in Nat
      /\ CurLength \in Nat
      /\ CurLength + Len(pCurStreamData) <= nValidDataSize
      /\ nValidDataSize \in 0 .. nStreamBufferSize
      /\ CurPic \in [pDataStartAddr : Addresses,
                     nlength : 0 .. nStreamBufferSize,
                     nalus : Seq(Nalu), bValidFlag : 0 .. 1]
      /\ CurPic.nlength = CurLength
  BY ScanFacts DEF StoreNalu
<1>2. NaluPos # 0
  BY DEF StoreNalu, Invalid
<1>3. /\ NaluPos \in 1 .. Len(pCurStreamData)
      /\ pCurStreamData[NaluPos] \in Nalu
      /\ NaluEnd \in 1 .. Len(pCurStreamData)
  BY <1>2, NaluFacts
<1> DEFINE kind == pCurStreamData[NaluPos]
           p == [CurPic EXCEPT !.nalus = Append(@, kind),
                               !.nlength = @ + NaluEnd]
<1>4. /\ p \in [pDataStartAddr : Addresses \cup {NULL},
                nlength : 0 .. nStreamBufferSize,
                nalus : Seq(Nalu), bValidFlag : 0 .. 1]
      /\ p.nlength = CurLength + NaluEnd
      /\ p.pDataStartAddr = CurPic.pDataStartAddr
      /\ p.pDataStartAddr # NULL
  <2>1. /\ CurPic.nlength + NaluEnd = CurLength + NaluEnd
        /\ CurLength + NaluEnd \in 0 .. nStreamBufferSize
    BY <1>1, <1>3
  <2>2. Append(CurPic.nalus, kind) \in Seq(Nalu)
    BY <1>1, <1>3
  <2>3. ASSUME NEW c \in [pDataStartAddr : Addresses,
                          nlength : 0 .. nStreamBufferSize,
                          nalus : Seq(Nalu), bValidFlag : 0 .. 1],
               NEW n \in Seq(Nalu), NEW l \in 0 .. nStreamBufferSize,
               NEW q, q = [c EXCEPT !.nalus = n, !.nlength = l]
        PROVE  /\ q \in [pDataStartAddr : Addresses,
                         nlength : 0 .. nStreamBufferSize,
                         nalus : Seq(Nalu), bValidFlag : 0 .. 1]
               /\ q.nlength = l /\ q.pDataStartAddr = c.pDataStartAddr
    BY <2>3
  <2>4. p = [CurPic EXCEPT !.nalus = Append(CurPic.nalus, kind),
                           !.nlength = CurLength + NaluEnd]
    BY <2>1
  <2>5. /\ p \in [pDataStartAddr : Addresses,
                  nlength : 0 .. nStreamBufferSize,
                  nalus : Seq(Nalu), bValidFlag : 0 .. 1]
        /\ p.nlength = CurLength + NaluEnd
        /\ p.pDataStartAddr = CurPic.pDataStartAddr
    <3> HIDE DEF p, kind
    <3> QED
      BY <1>1, <2>1, <2>2, <2>3, <2>4
  <2> HIDE DEF p, kind
  <2>6. p.pDataStartAddr \in Addresses /\ NULL \notin Addresses
    BY <2>5 DEF Addresses, NULL
  <2> QED
    BY <2>5, <2>6
<1>5. pFramePics' = [pFramePics EXCEPT ![pCurFramePic] = p]
  BY DEF StoreNalu
<1> HIDE DEF p
<1>6. /\ pFramePics' \in [PicSlots ->
             [pDataStartAddr : Addresses \cup {NULL},
              nlength : 0 .. nStreamBufferSize,
              nalus : Seq(Nalu), bValidFlag : 0 .. 1]]
      /\ pFramePics'[pCurFramePic] = p
      /\ \A i \in PicSlots \ {pCurFramePic} :
           pFramePics'[i] = pFramePics[i]
  BY <1>1, <1>4, <1>5, PicPut
<1>7. /\ pCurStreamData' \in Seq(Units)
      /\ Len(pCurStreamData') = Len(pCurStreamData) - NaluEnd
  <2>1. pCurStreamData \in Seq(Units)
    BY DEF TypeOK
  <2>2. pCurStreamData' = SubSeq(pCurStreamData, NaluEnd + 1,
                                 Len(pCurStreamData))
    BY DEF StoreNalu
  <2> QED
    BY <1>1, <1>3, <2>1, <2>2
<1>8. /\ UNCHANGED <<frameFifo, pFrames, mFramePicFifo, pCurStream, pStream,
                     bStreamWithStartCode, pCurFramePic, held, nEosFlag,
                     ended, aborted, pWriteAddr, nValidDataSize, thr, ctl,
                     messages, sem, resetSem>>
      /\ thr = "read"
      /\ step' = IF pCurStreamData' \in {<<>>, <<"T">>} THEN "supply"
                 ELSE "scan"
      /\ bCurFrameStartCodeFound' \in {1, bCurFrameStartCodeFound}
  BY DEF StoreNalu, GoTo, NextStep, Short, At, ring, streams, player,
     threadVars, mqVars
<1>9. CurLength' = CurLength + NaluEnd
  BY <1>1, <1>4, <1>6, <1>8 DEF CurLength
<1>10. TypeOK'
  BY <1>6, <1>7, <1>8 DEF TypeOK, ThreadTypeOK
<1>11. FifosAgree' /\ HeldRead' /\ PicOpen'
  BY <1>1, <1>8 DEF FrameInv, FifosAgree, HeldRead, OnlyRead, NoneRead,
     PicOpen
<1>12. StreamRead' /\ AtPoints'
  BY <1>1, <1>8 DEF FrameInv, StreamRead, OnlyRead, NoneRead, AtPoints
<1>13. StreamsFit'
  <2>1. \A k : StreamSlot(k)' = StreamSlot(k)
    BY <1>8 DEF StreamSlot
  <2>2. Len(pCurStreamData) <= Len(pFrames[pCurStream].units)
    BY <1>1 DEF FrameInv, StreamsFit
  <2>3. Len(pFrames[pCurStream].units) \in Nat
    BY <1>1 DEF TypeOK
  <2>4. Len(pCurStreamData') <= Len(pFrames'[pCurStream'].units)
    BY <1>1, <1>3, <1>7, <1>8, <2>2, <2>3
  <2> QED
    BY <1>8, <2>1, <2>4 DEF FrameInv, StreamsFit
<1>14. CurPicKnown'
  BY <1>1, <1>3, <1>4, <1>6, <1>8, <1>9 DEF CurPicKnown
<1>15. TypeUnknown'
  BY <1>1, <1>8 DEF TypeUnknown, Starting
<1> QED
  BY <1>3, <1>4, <1>6, <1>7, <1>8, <1>9, <1>10, <1>11, <1>12, <1>13, <1>14,
     <1>15 DEF FrameInv, NoAbort

\* A picture is complete: the next NAL unit begins another one.
LEMMA PictureFoundKeeps ==
    ASSUME TypeOK, FrameInv, Fits, PictureFound
    PROVE  /\ TypeOK' /\ FrameInv' /\ AddFramePic
           /\ pFramePics'[pCurFramePic].nlength = CurLength
           /\ CurLength > 0 => pFramePics'[pCurFramePic].pDataStartAddr
                                   = pFramePics[pCurFramePic].pDataStartAddr
           /\ \A i \in PicSlots \ {pCurFramePic} :
                pFramePics'[i] = pFramePics[i]
<1> USE FrameAssumption
<1>1. /\ pStream = NULL /\ pCurFramePic # NULL /\ pCurStream # NULL
      /\ pCurFramePic \in PicSlots
      /\ bStreamWithStartCode # -1 /\ ~Starting
      /\ CurLength \in Nat
      /\ CurPic \in [pDataStartAddr : Addresses \cup {NULL},
                     nlength : 0 .. nStreamBufferSize,
                     nalus : Seq(Nalu), bValidFlag : 0 .. 1]
      /\ CurPic.nlength = CurLength
      /\ CurLength > 0 => CurPic.pDataStartAddr
                              = pFramePics[pCurFramePic].pDataStartAddr
  <2>1. At("scan")
    BY DEF PictureFound
  <2> QED
    BY <2>1, ScanFacts
<1>2. pCurStreamData # <<"T">>
  <2>1. NaluPos # 0
    BY DEF PictureFound, Invalid
  <2>2. /\ NaluPos \in 1 .. Len(pCurStreamData)
        /\ pCurStreamData[NaluPos] \in Nalu
    BY <2>1, NaluFacts
  <2>3. SUFFICES ASSUME pCurStreamData = <<"T">> PROVE FALSE
    OBVIOUS
  <2>4. pCurStreamData[NaluPos] = "T"
    BY <2>2, <2>3
  <2> QED
    BY <2>2, <2>4 DEF Nalu
<1>3. /\ pFramePics' \in [PicSlots ->
             [pDataStartAddr : Addresses \cup {NULL},
              nlength : 0 .. nStreamBufferSize,
              nalus : Seq(Nalu), bValidFlag : 0 .. 1]]
      /\ pFramePics'[pCurFramePic] = CurPic
      /\ \A i \in PicSlots \ {pCurFramePic} :
           pFramePics'[i] = pFramePics[i]
  <2>1. pFramePics' = [pFramePics EXCEPT ![pCurFramePic] = CurPic]
    BY DEF PictureFound
  <2> QED
    BY <1>1, <2>1, PicPut
<1>4. /\ UNCHANGED <<frameFifo, pFrames, pCurStream, pCurStreamData, pStream,
                     bStreamWithStartCode, held, nEosFlag, ended,
                     pWriteAddr, nValidDataSize, ctl, messages, sem,
                     resetSem>>
      /\ thr = "read" /\ thr' = "count" /\ step' = "start"
      /\ bCurFrameStartCodeFound' = 0
      /\ AddFramePic
  BY DEF PictureFound, Return, ReadDone, At, ring, streams, player, mqVars
<1>5. /\ FifoAgrees(mFramePicFifo', nMaxFramePicNum)
      /\ pCurFramePic' = NULL /\ CurLength' = 0 /\ aborted' = aborted
  BY <1>1, <1>4, AddPicFacts
<1>6. HeldRead' /\ PicOpen'
  BY <1>1, <1>4, AddPicHeld
<1>7. TypeOK'
  BY <1>3, <1>4, <1>5 DEF TypeOK, ThreadTypeOK, FifoAgrees
<1>8. \A k : StreamSlot(k)' = StreamSlot(k)
  BY <1>4 DEF StreamSlot
<1>9. StreamRead' /\ AtPoints' /\ StreamsFit'
  BY <1>1, <1>4, <1>8 DEF FrameInv, StreamRead, OnlyRead, NoneRead, AtPoints,
     StreamsFit
<1>10. CurPicKnown'
  BY <1>2, <1>4, <1>5 DEF CurPicKnown
<1>11. TypeUnknown'
  BY <1>1, <1>4 DEF TypeUnknown, Starting
<1>12. FifosAgree' /\ NoAbort'
  BY <1>4, <1>5 DEF FrameInv, FifosAgree, NoAbort
<1> QED
  BY <1>1, <1>3, <1>4, <1>6, <1>7, <1>9, <1>10, <1>11, <1>12 DEF FrameInv

\* The rest of a stream without a NAL unit goes with the picture.
LEMMA DisposeKeeps ==
    ASSUME TypeOK, FrameInv, Fits, DisposeInvalidStreamData
    PROVE  /\ TypeOK' /\ FrameInv'
           /\ CurLength' = CurLength + Len(pCurStreamData)
           /\ pFramePics'[pCurFramePic].pDataStartAddr = CurPic.pDataStartAddr
           /\ \A i \in PicSlots \ {pCurFramePic} :
                pFramePics'[i] = pFramePics[i]
<1> USE FrameAssumption
<1>1. /\ pStream = NULL /\ pCurFramePic # NULL /\ pCurStream # NULL
      /\ pCurFramePic \in PicSlots /\ pCurStream \in StreamSlots
      /\ OnlyRead(frameFifo, pCurStream)
      /\ bStreamWithStartCode # -1 /\ ~Starting
      /\ Len(pCurStreamData) \in Nat /\ Len(pCurStreamData) > 0
      /\ CurLength \in Nat
      /\ CurLength + Len(pCurStreamData) <= nValidDataSize
      /\ nValidDataSize \in 0 .. nStreamBufferSize
      /\ CurPic \in [pDataStartAddr : Addresses,
                     nlength : 0 .. nStreamBufferSize,
                     nalus : Seq(Nalu), bValidFlag : 0 .. 1]
      /\ CurPic.nlength = CurLength
  BY ScanFacts DEF DisposeInvalidStreamData
<1>2. /\ FifoAgrees(frameFifo', nMaxFrameNum) /\ NoneRead(frameFifo')
      /\ pFrames' \in [StreamSlots -> [pData : Addresses \cup {NULL},
                                       units : Seq(Units)]]
      /\ nValidDataSize' = nValidDataSize
      /\ aborted' = aborted
  <2>1. FlushStream(pCurStream, FALSE)
    BY DEF DisposeInvalidStreamData
  <2> QED
    BY <1>1, <2>1, FlushStreamFacts
<1>3. /\ DisposedPic \in [pDataStartAddr : Addresses \cup {NULL},
                          nlength : 0 .. nStreamBufferSize,
                          nalus : Seq(Nalu), bValidFlag : 0 .. 1]
      /\ DisposedPic.nlength = CurLength + Len(pCurStreamData)
      /\ DisposedPic.pDataStartAddr = CurPic.pDataStartAddr
      /\ DisposedPic.pDataStartAddr # NULL
  <2>1. ASSUME NEW c \in [pDataStartAddr : Addresses,
                          nlength : 0 .. nStreamBufferSize,
                          nalus : Seq(Nalu), bValidFlag : 0 .. 1],
               NEW l \in 0 .. nStreamBufferSize, NEW w,
               NEW q, q = [c EXCEPT !.nlength = l,
                                    !.bValidFlag = IF w THEN 0 ELSE @]
        PROVE  /\ q \in [pDataStartAddr : Addresses,
                         nlength : 0 .. nStreamBufferSize,
                         nalus : Seq(Nalu), bValidFlag : 0 .. 1]
               /\ q.nlength = l /\ q.pDataStartAddr = c.pDataStartAddr
    <3> DEFINE b == IF w THEN 0 ELSE c.bValidFlag
    <3>1. b \in 0 .. 1
      OBVIOUS
    <3>2. q = [c EXCEPT !.nlength = l, !.bValidFlag = b]
      BY <2>1, Zenon
    <3> HIDE DEF b
    <3> QED
      BY <3>1, <3>2
  <2> DEFINE l == CurPic.nlength + Len(pCurStreamData)
             w == \/ pCurStreamData = pFrames[pCurStream].units
                        /\ CurPic.nlength = 0
                  \/ l > MaxInvalid
  <2>2. l \in 0 .. nStreamBufferSize /\ l = CurLength + Len(pCurStreamData)
    BY <1>1
  <2>3. DisposedPic = [CurPic EXCEPT !.nlength = l,
                                     !.bValidFlag = IF w THEN 0 ELSE @]
    BY Zenon DEF DisposedPic
  <2> HIDE DEF l, w
  <2>5. /\ DisposedPic \in [pDataStartAddr : Addresses,
                            nlength : 0 .. nStreamBufferSize,
                            nalus : Seq(Nalu), bValidFlag : 0 .. 1]
        /\ DisposedPic.nlength = l
        /\ DisposedPic.pDataStartAddr = CurPic.pDataStartAddr
    BY <1>1, <2>1, <2>2, <2>3
  <2>6. DisposedPic.pDataStartAddr \in Addresses /\ NULL \notin Addresses
    BY <2>5 DEF Addresses, NULL
  <2> QED
    BY <2>2, <2>5, <2>6
<1>4. /\ pFramePics' \in [PicSlots ->
             [pDataStartAddr : Addresses \cup {NULL},
              nlength : 0 .. nStreamBufferSize,
              nalus : Seq(Nalu), bValidFlag : 0 .. 1]]
      /\ pFramePics'[pCurFramePic] = DisposedPic
      /\ \A i \in PicSlots \ {pCurFramePic} :
           pFramePics'[i] = pFramePics[i]
  <2>1. pFramePics' = [pFramePics EXCEPT ![pCurFramePic] = DisposedPic]
    BY DEF DisposeInvalidStreamData
  <2> QED
    BY <1>1, <1>3, <2>1, PicPut
<1>5. /\ UNCHANGED <<mFramePicFifo, pStream, bStreamWithStartCode,
                     pCurFramePic, bCurFrameStartCodeFound, held, nEosFlag,
                     ended, pWriteAddr, ctl, messages, sem, resetSem>>
      /\ pCurStream' = NULL /\ pCurStreamData' = <<>>
      /\ \/ step' = "disposed" /\ thr = "read" /\ thr' = "read"
         \/ step' = "start" /\ thr = "read" /\ thr' = "count"
  BY DEF DisposeInvalidStreamData, Return, ReadDone, GoTo, At, player,
     threadVars, mqVars
<1>6. CurLength' = CurLength + Len(pCurStreamData)
  BY <1>1, <1>3, <1>4, <1>5 DEF CurLength
<1>7. TypeOK'
  <2>1. /\ frameFifo' \in Fifos(nMaxFrameNum)
        /\ pCurStreamData' \in Seq(Units)
        /\ pCurStream' \in StreamSlots \cup {NULL}
    BY <1>2, <1>5 DEF FifoAgrees
  <2> QED
    BY <1>2, <1>4, <1>5, <2>1 DEF TypeOK, ThreadTypeOK
<1>8. FifosAgree' /\ HeldRead' /\ PicOpen'
  BY <1>1, <1>2, <1>5 DEF FrameInv, FifosAgree, HeldRead, OnlyRead, NoneRead,
     PicOpen
<1>9. StreamRead' /\ AtPoints'
  BY <1>1, <1>2, <1>5 DEF StreamRead, AtPoints
<1>10. StreamsFit'
  <2>1. FlushStream(pCurStream, FALSE)
    BY DEF DisposeInvalidStreamData
  <2> QED
    BY <1>1, <1>5, <2>1, FlushStreamFits
<1>11. CurPicKnown'
  <2>1. CurLength' # 0
    BY <1>1, <1>6
  <2> QED
    BY <1>3, <1>4, <1>5, <2>1 DEF CurPicKnown
<1>12. TypeUnknown'
  BY <1>1, <1>5 DEF TypeUnknown, Starting
<1> QED
  BY <1>2, <1>3, <1>4, <1>6, <1>7, <1>8, <1>9, <1>10, <1>11, <1>12 DEF
     FrameInv, NoAbort

\* An invalid picture is handed over.
LEMMA AddInvalidKeeps ==
    ASSUME TypeOK, FrameInv, AddInvalidPic
    PROVE  TypeOK' /\ FrameInv'
<1> USE FrameAssumption
<1>1. /\ pStream = NULL /\ pCurStream = NULL /\ pCurStreamData = <<>>
      /\ pCurFramePic # NULL
      /\ bStreamWithStartCode # -1 /\ ~Starting
  BY DEF FrameInv, StreamRead, AtPoints, PicOpen, TypeUnknown, AddInvalidPic,
     At
<1>2. /\ UNCHANGED <<frameFifo, pFrames, pFramePics, pCurStream,
                     pCurStreamData, pStream, bStreamWithStartCode,
                     bCurFrameStartCodeFound, held, nEosFlag, ended,
                     pWriteAddr, nValidDataSize, ctl, messages, sem,
                     resetSem>>
      /\ thr = "read" /\ thr' = "count" /\ step' = "start"
      /\ AddFramePic
  BY DEF AddInvalidPic, Return, ReadDone, At, ring, streams, player, mqVars
<1>3. /\ FifoAgrees(mFramePicFifo', nMaxFramePicNum)
      /\ pCurFramePic' = NULL /\ CurLength' = 0 /\ aborted' = aborted
  BY <1>1, <1>2, AddPicFacts
<1>4. HeldRead' /\ PicOpen'
  BY <1>1, <1>2, AddPicHeld
<1>5. TypeOK'
  BY <1>2, <1>3 DEF TypeOK, ThreadTypeOK, FifoAgrees
<1>6. \A k : StreamSlot(k)' = StreamSlot(k)
  BY <1>2 DEF StreamSlot
<1>7. StreamRead' /\ AtPoints' /\ StreamsFit'
  BY <1>1, <1>2, <1>6 DEF FrameInv, StreamRead, NoneRead, AtPoints,
     StreamsFit
<1>8. CurPicKnown'
  BY <1>1, <1>2, <1>3 DEF CurPicKnown
<1>9. TypeUnknown'
  BY <1>1, <1>2 DEF TypeUnknown, Starting
<1> QED
  BY <1>2, <1>3, <1>4, <1>5, <1>7, <1>8, <1>9 DEF FrameInv, FifosAgree,
     NoAbort

-----------------------------------------------------------------------------
(* The reset. *)

\* The reset gives back the current stream.
LEMMA ResetFlushKeeps ==
    ASSUME TypeOK, FrameInv, ResetFlush
    PROVE  TypeOK' /\ FrameInv'
<1> USE FrameAssumption
<1>1. /\ pStream = NULL /\ pCurStream # NULL /\ pCurStream \in StreamSlots
      /\ OnlyRead(frameFifo, pCurStream) /\ step = "start"
      /\ bStreamWithStartCode # -1 /\ ~Starting
  BY DEF FrameInv, StreamRead, AtPoints, TypeUnknown, TypeOK, ResetFlush
<1>2. /\ UNCHANGED <<pWriteAddr, mFramePicFifo, pFramePics, pCurFramePic,
                     bStreamWithStartCode, pCurStreamData,
                     bCurFrameStartCodeFound, pStream, step, held, nEosFlag,
                     ended, messages, sem, resetSem, thr, ctl>>
      /\ pCurStream' = NULL /\ thr = "reset"
      /\ FlushStream(pCurStream, FALSE)
  BY DEF ResetFlush, pictures, player, threadVars, mqVars
<1>3. /\ FifoAgrees(frameFifo', nMaxFrameNum) /\ NoneRead(frameFifo')
      /\ pFrames' \in [StreamSlots -> [pData : Addresses \cup {NULL},
                                       units : Seq(Units)]]
      /\ nValidDataSize' = nValidDataSize
      /\ aborted' = aborted
  BY <1>1, <1>2, FlushStreamFacts
<1>4. TypeOK'
  BY <1>2, <1>3 DEF TypeOK, ThreadTypeOK, FifoAgrees
<1>5. FifosAgree' /\ HeldRead' /\ PicOpen'
  BY <1>2, <1>3 DEF FrameInv, FifosAgree, HeldRead, OnlyRead, NoneRead,
     PicOpen
<1>6. StreamRead' /\ AtPoints'
  BY <1>1, <1>2, <1>3 DEF StreamRead, AtPoints
<1>7. StreamsFit'
  BY <1>1, <1>2, FlushStreamFits
<1>8. CurPicKnown'
  <2>1. CurLength' = CurLength
    BY <1>2 DEF CurLength
  <2> QED
    BY <1>2, <2>1 DEF FrameInv, CurPicKnown
<1>9. TypeUnknown'
  BY <1>1, <1>2 DEF TypeUnknown, Starting
<1> QED
  BY <1>3, <1>4, <1>5, <1>6, <1>7, <1>8, <1>9 DEF FrameInv, NoAbort

\* And empties everything: the decoder has given back its picture, for the
\* control thread waits for the answer.
LEMMA ResetAllKeeps ==
    ASSUME TypeOK, FrameInv, ThreadInv, ResetAll
    PROVE  TypeOK' /\ FrameInv'
<1> USE FrameAssumption
<1>1. ctl \in {"resetSem", "resetWait"}
  BY DEF ThreadInv, QueueShape, ResetAll, Undisturbed, Requested, Taken,
     Answered, Renewed, Reading
<1>2. /\ pStream = NULL /\ step = "start" /\ held = NULL /\ ~Starting
  BY <1>1 DEF FrameInv, StreamRead, AtPoints, HeldRead, ResetAll, Starting
<1>3. /\ UNCHANGED <<bStreamWithStartCode, pCurStream, pStream, step, held,
                     nEosFlag, ended, messages, sem, resetSem, ctl, aborted>>
      /\ thr' = "reply"
      /\ pCurStream = NULL /\ pCurFramePic' = NULL /\ pCurStreamData' = <<>>
      /\ frameFifo' = EmptyFifo /\ mFramePicFifo' = EmptyFifo
      /\ pWriteAddr' = 0 /\ nValidDataSize' = 0
      /\ bCurFrameStartCodeFound' = 0
      /\ pFrames' = [i \in StreamSlots |-> NoStream]
      /\ pFramePics' = [i \in PicSlots |-> NoPic]
  BY DEF ResetAll, ResetDone, PicAfterReset, player, mqVars
<1>4. /\ FifoAgrees(EmptyFifo, nMaxFrameNum)
      /\ FifoAgrees(EmptyFifo, nMaxFramePicNum)
      /\ NoneRead(EmptyFifo) /\ EmptyFifo.nValidNum = 0
  BY FifoEmpty DEF EmptyFifo
<1>5. CurLength' = 0
  BY <1>3 DEF CurLength
<1>6. TypeOK'
  <2>1. /\ pFramePics' \in [PicSlots ->
               [pDataStartAddr : Addresses \cup {NULL},
                nlength : 0 .. nStreamBufferSize,
                nalus : Seq(Nalu), bValidFlag : 0 .. 1]]
        /\ pFrames' \in [StreamSlots -> [pData : Addresses \cup {NULL},
                                         units : Seq(Units)]]
    BY <1>3 DEF NoPic, NoStream
  <2>2. /\ pWriteAddr' \in Addresses
        /\ nValidDataSize' \in 0 .. nStreamBufferSize
        /\ pCurStreamData' \in Seq(Units)
    BY <1>3 DEF Addresses
  <2> QED
    BY <1>3, <1>4, <2>1, <2>2 DEF TypeOK, ThreadTypeOK, FifoAgrees
<1>7. FifosAgree' /\ HeldRead' /\ PicOpen'
  BY <1>2, <1>3, <1>4 DEF FifosAgree, HeldRead, PicOpen
<1>8. StreamRead' /\ AtPoints'
  BY <1>2, <1>3, <1>4 DEF StreamRead, AtPoints
<1>9. StreamsFit'
  BY <1>3, <1>4 DEF StreamsFit, NoStream
<1>10. CurPicKnown'
  BY <1>2, <1>3 DEF CurPicKnown
<1>11. TypeUnknown'
  BY <1>2, <1>3, <1>4, <1>5 DEF TypeUnknown, Starting
<1> QED
  BY <1>3, <1>6, <1>7, <1>8, <1>9, <1>10, <1>11 DEF FrameInv, NoAbort

-----------------------------------------------------------------------------
(* The messages between the threads. *)

\* What the steps of the handshake change concerns what the detector and the
\* decoder have only through the points of the two threads.
LEMMA HandshakeKeeps ==
    ASSUME TypeOK, FrameInv, ThreadTypeOK',
           UNCHANGED <<ring, streams, pictures, bStreamWithStartCode, detect,
                       pStream, step, held, nEosFlag, aborted>>,
           ended' \in BOOLEAN,
           ctl' # "idle" => held = NULL,
           thr' # "read" => step = "start",
           thr = "reset" => thr' = "reset",
           Starting' => Starting
    PROVE  TypeOK' /\ FrameInv'
<1>1. UNCHANGED <<pWriteAddr, nValidDataSize, frameFifo, pFrames,
                  mFramePicFifo, pFramePics, bStreamWithStartCode,
                  pCurFramePic, pCurStream, pCurStreamData,
                  bCurFrameStartCodeFound, pStream, step, held, nEosFlag,
                  aborted>>
  BY DEF ring, streams, pictures, detect
<1>2. TypeOK'
  BY <1>1 DEF TypeOK
<1>3. CurLength' = CurLength /\ \A k : StreamSlot(k)' = StreamSlot(k)
  BY <1>1 DEF CurLength, StreamSlot
<1>4. FifosAgree' /\ HeldRead' /\ PicOpen' /\ NoAbort'
  BY <1>1 DEF FrameInv, FifosAgree, HeldRead, OnlyRead, NoneRead, PicOpen,
     NoAbort
<1>5. StreamRead' /\ AtPoints'
  BY <1>1 DEF FrameInv, StreamRead, OnlyRead, NoneRead, AtPoints
<1>6. StreamsFit'
  BY <1>1, <1>3 DEF FrameInv, StreamsFit
<1>7. CurPicKnown'
  BY <1>1, <1>3 DEF FrameInv, CurPicKnown
<1>8. TypeUnknown'
  <2>1. Starting => TypeUnknown
    BY DEF FrameInv
  <2> QED
    BY <1>1, <1>3 DEF FrameInv, TypeUnknown
<1> QED
  BY <1>2, <1>4, <1>5, <1>6, <1>7, <1>8 DEF FrameInv

\* The detector's steps through the queue.
LEMMA MessagesKeep ==
    ASSUME TypeOK, FrameInv, ThreadTypeOK', Messages
    PROVE  TypeOK' /\ FrameInv' /\ thr # "reset"
<1>1. UNCHANGED frameVars /\ UNCHANGED ctl /\ thr \notin {"read", "reset"}
  BY DEF Messages, GetMessage, CountMessages, PostRead, PostReadSem,
     ResetReply
<1>2. /\ UNCHANGED <<ring, streams, pictures, bStreamWithStartCode, detect,
                     pStream, step, held, nEosFlag, aborted, ended>>
      /\ ended' \in BOOLEAN
  BY <1>1 DEF frameVars, player, TypeOK
<1>3. step = "start" /\ (ctl' # "idle" => held = NULL)
  BY <1>1 DEF FrameInv, AtPoints, HeldRead
<1>4. Starting' => Starting
  BY <1>1 DEF Starting
<1> QED
  BY <1>1, <1>2, <1>3, <1>4, HandshakeKeeps

\* The calls of the control thread.
LEMMA CallsKeep ==
    ASSUME TypeOK, FrameInv, ThreadTypeOK',
           ResetCall \/ DestroyCall \/ Calls
    PROVE  TypeOK' /\ FrameInv'
<1>1. /\ UNCHANGED <<ring, streams, pictures, bStreamWithStartCode, detect,
                     pStream, step, held, nEosFlag, aborted>>
      /\ ended' \in BOOLEAN
  BY DEF ResetCall, DestroyCall, Calls, frameVars, player, TypeOK
<1>2. UNCHANGED thr
  BY DEF ResetCall, DestroyCall, Calls, InitRead, InitReadSem, PostReset,
     PostResetSem, ResetWait, ResetRead, ResetReadSem, PostQuit, PostQuitSem,
     Join, Post, PostSem
<1>3. /\ ctl = "idle" => held = NULL
      /\ Starting' => Starting
  BY DEF ResetCall, DestroyCall, Calls, InitRead, InitReadSem, PostReset,
     PostResetSem, ResetWait, ResetRead, ResetReadSem, PostQuit, PostQuitSem,
     Join, Post, PostSem, Starting
<1>4. held = NULL /\ (thr' # "read" => step = "start")
  BY <1>2, <1>3 DEF FrameInv, AtPoints, HeldRead
<1> QED
  BY <1>1, <1>2, <1>3, <1>4, HandshakeKeeps

\* SbmFrameInit makes the type unknown: nothing has begun yet.
LEMMA InitTypeKeeps ==
    ASSUME TypeOK, FrameInv, ThreadTypeOK', InitType
    PROVE  TypeOK' /\ FrameInv'
<1>1. /\ UNCHANGED <<pWriteAddr, nValidDataSize, frameFifo, pFrames,
                     mFramePicFifo, pFramePics, pCurFramePic, pCurStream,
                     pCurStreamData, bCurFrameStartCodeFound, pStream, step,
                     held, nEosFlag, ended, aborted, thr>>
      /\ bStreamWithStartCode' = -1 /\ Starting /\ ctl' = "idle"
  BY DEF InitType, InitDone, ring, streams, pictures, detect, player,
     Starting
<1>2. TypeOK'
  BY <1>1 DEF TypeOK
<1>3. CurLength' = CurLength /\ \A k : StreamSlot(k)' = StreamSlot(k)
  BY <1>1 DEF CurLength, StreamSlot
<1>4. FifosAgree' /\ HeldRead' /\ PicOpen' /\ NoAbort'
  BY <1>1 DEF FrameInv, FifosAgree, HeldRead, OnlyRead, NoneRead, PicOpen,
     NoAbort
<1>5. StreamRead' /\ AtPoints'
  BY <1>1 DEF FrameInv, StreamRead, OnlyRead, NoneRead, AtPoints
<1>6. StreamsFit'
  BY <1>1, <1>3 DEF FrameInv, StreamsFit
<1>7. CurPicKnown'
  BY <1>1, <1>3 DEF FrameInv, CurPicKnown
<1>8. TypeUnknown'
  <2>1. ~ Starting'
    BY <1>1 DEF Starting
  <2> QED
    BY <1>1, <1>3, <2>1 DEF FrameInv, TypeUnknown
<1> QED
  BY <1>2, <1>4, <1>5, <1>6, <1>7, <1>8 DEF FrameInv

-----------------------------------------------------------------------------
(* How the pictures and the streams lie in the ring: p and s are the bytes *)
(* in front of each picture and of each stream.                            *)

PicAt(k, m) == PicLength(k) > 0 => PicAddr(k) = RingAddr(m)

CurAt(m) ==
    CurLength > 0 => pFramePics[pCurFramePic].pDataStartAddr = RingAddr(m)

StreamAt(k, m) == StreamLength(k) > 0 => StreamAddr(k) = RingAddr(m)

Laid(p, s) ==
    /\ p \in [0 .. mFramePicFifo.nValidNum -> Nat]
    /\ s \in [0 .. frameFifo.nValidNum -> Nat]
    /\ p[0] = 0
    /\ \A k \in 0 .. mFramePicFifo.nValidNum - 1 :
         p[k + 1] = p[k] + PicLength(k) /\ PicAt(k, p[k])
    /\ s[0] = p[mFramePicFifo.nValidNum] + CurLength
    /\ CurAt(p[mFramePicFifo.nValidNum])
    /\ \A k \in 0 .. frameFifo.nValidNum - 1 :
         s[k + 1] = s[k] + StreamLength(k) /\ StreamAt(k, s[k])
    /\ s[frameFifo.nValidNum] = nValidDataSize

Layout ==
    thr # "reset" => /\ nValidDataSize < nStreamBufferSize
                     /\ \E p, s : Laid(p, s)

\* Sums of lengths grow.
LEMMA SumsGrow ==
    ASSUME NEW n \in Nat, NEW f \in [0 .. n -> Nat],
           \A k \in 0 .. n - 1 : f[k] <= f[k + 1]
    PROVE  \A j, k \in 0 .. n : j <= k => f[j] <= f[k]
<1> SUFFICES ASSUME NEW j \in 0 .. n,
                    {k \in 0 .. n : j <= k /\ ~ (f[j] <= f[k])} # {}
             PROVE  FALSE
  OBVIOUS
<1> DEFINE T == {k \in 0 .. n : j <= k /\ ~ (f[j] <= f[k])}
<1>1. T \subseteq Nat /\ T # {}
  OBVIOUS
<1>2. PICK k \in T : \A i \in T : k <= i
  <2> HIDE DEF T
  <2> QED
    BY <1>1, LeastNumber
<1>3. k \in 0 .. n /\ j < k /\ ~ (f[j] <= f[k])
  BY <1>2
<1>4. k - 1 \in 0 .. n - 1 /\ j <= k - 1 /\ k - 1 \notin T
  BY <1>2, <1>3
<1>5. f[j] <= f[k - 1] /\ f[k - 1] <= f[k]
  BY <1>4
<1> QED
  BY <1>3, <1>4, <1>5

\* The lengths are numbers.
LEMMA Lengths ==
    ASSUME TypeOK, FrameInv
    PROVE  /\ \A k \in 0 .. mFramePicFifo.nValidNum - 1 : PicLength(k) \in Nat
           /\ CurLength \in Nat
           /\ \A k \in 0 .. frameFifo.nValidNum - 1 : StreamLength(k) \in Nat
<1> USE FrameAssumption
<1>1. ASSUME NEW k \in 0 .. mFramePicFifo.nValidNum - 1
      PROVE  PicLength(k) \in Nat
  <2>1. PicSlot(k) \in PicSlots
    BY PicFifo
  <2> QED
    BY <2>1 DEF PicLength, TypeOK
<1>2. CurLength \in Nat
  BY DEF CurLength, TypeOK
<1>3. ASSUME NEW k \in 0 .. frameFifo.nValidNum - 1
      PROVE  StreamLength(k) \in Nat
  <2>1. StreamSlot(k) \in StreamSlots
    BY StreamFifo
  <2>2. Len(pFrames[StreamSlot(k)].units) \in Nat
    BY <2>1 DEF TypeOK
  <2>3. Len(pCurStreamData) \in Nat
    BY DEF TypeOK
  <2> QED
    BY <2>2, <2>3 DEF StreamLength
<1> QED
  BY <1>1, <1>2, <1>3

\* What lies in the ring lies in front of pWriteAddr.
LEMMA LaidGrows ==
    ASSUME TypeOK, FrameInv, NEW p, NEW s, Laid(p, s)
    PROVE  /\ \A k \in 0 .. mFramePicFifo.nValidNum :
                p[k] \in Nat /\ p[k] <= p[mFramePicFifo.nValidNum]
           /\ p[mFramePicFifo.nValidNum] + CurLength <= nValidDataSize
           /\ \A k \in 0 .. frameFifo.nValidNum :
                s[k] \in Nat /\ s[0] <= s[k] /\ s[k] <= nValidDataSize
<1> PICK n \in Nat : n = mFramePicFifo.nValidNum
  BY PicFifo
<1> PICK v \in Nat : v = frameFifo.nValidNum
  BY StreamFifo
<1>1. p \in [0 .. n -> Nat] /\ s \in [0 .. v -> Nat]
  BY DEF Laid
<1>2. /\ \A k \in 0 .. n - 1 : p[k] <= p[k + 1]
      /\ \A k \in 0 .. v - 1 : s[k] <= s[k + 1]
  <2>1. /\ \A k \in 0 .. n - 1 : PicLength(k) \in Nat
        /\ \A k \in 0 .. v - 1 : StreamLength(k) \in Nat
    BY Lengths
  <2>2. /\ \A k \in 0 .. n - 1 : p[k + 1] = p[k] + PicLength(k)
        /\ \A k \in 0 .. v - 1 : s[k + 1] = s[k] + StreamLength(k)
    BY DEF Laid
  <2>3. ASSUME NEW k \in 0 .. n - 1 PROVE p[k] <= p[k + 1]
    <3>1. p[k] \in Nat
      BY <1>1
    <3>2. PicLength(k) \in Nat /\ p[k + 1] = p[k] + PicLength(k)
      BY <2>1, <2>2
    <3> QED
      BY <3>1, <3>2
  <2>4. ASSUME NEW k \in 0 .. v - 1 PROVE s[k] <= s[k + 1]
    <3>1. s[k] \in Nat
      BY <1>1
    <3>2. StreamLength(k) \in Nat /\ s[k + 1] = s[k] + StreamLength(k)
      BY <2>1, <2>2
    <3> QED
      BY <3>1, <3>2
  <2> QED
    BY <2>3, <2>4
<1>3. /\ \A j, k \in 0 .. n : j <= k => p[j] <= p[k]
      /\ \A j, k \in 0 .. v : j <= k => s[j] <= s[k]
  BY <1>1, <1>2, SumsGrow
<1>4. s[0] = p[n] + CurLength /\ s[v] = nValidDataSize
  BY DEF Laid
<1> QED
  BY <1>1, <1>3, <1>4

\* The layout bounds the sizes.
LEMMA LayoutFits ==
    ASSUME TypeOK, FrameInv, Layout, thr # "reset"
    PROVE  Fits
<1> USE FrameAssumption
<1>1. PICK p, s : Laid(p, s)
  BY DEF Layout
<1> PICK n \in Nat : n = mFramePicFifo.nValidNum
  BY PicFifo
<1> PICK v \in Nat : v = frameFifo.nValidNum
  BY StreamFifo
<1>2. /\ \A k \in 0 .. n : p[k] \in Nat /\ p[k] <= p[n]
      /\ p[n] + CurLength <= nValidDataSize
      /\ \A k \in 0 .. v :
           s[k] \in Nat /\ s[0] <= s[k] /\ s[k] <= nValidDataSize
      /\ CurLength \in Nat /\ nValidDataSize \in Nat
  BY <1>1, LaidGrows, Lengths DEF TypeOK
<1>3. n > 0 => PicLength(0) <= nValidDataSize
  <2> SUFFICES ASSUME n > 0 PROVE PicLength(0) <= nValidDataSize
    OBVIOUS
  <2>1. p[0 + 1] = p[0] + PicLength(0) /\ p[0] = 0 /\ PicLength(0) \in Nat
    BY <1>1, Lengths DEF Laid
  <2>2. p[1] <= p[n] /\ p[1] \in Nat /\ p[n] \in Nat
    BY <1>2
  <2> QED
    BY <1>2, <2>1, <2>2
<1>4. v > 0 => /\ StreamLength(0) \in Nat
               /\ CurLength + StreamLength(0) <= nValidDataSize
  <2> SUFFICES ASSUME v > 0
               PROVE  /\ StreamLength(0) \in Nat
                      /\ CurLength + StreamLength(0) <= nValidDataSize
    OBVIOUS
  <2>1. /\ s[0 + 1] = s[0] + StreamLength(0) /\ StreamLength(0) \in Nat
        /\ s[0] = p[n] + CurLength
    BY <1>1, Lengths DEF Laid
  <2>2. s[1] <= nValidDataSize /\ p[n] \in Nat
    BY <1>2
  <2> QED
    BY <1>2, <2>1, <2>2
<1>5. pCurStream # NULL =>
         v > 0 /\ StreamLength(0) = Len(pCurStreamData)
  BY StreamFifo DEF FrameInv, StreamRead, OnlyRead, StreamLength
<1> QED
  BY <1>2, <1>3, <1>4, <1>5 DEF Fits, Layout

-----------------------------------------------------------------------------
(* Addresses in the ring. *)

\* The oldest byte has an address, and the next byte is written behind the
\* youngest one.
LEMMA RingFacts ==
    ASSUME TypeOK, nValidDataSize < nStreamBufferSize
    PROVE  /\ FirstAddr \in Addresses
           /\ RingAddr(nValidDataSize) = pWriteAddr
           /\ \A m, e \in Nat :
                m + e <= nValidDataSize =>
                    WrapAddr(RingAddr(m) + e) = RingAddr(m + e)
<1> USE FrameAssumption
<1>1. /\ pWriteAddr \in 0 .. nStreamBufferSize - 1
      /\ nValidDataSize \in 0 .. nStreamBufferSize - 1
  BY DEF TypeOK, Addresses
<1>2. /\ FirstAddr \in 0 .. nStreamBufferSize - 1
      /\ FirstAddr = pWriteAddr - nValidDataSize
         \/ FirstAddr = pWriteAddr - nValidDataSize + nStreamBufferSize
  BY <1>1 DEF FirstAddr
<1>3. RingAddr(nValidDataSize) = pWriteAddr
  BY <1>1, <1>2 DEF RingAddr, WrapAddr
<1>4. \A m, e \in Nat :
         m + e <= nValidDataSize =>
             WrapAddr(RingAddr(m) + e) = RingAddr(m + e)
  BY <1>1, <1>2 DEF RingAddr, WrapAddr
<1> QED
  BY <1>2, <1>3, <1>4 DEF Addresses

\* Bytes are added behind them all,
LEMMA RingGrown ==
    ASSUME TypeOK, NEW c \in Nat, nValidDataSize + c < nStreamBufferSize,
           pWriteAddr' = WrapAddr(pWriteAddr + c),
           nValidDataSize' = nValidDataSize + c
    PROVE  \A m : RingAddr(m)' = RingAddr(m)
<1> USE FrameAssumption
<1>1. /\ pWriteAddr \in 0 .. nStreamBufferSize - 1
      /\ nValidDataSize \in 0 .. nStreamBufferSize - 1
  BY DEF TypeOK, Addresses
<1>2. FirstAddr' = FirstAddr
  BY <1>1 DEF FirstAddr, WrapAddr
<1> QED
  BY <1>2 DEF RingAddr, WrapAddr

\* and taken away in front of the others.
LEMMA RingShrunk ==
    ASSUME TypeOK, NEW c \in Nat, c <= nValidDataSize,
           nValidDataSize < nStreamBufferSize,
           pWriteAddr' = pWriteAddr,
           nValidDataSize' = nValidDataSize - c
    PROVE  \A m \in Nat :
              m + c <= nValidDataSize => RingAddr(m)' = RingAddr(m + c)
<1> USE FrameAssumption
<1>1. /\ pWriteAddr \in 0 .. nStreamBufferSize - 1
      /\ nValidDataSize \in 0 .. nStreamBufferSize - 1
  BY DEF TypeOK, Addresses
<1>2. FirstAddr' = WrapAddr(FirstAddr + c)
  BY <1>1 DEF FirstAddr, WrapAddr
<1>3. FirstAddr \in 0 .. nStreamBufferSize - 1
  BY <1>1 DEF FirstAddr
<1> QED
  BY <1>1, <1>2, <1>3 DEF RingAddr, WrapAddr

-----------------------------------------------------------------------------
(* What the steps do to the layout. *)

\* Nothing has moved.
LEMMA LayoutSame ==
    ASSUME Layout, thr = "reset" => thr' = "reset",
           UNCHANGED <<pWriteAddr, nValidDataSize>>,
           mFramePicFifo'.nValidNum = mFramePicFifo.nValidNum,
           frameFifo'.nValidNum = frameFifo.nValidNum,
           \A k \in 0 .. mFramePicFifo.nValidNum - 1 :
              PicLength(k)' = PicLength(k) /\ PicAddr(k)' = PicAddr(k),
           CurLength' = CurLength,
           CurLength > 0 => pFramePics'[pCurFramePic'].pDataStartAddr
                                = pFramePics[pCurFramePic].pDataStartAddr,
           \A k \in 0 .. frameFifo.nValidNum - 1 :
              /\ StreamLength(k)' = StreamLength(k)
              /\ StreamLength(k) > 0 => StreamAddr(k)' = StreamAddr(k)
    PROVE  Layout'
<1> SUFFICES ASSUME thr' # "reset" PROVE Layout'
  BY DEF Layout
<1>1. PICK p, s : Laid(p, s)
  BY DEF Layout
<1>2. \A m : RingAddr(m)' = RingAddr(m)
  BY DEF RingAddr, FirstAddr
<1>3. CurAt(p[mFramePicFifo.nValidNum])'
  BY <1>1, <1>2 DEF Laid, CurAt
<1>4. ASSUME NEW k \in 0 .. mFramePicFifo.nValidNum - 1
      PROVE  /\ p[k + 1] = p[k] + PicLength(k)'
             /\ PicAt(k, p[k])'
  BY <1>1, <1>2 DEF Laid, PicAt
<1>5. ASSUME NEW k \in 0 .. frameFifo.nValidNum - 1
      PROVE  /\ s[k + 1] = s[k] + StreamLength(k)'
             /\ StreamAt(k, s[k])'
  BY <1>1, <1>2 DEF Laid, StreamAt
<1>6. Laid(p, s)'
  BY <1>1, <1>3, <1>4, <1>5 DEF Laid
<1> QED
  BY <1>6 DEF Layout

\* The pictures of the fifo,
LEMMA PicsSame ==
    ASSUME UNCHANGED pFramePics, \A k : PicSlot(k)' = PicSlot(k)
    PROVE  \A k : PicLength(k)' = PicLength(k) /\ PicAddr(k)' = PicAddr(k)
BY DEF PicLength, PicAddr

\* those but the one being made,
LEMMA OtherPicsSame ==
    ASSUME TypeOK, FrameInv, pCurFramePic # NULL,
           \A k : PicSlot(k)' = PicSlot(k),
           \A i \in PicSlots \ {pCurFramePic} : pFramePics'[i] = pFramePics[i]
    PROVE  \A k \in 0 .. mFramePicFifo.nValidNum - 1 :
              PicLength(k)' = PicLength(k) /\ PicAddr(k)' = PicAddr(k)
<1> USE FrameAssumption
<1> PICK n \in Nat : n = mFramePicFifo.nValidNum
  BY PicFifo
<1>1. n < nMaxFramePicNum /\ pCurFramePic = PicSlot(n)
  BY PicFifo DEF FrameInv, PicOpen
<1>2. ASSUME NEW k \in 0 .. n - 1
      PROVE  PicLength(k)' = PicLength(k) /\ PicAddr(k)' = PicAddr(k)
  <2>1. /\ k \in 0 .. nMaxFramePicNum - 1 /\ n \in 0 .. nMaxFramePicNum - 1
        /\ k # n
    BY <1>1
  <2>2. PicSlot(k) \in PicSlots /\ PicSlot(k) # PicSlot(n)
    BY <2>1, PicFifo
  <2>3. pFramePics'[PicSlot(k)] = pFramePics[PicSlot(k)]
    BY <1>1, <2>2
  <2> QED
    BY <2>3 DEF PicLength, PicAddr
<1> QED
  BY <1>2

\* and the streams lie where they lay,
LEMMA StreamsSame ==
    ASSUME UNCHANGED <<pFrames, pCurStream, pCurStreamData>>,
           \A k : StreamSlot(k)' = StreamSlot(k)
    PROVE  \A k : /\ StreamLength(k)' = StreamLength(k)
                  /\ StreamAddr(k)' = StreamAddr(k)
BY DEF StreamLength, StreamAddr, CurAddr

\* where a step only concerns the handshake or the end of the stream,
LEMMA HandshakeLaid ==
    ASSUME Layout, thr = "reset" => thr' = "reset",
           UNCHANGED <<ring, streams, pictures, detect>>
    PROVE  Layout'
<1>1. UNCHANGED <<pWriteAddr, nValidDataSize, frameFifo, pFrames,
                  mFramePicFifo, pFramePics, pCurFramePic, pCurStream,
                  pCurStreamData>>
  BY DEF ring, streams, pictures, detect
<1>2. /\ \A k : StreamSlot(k)' = StreamSlot(k) /\ PicSlot(k)' = PicSlot(k)
      /\ CurLength' = CurLength
  BY <1>1 DEF StreamSlot, PicSlot, CurLength
<1> QED
  BY <1>1, <1>2, PicsSame, StreamsSame, LayoutSame

\* where the decoder takes a picture or puts it back,
LEMMA DecoderLaid ==
    ASSUME TypeOK, FrameInv, Layout,
           SbmFrameRequestFramePic \/ SbmFrameReturnFramePic
    PROVE  Layout'
<1>1. /\ UNCHANGED <<pWriteAddr, nValidDataSize, frameFifo, pFrames,
                     pFramePics, pCurFramePic, pCurStream, pCurStreamData,
                     thr>>
  BY DEF SbmFrameRequestFramePic, SbmFrameReturnFramePic, threadVars, ring,
     streams, detect
<1>2. /\ mFramePicFifo'.nValidNum = mFramePicFifo.nValidNum
      /\ \A k : PicSlot(k)' = PicSlot(k)
  BY RequestPicKeeps, ReturnPicKeeps
<1>3. /\ \A k : StreamSlot(k)' = StreamSlot(k)
      /\ CurLength' = CurLength
  BY <1>1 DEF StreamSlot, CurLength
<1> QED
  BY <1>1, <1>2, <1>3, PicsSame, StreamsSame, LayoutSame

\* where the check of the type takes a stream or puts it back,
LEMMA CheckLaid ==
    ASSUME TypeOK, FrameInv, Layout, CheckRequest \/ CheckKnown
    PROVE  Layout'
<1>1. /\ UNCHANGED <<pWriteAddr, nValidDataSize, mFramePicFifo, pFramePics,
                     pCurFramePic, pCurStream, pCurStreamData, pFrames>>
      /\ thr # "reset"
  BY DEF CheckRequest, CheckKnown, ring, pictures, detect, At, ReturnStream
<1>2. /\ frameFifo'.nValidNum = frameFifo.nValidNum
      /\ \A k : StreamSlot(k)' = StreamSlot(k)
  BY CheckRequestKeeps, CheckKnownKeeps
<1>3. /\ \A k : PicSlot(k)' = PicSlot(k)
      /\ CurLength' = CurLength
  BY <1>1 DEF PicSlot, CurLength
<1> QED
  BY <1>1, <1>2, <1>3, PicsSame, StreamsSame, LayoutSame

\* where the detection begins,
LEMMA DetectStartLaid ==
    ASSUME TypeOK, FrameInv, Layout, DetectStart
    PROVE  Layout'
<1> USE FrameAssumption
<1>1. /\ UNCHANGED <<pWriteAddr, nValidDataSize, frameFifo, pFrames,
                     mFramePicFifo, pCurStream, pCurStreamData>>
      /\ thr # "reset"
      /\ \/ UNCHANGED <<pFramePics, pCurFramePic>>
         \/ /\ pCurFramePic = NULL
            /\ mFramePicFifo.nValidNum < nMaxFramePicNum
            /\ pFramePics' = [pFramePics EXCEPT
                                ![mFramePicFifo.nWritePos] = NoPic]
  <2>1. CASE UNCHANGED <<pFramePics, pCurFramePic>>
    BY <2>1 DEF DetectStart, ring, streams, At, detect
  <2>2. CASE ~ UNCHANGED <<pFramePics, pCurFramePic>>
    <3>1. ~ UNCHANGED <<pFramePics, detect>>
      BY <2>2 DEF detect
    <3>2. pCurFramePic = NULL /\ mFramePicFifo.nValidNum < nMaxFramePicNum
      BY <3>1, PicFifo DEF DetectStart
    <3>3. /\ pCurFramePic' = mFramePicFifo.nWritePos
          /\ pFramePics' = [pFramePics EXCEPT ![pCurFramePic'] = NoPic]
          /\ UNCHANGED <<pCurStream, pCurStreamData>>
      BY <3>1, <3>2 DEF DetectStart
    <3> QED
      BY <3>2, <3>3 DEF DetectStart, ring, streams, At
  <2> QED
    BY <2>1, <2>2
<1>2. CurLength' = CurLength
  BY DetectStartKeeps
<1>3. /\ \A k : StreamSlot(k)' = StreamSlot(k) /\ PicSlot(k)' = PicSlot(k)
  BY <1>1 DEF StreamSlot, PicSlot
<1>4. CASE UNCHANGED <<pFramePics, pCurFramePic>>
  BY <1>1, <1>2, <1>3, <1>4, PicsSame, StreamsSame, LayoutSame
<1>5. CASE ~ UNCHANGED <<pFramePics, pCurFramePic>>
  <2>1. CurLength = 0
    BY <1>1, <1>5 DEF CurLength
  <2>2. ASSUME NEW k \in 0 .. mFramePicFifo.nValidNum - 1
        PROVE  PicLength(k)' = PicLength(k) /\ PicAddr(k)' = PicAddr(k)
    <3>1. /\ PicSlot(k) \in PicSlots
          /\ PicSlot(k) # mFramePicFifo.nWritePos
      BY <1>1, <1>5, PicFifo
    <3>2. pFramePics'[PicSlot(k)] = pFramePics[PicSlot(k)]
      BY <1>1, <1>5, <3>1 DEF TypeOK
    <3> QED
      BY <1>3, <3>2 DEF PicLength, PicAddr
  <2> QED
    BY <1>1, <1>2, <1>3, <2>1, <2>2, StreamsSame, LayoutSame
<1> QED
  BY <1>4, <1>5

\* where the detector takes a stream,
LEMMA SupplyRequestLaid ==
    ASSUME TypeOK, FrameInv, Layout, SupplyRequest
    PROVE  Layout'
<1> USE FrameAssumption
<1>1. /\ UNCHANGED <<pWriteAddr, nValidDataSize, mFramePicFifo, pFramePics,
                     pCurFramePic, pFrames>>
      /\ thr # "reset" /\ pCurStream = NULL
  BY DEF SupplyRequest, ring, pictures, At
<1>2. /\ frameFifo'.nValidNum = frameFifo.nValidNum
      /\ \A k : StreamSlot(k)' = StreamSlot(k)
      /\ CurLength' = CurLength
      /\ pCurStream' # NULL =>
             /\ pCurStream' = StreamSlot(0)
             /\ pCurStreamData' = pFrames[StreamSlot(0)].units
  BY SupplyRequestKeeps
<1>3. \A k : PicSlot(k)' = PicSlot(k)
  BY <1>1 DEF PicSlot
<1>4. ASSUME NEW k \in 0 .. frameFifo.nValidNum - 1
      PROVE  /\ StreamLength(k)' = StreamLength(k)
             /\ StreamAddr(k)' = StreamAddr(k)
  <2>1. /\ StreamSlot(k) \in StreamSlots /\ StreamSlot(k) # NULL
        /\ pFrames[StreamSlot(k)].pData \in Addresses
        /\ Len(pFrames[StreamSlot(k)].units) \in Nat
    <3>1. StreamSlot(k) \in StreamSlots
      BY StreamFifo
    <3> QED
      BY <3>1 DEF FrameInv, StreamsFit, StreamSlots, NULL, TypeOK
  <2>2. /\ StreamLength(k) = Len(pFrames[StreamSlot(k)].units)
        /\ StreamAddr(k) = pFrames[StreamSlot(k)].pData
    BY <1>1, <2>1 DEF StreamLength, StreamAddr
  <2>3. CASE pCurStream' # StreamSlot(k)
    BY <1>1, <1>2, <2>2, <2>3 DEF StreamLength, StreamAddr
  <2>4. CASE pCurStream' = StreamSlot(k)
    <3>1. /\ pCurStreamData' = pFrames[StreamSlot(k)].units
          /\ StreamSlot(k)' = pCurStream'
      BY <1>2, <2>1, <2>4
    <3>2. CurAddr' = WrapAddr(pFrames[StreamSlot(k)].pData
                                + Len(pFrames[StreamSlot(k)].units)
                                - Len(pFrames[StreamSlot(k)].units))
      BY <1>1, <2>4, <3>1 DEF CurAddr
    <3>3. CurAddr' = pFrames[StreamSlot(k)].pData
      BY <2>1, <3>2 DEF WrapAddr, Addresses
    <3> QED
      BY <2>2, <3>1, <3>3 DEF StreamLength, StreamAddr
  <2> QED
    BY <2>3, <2>4
<1> QED
  BY <1>1, <1>2, <1>3, <1>4, PicsSame, LayoutSame

\* The parser adds a stream behind the others.
LEMMA AddStreamLaid ==
    ASSUME TypeOK, FrameInv, Layout, thr # "reset",
           NEW c \in Contents, SbmFrameAddStream(c)
    PROVE  Layout'
<1> USE FrameAssumption
<1> PICK v \in Nat : v = frameFifo.nValidNum
  BY StreamFifo
<1>1. PICK p, s : Laid(p, s)
  BY DEF Layout
<1>2. /\ v < nMaxFrameNum /\ frameFifo'.nValidNum = v + 1
      /\ \A k : StreamSlot(k)' = StreamSlot(k)
      /\ \A i \in StreamSlots :
           pFrames'[i] = IF i = StreamSlot(v)
                         THEN [pData |-> pWriteAddr, units |-> c]
                         ELSE pFrames[i]
      /\ Len(c) \in Nat
      /\ Len(c) + Margin <= nStreamBufferSize - nValidDataSize
  <2>1. Fits
    BY LayoutFits
  <2> QED
    BY <2>1, AddStreamKeeps
<1>3. /\ UNCHANGED <<mFramePicFifo, pFramePics, pCurFramePic, pCurStream,
                     pCurStreamData>>
      /\ nValidDataSize' = nValidDataSize + Len(c)
      /\ pWriteAddr' = WrapAddr(pWriteAddr + Len(c))
  BY DEF SbmFrameAddStream, pictures, detect
<1>4. /\ nValidDataSize \in Nat
      /\ nValidDataSize + Len(c) < nStreamBufferSize
  BY <1>2 DEF TypeOK
<1>5. \A m : RingAddr(m)' = RingAddr(m)
  BY <1>2, <1>3, <1>4, RingGrown
<1>6. /\ \A k : PicLength(k)' = PicLength(k) /\ PicAddr(k)' = PicAddr(k)
      /\ CurLength' = CurLength
  <2>1. \A k : PicSlot(k)' = PicSlot(k)
    BY <1>3 DEF PicSlot
  <2> QED
    BY <1>3, <2>1, PicsSame DEF CurLength
<1>7. pCurStream # NULL => pCurStream = StreamSlot(0) /\ v > 0
  BY StreamFifo DEF FrameInv, StreamRead, OnlyRead
<1>8. ASSUME NEW k \in 0 .. v - 1
      PROVE  /\ StreamLength(k)' = StreamLength(k)
             /\ StreamAddr(k)' = StreamAddr(k)
  <2>1. StreamSlot(k) \in StreamSlots /\ StreamSlot(k) # StreamSlot(v)
    BY <1>2, StreamFifo
  <2>2. pFrames'[StreamSlot(k)] = pFrames[StreamSlot(k)]
    BY <1>2, <2>1
  <2> QED
    BY <1>2, <1>3, <2>2 DEF StreamLength, StreamAddr, CurAddr
<1>9. ASSUME NEW k \in Nat, k = v
      PROVE  /\ StreamLength(k)' = Len(c)
             /\ StreamAddr(k)' = pWriteAddr
  <2>1. StreamSlot(k) \in StreamSlots /\ StreamSlot(k) # NULL
    <3>1. StreamSlot(k) \in StreamSlots
      BY <1>9, StreamFifo
    <3> QED
      BY <3>1 DEF StreamSlots, NULL
  <2>2. k > 0 => StreamSlot(k) # StreamSlot(0)
    BY <1>2, <1>9, StreamFifo
  <2>3. StreamSlot(k) # pCurStream
    BY <1>7, <1>9, <2>1, <2>2
  <2>4. pFrames'[StreamSlot(k)] = [pData |-> pWriteAddr, units |-> c]
    BY <1>2, <1>9, <2>1
  <2> QED
    BY <1>2, <1>3, <2>3, <2>4 DEF StreamLength, StreamAddr
<1>10. RingAddr(nValidDataSize) = pWriteAddr
  BY <1>4, RingFacts DEF Layout
<1> DEFINE t == [k \in 0 .. v + 1 |-> IF k = v + 1 THEN s[v] + Len(c)
                                      ELSE s[k]]
<1>11. /\ s \in [0 .. v -> Nat] /\ s[v] = nValidDataSize
  BY <1>1 DEF Laid
<1>12. /\ t \in [0 .. v + 1 -> Nat]
       /\ \A k \in 0 .. v : t[k] = s[k]
       /\ t[v + 1] = nValidDataSize + Len(c)
  <2>1. nValidDataSize \in Nat /\ Len(c) \in Nat
    BY <1>2 DEF TypeOK
  <2> QED
    BY <1>11, <2>1
<1> HIDE DEF t
<1>13. ASSUME NEW k \in 0 .. v
       PROVE  t[k + 1] = t[k] + StreamLength(k)' /\ StreamAt(k, t[k])'
  <2>1. CASE k = v
    <3>1. t[k] = nValidDataSize /\ t[k + 1] = nValidDataSize + Len(c)
      BY <1>11, <1>12, <2>1
    <3>2. StreamLength(k)' = Len(c) /\ StreamAddr(k)' = pWriteAddr
      BY <1>9, <2>1
    <3>3. RingAddr(t[k])' = pWriteAddr
      BY <1>5, <1>10, <3>1
    <3>4. t[k + 1] = t[k] + StreamLength(k)'
      BY <3>1, <3>2
    <3>5. StreamAt(k, t[k])'
      BY <3>2, <3>3, Zenon DEF StreamAt
    <3> QED
      BY <3>4, <3>5
  <2>2. CASE k # v
    <3>1. /\ k \in 0 .. v - 1 /\ t[k] = s[k] /\ t[k + 1] = s[k + 1]
      <4>1. k \in 0 .. v - 1 /\ k \in 0 .. v /\ k + 1 \in 0 .. v
        BY <2>2
      <4>2. \A i \in 0 .. v : t[i] = s[i]
        BY <1>12
      <4> QED
        BY <4>1, <4>2
    <3> QED
      BY <1>1, <1>5, <1>8, <3>1 DEF Laid, StreamAt
  <2> QED
    BY <2>1, <2>2
<1>14. Laid(p, t)'
  <2>1. CurAt(p[mFramePicFifo.nValidNum])'
    BY <1>1, <1>3, <1>5, <1>6 DEF Laid, CurAt
  <2>2. \A k \in 0 .. mFramePicFifo.nValidNum - 1 :
          p[k + 1] = p[k] + PicLength(k)' /\ PicAt(k, p[k])'
    BY <1>1, <1>5, <1>6 DEF Laid, PicAt
  <2>3. t[0] = p[mFramePicFifo.nValidNum] + CurLength'
    BY <1>1, <1>6, <1>12 DEF Laid
  <2>4. \A k \in 0 .. frameFifo'.nValidNum - 1 :
          t[k + 1] = t[k] + StreamLength(k)' /\ StreamAt(k, t[k])'
    BY <1>2, <1>13
  <2> QED
    BY <1>1, <1>2, <1>3, <1>12, <2>1, <2>2, <2>3, <2>4 DEF Laid
<1> QED
  BY <1>3, <1>4, <1>14 DEF Layout

\* The decoder gives back the oldest picture.
LEMMA FlushPicLaid ==
    ASSUME TypeOK, FrameInv, Layout, thr # "reset", SbmFrameFlushFramePic
    PROVE  Layout'
<1> USE FrameAssumption
<1> PICK n \in Nat : n = mFramePicFifo.nValidNum
  BY PicFifo
<1> PICK v \in Nat : v = frameFifo.nValidNum
  BY StreamFifo
<1>1. PICK p, s : Laid(p, s)
  BY DEF Layout
<1>2. /\ n > 0 /\ n <= nMaxFramePicNum
      /\ mFramePicFifo'.nValidNum = n - 1
      /\ nValidDataSize' = nValidDataSize - PicLength(0)
      /\ CurLength' = CurLength
      /\ \A k \in 0 .. nMaxFramePicNum - 1 : PicSlot(k)' = PicSlot(k + 1)
      /\ \A i \in PicSlots :
           pFramePics'[i] = IF i = PicSlot(0) THEN NoPic ELSE pFramePics[i]
  <2>1. Fits
    BY LayoutFits
  <2> QED
    BY <2>1, FlushPicKeeps, PicFifo
<1>3. UNCHANGED <<pWriteAddr, frameFifo, pFrames, pCurFramePic, pCurStream,
                  pCurStreamData>>
  BY DEF SbmFrameFlushFramePic, streams, detect
<1>13. /\ \A k \in 0 .. n - 1 : p[k + 1] = p[k] + PicLength(k)
       /\ \A k \in 0 .. v - 1 : s[k + 1] = s[k] + StreamLength(k)
  BY <1>1 DEF Laid
<1>14. /\ \A k \in 0 .. n - 1 : PicAt(k, p[k])
       /\ \A k \in 0 .. v - 1 : StreamAt(k, s[k])
  BY <1>1 DEF Laid
<1>15. /\ \A k \in 0 .. n : p[k] \in Nat
       /\ \A k \in 0 .. v : s[k] \in Nat
  <2>1. p \in [0 .. n -> Nat] /\ s \in [0 .. v -> Nat]
    BY <1>1 DEF Laid
  <2> QED
    BY <2>1
<1>12. /\ \A k \in 0 .. n - 1 : PicLength(k) \in Nat
       /\ \A k \in 0 .. v - 1 : StreamLength(k) \in Nat
       /\ CurLength \in Nat
  BY Lengths
<1> PICK c \in Nat : c = PicLength(0)
  <2>1. 0 \in 0 .. n - 1
    BY <1>2
  <2>2. PicLength(0) \in Nat
    BY <1>12, <2>1
  <2> QED
    BY <2>2
<1>4. /\ p \in [0 .. n -> Nat] /\ s \in [0 .. v -> Nat]
      /\ p[0] = 0 /\ p[1] = c
      /\ \A k \in 1 .. n : c <= p[k] /\ p[k] <= p[n]
      /\ \A k \in 0 .. v : c <= s[k] /\ s[k] <= nValidDataSize
      /\ p[n] + CurLength <= nValidDataSize /\ CurLength \in Nat
      /\ s[0] = p[n] + CurLength /\ s[v] = nValidDataSize
      /\ nValidDataSize \in Nat /\ nValidDataSize < nStreamBufferSize
  <2>1. /\ p \in [0 .. n -> Nat] /\ s \in [0 .. v -> Nat]
        /\ p[0] = 0 /\ p[0 + 1] = p[0] + PicLength(0)
        /\ s[0] = p[n] + CurLength /\ s[v] = nValidDataSize
    BY SMTT(20), <1>1, <1>2 DEF Laid
  <2>2. /\ p[n] + CurLength <= nValidDataSize /\ CurLength \in Nat
        /\ nValidDataSize \in Nat /\ nValidDataSize < nStreamBufferSize
        /\ \A k \in 0 .. n : p[k] <= p[n]
        /\ \A k \in 0 .. v : s[0] <= s[k] /\ s[k] <= nValidDataSize
    <3>1. nValidDataSize \in Nat
      BY DEF TypeOK
    <3>2. nValidDataSize < nStreamBufferSize
      BY DEF Layout
    <3>3. CurLength \in Nat
      BY Lengths
    <3>4. /\ p[n] + CurLength <= nValidDataSize
          /\ \A k \in 0 .. n : p[k] <= p[n]
          /\ \A k \in 0 .. v : s[0] <= s[k] /\ s[k] <= nValidDataSize
      BY <1>1, LaidGrows
    <3> QED
      BY <3>1, <3>2, <3>3, <3>4
  <2>3. \A k \in 0 .. n - 1 : p[k] <= p[k + 1]
    <3>1. ASSUME NEW k \in 0 .. n - 1 PROVE p[k] <= p[k + 1]
      <4>1. p[k + 1] = p[k] + PicLength(k)
        BY <1>13
      <4>2. p[k] \in Nat /\ PicLength(k) \in Nat
        BY <1>12, <1>15
      <4> QED
        BY <4>1, <4>2
    <3> QED
      BY <3>1
  <2>4. \A j, k \in 0 .. n : j <= k => p[j] <= p[k]
    BY <2>1, <2>3, SumsGrow
  <2>5. p[1] = c
    BY <2>1
  <2>6. \A k \in 1 .. n : c <= p[k]
    BY <1>2, <2>4, <2>5
  <2>7. c <= s[0]
    BY <1>2, <2>1, <2>2, <2>6
  <2>8. \A k \in 0 .. v : c <= s[k]
    BY <2>1, <2>2, <2>7
  <2> QED
    BY <2>1, <2>2, <2>5, <2>6, <2>8
<1>5. c <= nValidDataSize
  BY <1>4
<1>6. \A m \in Nat : c <= m /\ m <= nValidDataSize =>
                        RingAddr(m - c)' = RingAddr(m)
  <2>1. \A m \in Nat :
           m + c <= nValidDataSize => RingAddr(m)' = RingAddr(m + c)
    BY <1>2, <1>3, <1>4, <1>5, RingShrunk
  <2> SUFFICES ASSUME NEW m \in Nat, c <= m, m <= nValidDataSize
               PROVE  RingAddr(m - c)' = RingAddr(m)
    OBVIOUS
  <2> PICK i \in Nat : i = m - c
    OBVIOUS
  <2>2. i + c = m /\ RingAddr(i)' = RingAddr(i + c)
    BY <1>4, <2>1
  <2> QED
    BY <2>2
<1> DEFINE q == [k \in 0 .. n - 1 |-> p[k + 1] - c]
           t == [k \in 0 .. v |-> s[k] - c]
<1>7. /\ q \in [0 .. n - 1 -> Nat] /\ t \in [0 .. v -> Nat]
      /\ \A k \in 0 .. n - 1 : q[k] = p[k + 1] - c
      /\ \A k \in 0 .. v : t[k] = s[k] - c
  BY <1>4
<1> HIDE DEF q, t
<1>8. ASSUME NEW k \in 0 .. n - 2
      PROVE  q[k + 1] = q[k] + PicLength(k)' /\ PicAt(k, q[k])'
  <2> PICK j \in 1 .. n - 1 : j = k + 1
    OBVIOUS
  <2>1. /\ PicSlot(j) \in PicSlots /\ PicSlot(j) # PicSlot(0)
        /\ PicSlot(k)' = PicSlot(j)
    <3>1. /\ j \in 0 .. nMaxFramePicNum - 1 /\ j # 0
          /\ k \in 0 .. nMaxFramePicNum - 1
      BY <1>2
    <3>2. PicSlot(j) \in PicSlots /\ PicSlot(j) # PicSlot(0)
      BY <3>1, PicFifo
    <3> QED
      BY <1>2, <3>1, <3>2
  <2>2. PicLength(k)' = PicLength(j) /\ PicAddr(k)' = PicAddr(j)
    BY <1>2, <2>1 DEF PicLength, PicAddr
  <2>3. /\ p[j + 1] = p[j] + PicLength(j) /\ PicAt(j, p[j])
        /\ PicLength(j) \in Nat
        /\ p[j] \in Nat /\ c <= p[j] /\ p[j] <= nValidDataSize
    <3>1. p[j + 1] = p[j] + PicLength(j)
      BY <1>13
    <3>3. PicAt(j, p[j])
      BY <1>14
    <3>2. p[j] \in Nat /\ p[n] \in Nat /\ c <= p[j] /\ p[j] <= p[n]
      <4>1. \A i \in 1 .. n : c <= p[i] /\ p[i] <= p[n]
        BY <1>4
      <4> QED
        BY <1>15, <4>1
    <3> QED
      BY <1>4, <1>12, <3>1, <3>2, <3>3
  <2>4. q[k] = p[j] - c /\ q[k + 1] = p[j + 1] - c
    BY <1>7
  <2>5. RingAddr(q[k])' = RingAddr(p[j])
    BY <1>6, <2>3, <2>4
  <2>6. q[k + 1] = q[k] + PicLength(k)'
    BY <2>2, <2>3, <2>4
  <2>7. PicAt(k, q[k])'
    BY <2>2, <2>3, <2>5 DEF PicAt
  <2> QED
    BY <2>6, <2>7
<1>9. CurAt(q[n - 1])'
  <2>1. q[n - 1] = p[n] - c
    BY <1>2, <1>7
  <2>2. RingAddr(q[n - 1])' = RingAddr(p[n])
    BY <1>2, <1>4, <1>6, <2>1
  <2>3. CurLength > 0 =>
           pFramePics'[pCurFramePic] = pFramePics[pCurFramePic]
    <3> SUFFICES ASSUME CurLength > 0
                 PROVE  pFramePics'[pCurFramePic] = pFramePics[pCurFramePic]
      OBVIOUS
    <3>1. pCurFramePic # NULL
      BY DEF CurLength
    <3>2. /\ pCurFramePic \in PicSlots /\ pCurFramePic = PicSlot(n)
          /\ n < nMaxFramePicNum
      BY <3>1, PicFifo DEF FrameInv, PicOpen, TypeOK
    <3>3. pCurFramePic # PicSlot(0)
      BY <1>2, <3>2, PicFifo
    <3> QED
      BY <1>2, <3>2, <3>3
  <2> QED
    BY <1>1, <1>2, <1>3, <2>2, <2>3 DEF Laid, CurAt
<1>10. ASSUME NEW k \in 0 .. v - 1
       PROVE  t[k + 1] = t[k] + StreamLength(k)' /\ StreamAt(k, t[k])'
  <2>1. \A i : StreamSlot(i)' = StreamSlot(i)
    BY <1>3 DEF StreamSlot
  <2>2. /\ StreamLength(k)' = StreamLength(k)
        /\ StreamAddr(k)' = StreamAddr(k)
    BY <1>3, <2>1, StreamsSame
  <2>3. /\ s[k + 1] = s[k] + StreamLength(k) /\ StreamAt(k, s[k])
        /\ StreamLength(k) \in Nat
        /\ s[k] \in Nat /\ c <= s[k] /\ s[k] <= nValidDataSize
    <3>1. s[k + 1] = s[k] + StreamLength(k) /\ StreamLength(k) \in Nat
      BY <1>12, <1>13
    <3>2. StreamAt(k, s[k])
      BY <1>14
    <3>3. \A i \in 0 .. v : c <= s[i] /\ s[i] <= nValidDataSize
      BY <1>4
    <3> QED
      BY <1>15, <3>1, <3>2, <3>3
  <2>4. t[k] = s[k] - c /\ t[k + 1] = s[k + 1] - c
    BY <1>7
  <2>5. RingAddr(t[k])' = RingAddr(s[k])
    BY <1>6, <2>3, <2>4
  <2>6. t[k + 1] = t[k] + StreamLength(k)'
    BY <2>2, <2>3, <2>4
  <2>7. StreamAt(k, t[k])'
    BY <2>2, <2>3, <2>5 DEF StreamAt
  <2> QED
    BY <2>6, <2>7
<1>11. Laid(q, t)'
  <2>1. q[0] = 0
    BY <1>2, <1>4, <1>7
  <2>2. t[0] = q[n - 1] + CurLength' /\ t[v] = nValidDataSize'
    <3>1. t[0] = s[0] - c /\ t[v] = s[v] - c /\ q[n - 1] = p[n - 1 + 1] - c
      BY <1>2, <1>7
    <3>2. n - 1 + 1 = n /\ p[n] \in Nat
      BY <1>4
    <3> QED
      BY <1>2, <1>4, <3>1, <3>2
  <2>3. \A k \in 0 .. mFramePicFifo'.nValidNum - 1 :
           q[k + 1] = q[k] + PicLength(k)' /\ PicAt(k, q[k])'
    BY <1>2, <1>8
  <2> QED
    BY <1>2, <1>3, <1>7, <1>9, <1>10, <2>1, <2>2, <2>3 DEF Laid
<1> QED
  BY <1>2, <1>4, <1>5, <1>11 DEF Layout

\* The streams behind the one that is given back move up.
LEMMA FlushStreamMoves ==
    ASSUME TypeOK, FrameInv, NEW s \in StreamSlots, OnlyRead(frameFifo, s),
           NEW b \in BOOLEAN, FlushStream(s, b),
           pCurStream \in {NULL, s}, pCurStream' = NULL
    PROVE  /\ frameFifo.nValidNum > 0
           /\ frameFifo'.nValidNum = frameFifo.nValidNum - 1
           /\ s = StreamSlot(0)
           /\ \A k \in 0 .. frameFifo.nValidNum - 2 :
                /\ StreamLength(k)' = StreamLength(k + 1)
                /\ StreamAddr(k)' = StreamAddr(k + 1)
<1> USE FrameAssumption
<1> PICK v \in Nat : v = frameFifo.nValidNum
  BY StreamFifo
<1>1. /\ s = StreamSlot(0) /\ v > 0 /\ v <= nMaxFrameNum
      /\ frameFifo'.nValidNum = v - 1
      /\ \A k \in 0 .. nMaxFrameNum - 1 : StreamSlot(k)' = StreamSlot(k + 1)
      /\ \A i \in StreamSlots :
           pFrames'[i] = IF i = s THEN NoStream ELSE pFrames[i]
  BY FlushStreamFacts, StreamFifo
<1>2. ASSUME NEW k \in 0 .. v - 2
      PROVE  /\ StreamLength(k)' = StreamLength(k + 1)
             /\ StreamAddr(k)' = StreamAddr(k + 1)
  <2> PICK j \in 1 .. v - 1 : j = k + 1
    OBVIOUS
  <2>1. /\ StreamSlot(j) \in StreamSlots /\ StreamSlot(j) # s
        /\ StreamSlot(k)' = StreamSlot(j)
    <3>1. /\ j \in 0 .. nMaxFrameNum - 1 /\ j # 0
          /\ k \in 0 .. nMaxFrameNum - 1
      BY <1>1
    <3>2. StreamSlot(j) \in StreamSlots /\ StreamSlot(j) # StreamSlot(0)
      BY <3>1, StreamFifo
    <3> QED
      BY <1>1, <3>1, <3>2
  <2>2. StreamSlot(j) # pCurStream /\ StreamSlot(j) # NULL
    BY <2>1 DEF StreamSlots, NULL
  <2>3. pFrames'[StreamSlot(j)] = pFrames[StreamSlot(j)]
    BY <1>1, <2>1
  <2>4. /\ StreamLength(k)' = StreamLength(j)
        /\ StreamAddr(k)' = StreamAddr(j)
    BY <2>1, <2>2, <2>3 DEF StreamLength, StreamAddr
  <2> QED
    BY <2>4
<1> QED
  BY <1>1, <1>2

\* The check of the type throws away the oldest stream: no picture is there.
LEMMA CheckUnknownLaid ==
    ASSUME TypeOK, FrameInv, Layout, CheckUnknown
    PROVE  Layout'
<1> USE FrameAssumption
<1> PICK v \in Nat : v = frameFifo.nValidNum
  BY StreamFifo
<1>1. thr # "reset" /\ UNCHANGED pictures /\ UNCHANGED pWriteAddr
      /\ UNCHANGED <<pCurFramePic, pCurStream>>
      /\ FlushStream(pStream, TRUE)
  BY DEF CheckUnknown, At, detect
<1>2. PICK p, s : Laid(p, s)
  BY <1>1 DEF Layout
<1>3. /\ pStream \in StreamSlots /\ OnlyRead(frameFifo, pStream)
      /\ pCurStream = NULL /\ mFramePicFifo.nValidNum = 0
      /\ CurLength = 0 /\ CurLength' = 0
  <2>1. /\ pStream \in StreamSlots /\ OnlyRead(frameFifo, pStream)
        /\ pCurStream = NULL /\ mFramePicFifo.nValidNum = 0
        /\ CurLength = 0
    BY DEF CheckUnknown, At, FrameInv, StreamRead, TypeOK, TypeUnknown
  <2> QED
    BY <1>1, <2>1 DEF CurLength, pictures
<1>4. /\ v > 0 /\ frameFifo'.nValidNum = v - 1
      /\ pStream = StreamSlot(0)
      /\ \A k \in 0 .. v - 2 : /\ StreamLength(k)' = StreamLength(k + 1)
                               /\ StreamAddr(k)' = StreamAddr(k + 1)
  BY <1>1, <1>3, FlushStreamMoves
<1>5. \A k \in 0 .. v - 1 : StreamLength(k) \in Nat
  BY Lengths
<1> PICK c \in Nat : c = StreamLength(0)
  BY <1>4, <1>5
<1>6. nValidDataSize' = nValidDataSize - c
  <2>1. nValidDataSize' = nValidDataSize - Len(pFrames[pStream].units)
    BY <1>1, <1>3, FlushStreamFacts
  <2>2. StreamLength(0) = Len(pFrames[pStream].units)
    BY <1>3, <1>4 DEF StreamLength, NULL, StreamSlots
  <2> QED
    BY <2>1, <2>2
<1>7. /\ \A k \in 0 .. v - 1 : s[k + 1] = s[k] + StreamLength(k)
      /\ s[v] = nValidDataSize
  BY <1>2 DEF Laid
<1>8. \A k \in 0 .. v - 1 : StreamAt(k, s[k])
  BY <1>2 DEF Laid
<1>9. \A k \in 0 .. v : s[k] \in Nat /\ s[k] <= nValidDataSize
  BY <1>2, LaidGrows
<1>10. s[0] = 0 /\ p \in [0 .. 0 -> Nat] /\ p[0] = 0
  BY <1>2, <1>3 DEF Laid
<1>11. s[1] = c
  <2>1. s[0 + 1] = s[0] + StreamLength(0)
    BY <1>4, <1>7
  <2> QED
    BY <1>10, <2>1
<1>12. \A k \in 1 .. v : c <= s[k]
  <2>1. s \in [0 .. v -> Nat]
    BY <1>2 DEF Laid
  <2>2. ASSUME NEW k \in 0 .. v - 1 PROVE s[k] <= s[k + 1]
    <3>1. s[k] \in Nat /\ StreamLength(k) \in Nat
      BY <1>5, <1>9
    <3> QED
      BY <1>7, <3>1
  <2>3. \A j, k \in 0 .. v : j <= k => s[j] <= s[k]
    BY <2>1, <2>2, SumsGrow
  <2> QED
    BY <1>4, <1>11, <2>3
<1>13. nValidDataSize \in Nat /\ nValidDataSize < nStreamBufferSize
       /\ c <= nValidDataSize
  <2>1. c <= s[v] /\ nValidDataSize \in Nat
    BY <1>4, <1>12 DEF TypeOK
  <2> QED
    BY <1>1, <1>7, <2>1 DEF Layout
<1>14. \A m \in Nat : c <= m /\ m <= nValidDataSize =>
                         RingAddr(m - c)' = RingAddr(m)
  <2>1. \A m \in Nat :
           m + c <= nValidDataSize => RingAddr(m)' = RingAddr(m + c)
    BY <1>1, <1>6, <1>13, RingShrunk
  <2> SUFFICES ASSUME NEW m \in Nat, c <= m, m <= nValidDataSize
               PROVE  RingAddr(m - c)' = RingAddr(m)
    OBVIOUS
  <2> PICK i \in Nat : i = m - c
    OBVIOUS
  <2>2. i + c = m /\ RingAddr(i)' = RingAddr(i + c)
    BY <1>13, <2>1
  <2> QED
    BY <2>2
<1> DEFINE t == [k \in 0 .. v - 1 |-> s[k + 1] - c]
<1>15. /\ t \in [0 .. v - 1 -> Nat]
       /\ \A k \in 0 .. v - 1 : t[k] = s[k + 1] - c
  <2>1. ASSUME NEW k \in 0 .. v - 1 PROVE s[k + 1] - c \in Nat
    <3>1. k + 1 \in 0 .. v /\ k + 1 \in 1 .. v
      OBVIOUS
    <3>2. s[k + 1] \in Nat /\ c <= s[k + 1]
      BY <1>9, <1>12, <3>1
    <3> QED
      BY <3>2
  <2> QED
    BY <2>1
<1> HIDE DEF t
<1>16. ASSUME NEW k \in 0 .. v - 2
       PROVE  t[k + 1] = t[k] + StreamLength(k)' /\ StreamAt(k, t[k])'
  <2> PICK j \in 1 .. v - 1 : j = k + 1
    OBVIOUS
  <2>1. /\ StreamLength(k)' = StreamLength(j)
        /\ StreamAddr(k)' = StreamAddr(j)
    BY <1>4
  <2>2. /\ s[j + 1] = s[j] + StreamLength(j) /\ StreamLength(j) \in Nat
        /\ s[j] \in Nat /\ s[j] <= nValidDataSize /\ c <= s[j]
    <3>1. j \in 0 .. v - 1 /\ j \in 0 .. v /\ j \in 1 .. v
      OBVIOUS
    <3> QED
      BY <1>5, <1>7, <1>9, <1>12, <3>1
  <2>3. StreamAt(j, s[j])
    BY <1>8
  <2>4. t[k] = s[j] - c /\ t[k + 1] = s[j + 1] - c
    BY <1>15
  <2>5. RingAddr(t[k])' = RingAddr(s[j])
    BY <1>14, <2>2, <2>4
  <2>6. t[k + 1] = t[k] + StreamLength(k)'
    BY <2>1, <2>2, <2>4
  <2>7. StreamAt(k, t[k])'
    BY <2>1, <2>3, <2>5 DEF StreamAt
  <2> QED
    BY <2>6, <2>7
<1>17. Laid(p, t)'
  <2>1. mFramePicFifo'.nValidNum = 0
    BY <1>1, <1>3 DEF pictures
  <2>2. t[0] = p[0] + CurLength'
    BY <1>3, <1>4, <1>10, <1>11, <1>15
  <2>3. t[v - 1] = nValidDataSize'
    <3>1. t[v - 1] = s[v - 1 + 1] - c
      BY <1>4, <1>15
    <3> QED
      BY <1>4, <1>6, <1>7, <3>1
  <2>4. CurAt(p[0])'
    BY <1>3 DEF CurAt
  <2>5. \A k \in 0 .. frameFifo'.nValidNum - 1 :
           t[k + 1] = t[k] + StreamLength(k)' /\ StreamAt(k, t[k])'
    BY <1>4, <1>16
  <2>6. \A k \in 0 .. mFramePicFifo'.nValidNum - 1 :
           p[k + 1] = p[k] + PicLength(k)' /\ PicAt(k, p[k])'
    BY <2>1
  <2> QED
    BY <1>4, <1>10, <1>15, <2>1, <2>2, <2>3, <2>4, <2>5, <2>6 DEF Laid
<1> QED
  BY <1>6, <1>13, <1>17 DEF Layout

\* What is left of the oldest stream becomes part of the current picture.
LEMMA MergeLaid ==
    ASSUME TypeOK, FrameInv, Layout, thr # "reset",
           frameFifo.nValidNum > 0,
           frameFifo'.nValidNum = frameFifo.nValidNum - 1,
           UNCHANGED <<pWriteAddr, nValidDataSize>>,
           mFramePicFifo'.nValidNum = mFramePicFifo.nValidNum,
           \A k \in 0 .. mFramePicFifo.nValidNum - 1 :
              PicLength(k)' = PicLength(k) /\ PicAddr(k)' = PicAddr(k),
           CurLength' = CurLength + StreamLength(0),
           CurLength' > 0 =>
               pFramePics'[pCurFramePic'].pDataStartAddr =
                   IF CurLength = 0 THEN StreamAddr(0)
                   ELSE pFramePics[pCurFramePic].pDataStartAddr,
           \A k \in 0 .. frameFifo.nValidNum - 2 :
              /\ StreamLength(k)' = StreamLength(k + 1)
              /\ StreamAddr(k)' = StreamAddr(k + 1)
    PROVE  Layout'
<1> PICK n \in Nat : n = mFramePicFifo.nValidNum
  BY PicFifo
<1> PICK v \in Nat : v = frameFifo.nValidNum
  BY StreamFifo
<1>1. PICK p, s : Laid(p, s)
  BY DEF Layout
<1>2. /\ \A k \in 0 .. v - 1 : StreamLength(k) \in Nat
      /\ CurLength \in Nat
  BY Lengths
<1>3. /\ p \in [0 .. n -> Nat] /\ s \in [0 .. v -> Nat]
      /\ p[0] = 0 /\ s[v] = nValidDataSize
      /\ s[0] = p[n] + CurLength
      /\ \A k \in 0 .. n - 1 : p[k + 1] = p[k] + PicLength(k)
      /\ \A k \in 0 .. v - 1 : s[k + 1] = s[k] + StreamLength(k)
  BY <1>1 DEF Laid
<1>4. /\ \A k \in 0 .. n - 1 : PicAt(k, p[k])
      /\ \A k \in 0 .. v - 1 : StreamAt(k, s[k])
      /\ CurAt(p[n])
  BY <1>1 DEF Laid
<1>5. \A m : RingAddr(m)' = RingAddr(m)
  BY DEF RingAddr, FirstAddr
<1> DEFINE t == [k \in 0 .. v - 1 |-> s[k + 1]]
<1>6. /\ t \in [0 .. v - 1 -> Nat]
      /\ \A k \in 0 .. v - 1 : t[k] = s[k + 1]
  BY <1>3
<1> HIDE DEF t
<1>7. ASSUME NEW k \in 0 .. v - 2
      PROVE  t[k + 1] = t[k] + StreamLength(k)' /\ StreamAt(k, t[k])'
  <2> PICK j \in 1 .. v - 1 : j = k + 1
    OBVIOUS
  <2>1. /\ StreamLength(k)' = StreamLength(j)
        /\ StreamAddr(k)' = StreamAddr(j)
    OBVIOUS
  <2>2. s[j + 1] = s[j] + StreamLength(j)
    BY <1>3
  <2>3. StreamAt(j, s[j])
    BY <1>4
  <2>4. t[k] = s[j] /\ t[k + 1] = s[j + 1]
    BY <1>6
  <2>5. t[k + 1] = t[k] + StreamLength(k)'
    BY <2>1, <2>2, <2>4
  <2>6. StreamAt(k, t[k])'
    BY <1>5, <2>1, <2>3, <2>4 DEF StreamAt
  <2> QED
    BY <2>5, <2>6
<1>8. t[0] = p[n] + CurLength'
  <2>1. t[0] = s[0 + 1] /\ s[0 + 1] = s[0] + StreamLength(0)
    BY <1>3, <1>6
  <2>2. p[n] \in Nat /\ StreamLength(0) \in Nat
    BY <1>2, <1>3
  <2> QED
    BY <1>2, <1>3, <2>1, <2>2
<1>9. CurAt(p[n])'
  <2> SUFFICES ASSUME CurLength' > 0
               PROVE  pFramePics'[pCurFramePic'].pDataStartAddr
                          = RingAddr(p[n])
    BY <1>5 DEF CurAt
  <2>1. StreamLength(0) \in Nat
    BY <1>2
  <2>2. CASE CurLength = 0
    <3>1. StreamLength(0) > 0 /\ s[0] = p[n]
      BY <1>3, <2>1, <2>2
    <3>2. StreamAt(0, s[0])
      BY <1>4
    <3> QED
      BY <2>2, <3>1, <3>2 DEF StreamAt
  <2>3. CASE CurLength # 0
    BY <1>2, <1>4, <2>3 DEF CurAt
  <2> QED
    BY <2>2, <2>3
<1>10. Laid(p, t)'
  <2>1. t[v - 1] = nValidDataSize'
    <3>1. t[v - 1] = s[v - 1 + 1]
      BY <1>6
    <3> QED
      BY <1>3, <3>1
  <2>2. \A k \in 0 .. n - 1 :
           p[k + 1] = p[k] + PicLength(k)' /\ PicAt(k, p[k])'
    BY <1>3, <1>4, <1>5 DEF PicAt
  <2> QED
    BY <1>3, <1>6, <1>7, <1>8, <1>9, <2>1, <2>2 DEF Laid
<1> QED
  BY <1>10 DEF Layout

\* The rest of a stream that is used up or holds no NAL unit.
LEMMA SupplyFlushLaid ==
    ASSUME TypeOK, FrameInv, Layout,
           SupplyFlush \/ DisposeInvalidStreamData
    PROVE  Layout'
<1> USE FrameAssumption
<1>1. /\ thr # "reset" /\ pCurStream # NULL /\ pCurStream \in StreamSlots
      /\ pCurFramePic # NULL /\ pCurFramePic \in PicSlots
      /\ OnlyRead(frameFifo, pCurStream)
  BY DEF SupplyFlush, DisposeInvalidStreamData, At, FrameInv, StreamRead,
     PicOpen, AtPoints, TypeOK
<1>2. Fits
  BY <1>1, LayoutFits
<1>3. /\ FlushStream(pCurStream, FALSE) /\ pCurStream' = NULL
      /\ UNCHANGED <<pWriteAddr, mFramePicFifo, pCurFramePic>>
  BY DEF SupplyFlush, DisposeInvalidStreamData
<1>4. /\ frameFifo.nValidNum > 0
      /\ frameFifo'.nValidNum = frameFifo.nValidNum - 1
      /\ pCurStream = StreamSlot(0)
      /\ \A k \in 0 .. frameFifo.nValidNum - 2 :
           /\ StreamLength(k)' = StreamLength(k + 1)
           /\ StreamAddr(k)' = StreamAddr(k + 1)
  BY <1>1, <1>3, FlushStreamMoves
<1>5. nValidDataSize' = nValidDataSize
  BY <1>1, <1>3, FlushStreamFacts
<1>6. StreamLength(0) = Len(pCurStreamData) /\ StreamAddr(0) = CurAddr
  BY <1>4 DEF StreamLength, StreamAddr
<1>7. /\ CurLength' = CurLength + Len(pCurStreamData)
      /\ \A i \in PicSlots \ {pCurFramePic} :
           pFramePics'[i] = pFramePics[i]
      /\ CurLength' > 0 =>
             pFramePics'[pCurFramePic].pDataStartAddr =
                 IF CurLength = 0 THEN CurAddr
                 ELSE pFramePics[pCurFramePic].pDataStartAddr
  <2>1. CASE SupplyFlush
    <3>1. CurLength' = CurLength + Len(pCurStreamData)
      BY <1>2, <2>1, SupplyFlushKeeps
    <3>2. /\ pFramePics' = [pFramePics EXCEPT
                              ![pCurFramePic].nlength = @ + RestLength]
          /\ step = "supply"
      BY <2>1 DEF SupplyFlush, At
    <3>3. /\ \A i \in PicSlots \ {pCurFramePic} :
               pFramePics'[i] = pFramePics[i]
          /\ pFramePics'[pCurFramePic].pDataStartAddr
                 = pFramePics[pCurFramePic].pDataStartAddr
      BY <1>1, <3>2 DEF TypeOK
    <3>4. CurLength = 0 => CurLength' = 0
      <4>1. CurLength = 0 => Len(pCurStreamData) = 0
        BY <3>2 DEF FrameInv, CurPicKnown
      <4> QED
        BY <3>1, <4>1
    <3> QED
      BY <3>1, <3>3, <3>4
  <2>2. CASE DisposeInvalidStreamData
    <3>1. /\ CurLength' = CurLength + Len(pCurStreamData)
          /\ pFramePics'[pCurFramePic].pDataStartAddr
                 = CurPic.pDataStartAddr
          /\ \A i \in PicSlots \ {pCurFramePic} :
               pFramePics'[i] = pFramePics[i]
      BY <1>2, <2>2, DisposeKeeps
    <3>2. CurPic.pDataStartAddr =
             IF CurLength = 0 THEN CurAddr
             ELSE pFramePics[pCurFramePic].pDataStartAddr
      BY <1>2, <2>2, ScanFacts DEF DisposeInvalidStreamData
    <3> QED
      BY <3>1, <3>2
  <2> QED
    BY <2>1, <2>2
<1>8. \A k \in 0 .. mFramePicFifo.nValidNum - 1 :
         PicLength(k)' = PicLength(k) /\ PicAddr(k)' = PicAddr(k)
  <2>1. \A k : PicSlot(k)' = PicSlot(k)
    BY <1>3 DEF PicSlot
  <2> QED
    BY <1>1, <1>7, <2>1, OtherPicsSame
<1> QED
  BY <1>1, <1>3, <1>4, <1>5, <1>6, <1>7, <1>8, MergeLaid

\* A stream without bytes.
LEMMA SupplyEmptyLaid ==
    ASSUME TypeOK, FrameInv, Layout, SupplyEmpty
    PROVE  Layout'
<1>1. /\ thr # "reset" /\ pStream # NULL /\ pStream \in StreamSlots
      /\ pCurStream = NULL /\ pFrames[pStream].units = <<>>
      /\ OnlyRead(frameFifo, pStream)
  BY DEF SupplyEmpty, At, FrameInv, StreamRead, AtPoints, TypeOK
<1>2. /\ FlushStream(pStream, FALSE)
      /\ UNCHANGED <<pWriteAddr, mFramePicFifo, pFramePics, pCurFramePic,
                     pCurStream>>
  BY DEF SupplyEmpty, pictures, detect
<1>3. /\ frameFifo.nValidNum > 0
      /\ frameFifo'.nValidNum = frameFifo.nValidNum - 1
      /\ pStream = StreamSlot(0)
      /\ \A k \in 0 .. frameFifo.nValidNum - 2 :
           /\ StreamLength(k)' = StreamLength(k + 1)
           /\ StreamAddr(k)' = StreamAddr(k + 1)
  BY <1>1, <1>2, FlushStreamMoves
<1>4. nValidDataSize' = nValidDataSize
  BY <1>1, <1>2, FlushStreamFacts
<1>5. StreamLength(0) = 0
  BY <1>1, <1>3 DEF StreamLength
<1>6. CurLength' = CurLength /\ CurLength \in Nat
  BY <1>2, Lengths DEF CurLength
<1>7. \A k : PicLength(k)' = PicLength(k) /\ PicAddr(k)' = PicAddr(k)
  <2>1. \A k : PicSlot(k)' = PicSlot(k)
    BY <1>2 DEF PicSlot
  <2> QED
    BY <1>2, <2>1, PicsSame
<1>8. CurLength' > 0 =>
          pFramePics'[pCurFramePic'].pDataStartAddr =
              IF CurLength = 0 THEN StreamAddr(0)
              ELSE pFramePics[pCurFramePic].pDataStartAddr
  BY <1>2, <1>6
<1> QED
  BY <1>1, <1>2, <1>3, <1>4, <1>5, <1>6, <1>7, <1>8, MergeLaid

\* A NAL unit goes from the oldest stream to the current picture.
LEMMA StoreNaluLaid ==
    ASSUME TypeOK, FrameInv, Layout, StoreNalu
    PROVE  Layout'
<1> USE FrameAssumption
<1> PICK n \in Nat : n = mFramePicFifo.nValidNum
  BY PicFifo
<1> PICK v \in Nat : v = frameFifo.nValidNum
  BY StreamFifo
<1>1. /\ thr # "reset" /\ At("scan") /\ pCurFramePic # NULL
      /\ UNCHANGED <<pWriteAddr, nValidDataSize, frameFifo, pFrames,
                     mFramePicFifo, pCurFramePic, pCurStream>>
  BY DEF StoreNalu, At, ring, streams, FrameInv, PicOpen
<1>2. Fits
  BY <1>1, LayoutFits
<1>3. /\ pCurStream # NULL /\ pCurStream \in StreamSlots
      /\ OnlyRead(frameFifo, pCurStream)
      /\ Len(pCurStreamData) \in Nat
      /\ Len(pCurStreamData) > 0
      /\ CurLength \in Nat
      /\ CurLength + Len(pCurStreamData) <= nValidDataSize
      /\ CurPic.pDataStartAddr =
             IF CurLength = 0 THEN CurAddr
             ELSE pFramePics[pCurFramePic].pDataStartAddr
  BY <1>1, <1>2, ScanFacts
<1> PICK e \in 1 .. Len(pCurStreamData) : e = NaluEnd
  BY <1>2, StoreNaluKeeps
<1>4. /\ CurLength' = CurLength + e
      /\ Len(pCurStreamData') = Len(pCurStreamData) - e
      /\ pFramePics'[pCurFramePic].pDataStartAddr = CurPic.pDataStartAddr
      /\ \A i \in PicSlots \ {pCurFramePic} :
           pFramePics'[i] = pFramePics[i]
  BY <1>2, StoreNaluKeeps
<1>5. v > 0 /\ v <= nMaxFrameNum /\ pCurStream = StreamSlot(0)
  BY <1>3, StreamFifo DEF OnlyRead
<1>6. PICK p, s : Laid(p, s)
  BY <1>1 DEF Layout
<1>7. /\ p \in [0 .. n -> Nat] /\ s \in [0 .. v -> Nat]
      /\ p[0] = 0 /\ s[v] = nValidDataSize
      /\ s[0] = p[n] + CurLength
      /\ \A k \in 0 .. n - 1 : p[k + 1] = p[k] + PicLength(k)
      /\ \A k \in 0 .. v - 1 : s[k + 1] = s[k] + StreamLength(k)
  BY <1>6 DEF Laid
<1>8. /\ \A k \in 0 .. n - 1 : PicAt(k, p[k])
      /\ \A k \in 0 .. v - 1 : StreamAt(k, s[k])
      /\ CurAt(p[n])
  BY <1>6 DEF Laid
<1>9. \A m : RingAddr(m)' = RingAddr(m)
  BY <1>1 DEF RingAddr, FirstAddr
<1>10. /\ StreamLength(0) = Len(pCurStreamData)
       /\ StreamAddr(0) = CurAddr
       /\ StreamLength(0)' = Len(pCurStreamData')
       /\ StreamAddr(0)' = CurAddr'
       /\ \A k : StreamSlot(k)' = StreamSlot(k)
  BY <1>1, <1>5 DEF StreamLength, StreamAddr, StreamSlot
<1>11. CurAddr = RingAddr(s[0])
  <2>1. StreamAt(0, s[0])
    BY <1>5, <1>8
  <2> QED
    BY <1>3, <1>10, <2>1 DEF StreamAt
<1>12. CurAddr' = RingAddr(s[0] + e)
  <2>1. CurAddr' = WrapAddr(CurAddr + e)
    <3>1. PICK d \in Nat : d = pFrames[pCurStream].pData
      BY <1>5 DEF FrameInv, StreamsFit, Addresses
    <3>2. PICK u \in Nat : u = Len(pFrames[pCurStream].units)
      BY <1>3 DEF TypeOK
    <3>3. PICK l \in Nat : l = Len(pCurStreamData)
      BY <1>3
    <3>4. d <= nStreamBufferSize - 1
      BY <1>5, <3>1 DEF FrameInv, StreamsFit, Addresses
    <3>5. u < nStreamBufferSize /\ l <= u
      BY <1>3, <3>2, <3>3 DEF FrameInv, StreamsFit
    <3>6. e <= l
      BY <3>3
    <3>7. CurAddr = WrapAddr(d + u - l)
      BY <3>1, <3>2, <3>3 DEF CurAddr
    <3>8. CurAddr' = WrapAddr(d + u - (l - e))
      BY <1>1, <1>4, <3>1, <3>2, <3>3 DEF CurAddr
    <3>9. ASSUME NEW a \in Nat, a + e <= 2 * nStreamBufferSize - 2
          PROVE  WrapAddr(a + e) = WrapAddr(WrapAddr(a) + e)
      BY <3>9 DEF WrapAddr
    <3>10. PICK a \in Nat : a = d + u - l
      BY <3>5
    <3>11. /\ d + u - (l - e) = a + e
           /\ a + e <= 2 * nStreamBufferSize - 2
      BY <3>4, <3>5, <3>6, <3>10
    <3> QED
      BY <3>7, <3>8, <3>9, <3>10, <3>11
  <2>2. s[0] \in Nat /\ s[0] + e <= nValidDataSize
    <3>1. s[0 + 1] = s[0] + StreamLength(0) /\ s[0] \in Nat
      BY <1>5, <1>7
    <3>2. s[1] <= nValidDataSize /\ s[1] \in Nat /\ nValidDataSize \in Nat
      BY <1>5, <1>6, LaidGrows DEF TypeOK
    <3> QED
      BY <1>3, <1>10, <3>1, <3>2
  <2>3. nValidDataSize < nStreamBufferSize
    BY <1>1 DEF Layout
  <2> QED
    BY <1>11, <2>1, <2>2, <2>3, RingFacts
<1> DEFINE t == [k \in 0 .. v |-> IF k = 0 THEN s[0] + e ELSE s[k]]
<1>13. /\ t \in [0 .. v -> Nat] /\ t[0] = s[0] + e
       /\ \A k \in 1 .. v : t[k] = s[k]
  <2>1. s[0] \in Nat
    BY <1>7
  <2> QED
    BY <1>7, <2>1
<1> HIDE DEF t
<1>14. ASSUME NEW k \in 1 .. v - 1
       PROVE  t[k + 1] = t[k] + StreamLength(k)' /\ StreamAt(k, t[k])'
  <2>1. /\ StreamLength(k)' = StreamLength(k)
        /\ StreamAddr(k)' = StreamAddr(k)
    <3>1. k \in 0 .. nMaxFrameNum - 1 /\ k # 0
      BY <1>5
    <3>2. StreamSlot(k) # StreamSlot(0)
      BY <3>1, StreamFifo
    <3> QED
      BY <1>1, <1>5, <1>10, <3>2 DEF StreamLength, StreamAddr
  <2>0. k \in 0 .. v - 1 /\ k \in 1 .. v /\ k + 1 \in 1 .. v
    BY <1>5
  <2>2. s[k + 1] = s[k] + StreamLength(k)
    BY <1>7, <2>0
  <2>3. StreamAt(k, s[k])
    BY <1>8, <2>0
  <2>4. t[k] = s[k] /\ t[k + 1] = s[k + 1]
    BY <1>13, <2>0
  <2>5. t[k + 1] = t[k] + StreamLength(k)'
    BY <2>1, <2>2, <2>4
  <2>6. StreamAt(k, t[k])'
    BY <1>9, <2>1, <2>3, <2>4 DEF StreamAt
  <2> QED
    BY <2>5, <2>6
<1>15. t[1] = t[0] + StreamLength(0)' /\ StreamAt(0, t[0])'
  <2>1. 0 \in 0 .. v - 1 /\ 1 \in 1 .. v /\ 0 \in 0 .. v
    BY <1>5
  <2>2. s[1] = s[0] + StreamLength(0)
    <3>1. s[0 + 1] = s[0] + StreamLength(0)
      BY <1>7, <2>1
    <3>2. 0 + 1 = 1
      OBVIOUS
    <3> QED
      BY ONLY <3>1, <3>2
  <2>3. s[0] \in Nat
    BY <1>7, <2>1
  <2>4. t[1] = s[1] /\ t[0] = s[0] + e
    BY <1>13, <2>1
  <2>5. t[1] = t[0] + StreamLength(0)'
    <3>1. PICK l \in Nat : l = Len(pCurStreamData)
      BY <1>3
    <3>2. /\ s[1] = s[0] + l /\ StreamLength(0)' = l - e
          /\ t[1] = s[1] /\ t[0] = s[0] + e
      BY <1>4, <1>10, <2>2, <2>4, <3>1
    <3>3. s[0] + l = (s[0] + e) + (l - e)
      BY <2>3, <3>1
    <3> QED
      BY <3>2, <3>3
  <2>6. StreamAt(0, t[0])'
    <3>1. StreamAddr(0)' = RingAddr(s[0] + e)'
      BY <1>9, <1>10, <1>12
    <3> QED
      BY <2>4, <3>1 DEF StreamAt
  <2> QED
    BY <2>5, <2>6
<1>16. ASSUME NEW k \in 0 .. v - 1
       PROVE  t[k + 1] = t[k] + StreamLength(k)' /\ StreamAt(k, t[k])'
  <2>1. CASE k = 0
    <3>1. /\ StreamLength(k)' = StreamLength(0)'
          /\ StreamAddr(k)' = StreamAddr(0)'
      BY <1>1, <2>1 DEF StreamLength, StreamAddr, StreamSlot
    <3>2. t[k + 1] = t[1] /\ t[k] = t[0]
      BY <2>1
    <3>3. StreamAt(k, t[k])'
      BY <1>9, <1>15, <3>1, <3>2 DEF StreamAt
    <3> QED
      BY <1>15, <3>1, <3>2, <3>3
  <2>2. CASE k # 0
    BY <1>14, <2>2
  <2> QED
    BY <2>1, <2>2
<1>17. \A k \in 0 .. n - 1 :
          PicLength(k)' = PicLength(k) /\ PicAddr(k)' = PicAddr(k)
  <2>1. \A k : PicSlot(k)' = PicSlot(k)
    BY <1>1 DEF PicSlot
  <2> QED
    BY <1>1, <1>4, <2>1, OtherPicsSame
<1>18. CurAt(p[n])'
  <2>1. CASE CurLength = 0
    <3>1. p[n] \in Nat /\ s[0] = p[n]
      BY <1>7, <2>1
    <3> QED
      BY <1>1, <1>3, <1>4, <1>9, <1>11, <2>1, <3>1 DEF CurAt
  <2>2. CASE CurLength # 0
    BY <1>1, <1>3, <1>4, <1>8, <1>9, <2>2 DEF CurAt
  <2> QED
    BY <2>1, <2>2
<1>19. Laid(p, t)'
  <2>1. t[0] = p[n] + CurLength' /\ t[v] = nValidDataSize'
    <3>1. p[n] \in Nat
      BY <1>7
    <3>2. t[v] = s[v]
      BY <1>5, <1>13
    <3> QED
      BY <1>1, <1>3, <1>4, <1>7, <1>13, <3>1, <3>2
  <2>2. \A k \in 0 .. n - 1 :
           p[k + 1] = p[k] + PicLength(k)' /\ PicAt(k, p[k])'
    BY <1>7, <1>8, <1>9, <1>17 DEF PicAt
  <2> QED
    BY <1>1, <1>7, <1>13, <1>16, <1>18, <2>1, <2>2 DEF Laid
<1> QED
  BY <1>1, <1>19 DEF Layout

\* The current picture becomes the youngest one of the fifo.
LEMMA AppendLaid ==
    ASSUME TypeOK, FrameInv, Layout, thr # "reset",
           pCurFramePic # NULL, AddFramePic,
           UNCHANGED <<pWriteAddr, nValidDataSize, frameFifo, pFrames,
                       pCurStream, pCurStreamData>>,
           pFramePics'[pCurFramePic].nlength = CurLength,
           CurLength > 0 => pFramePics'[pCurFramePic].pDataStartAddr
                                = pFramePics[pCurFramePic].pDataStartAddr,
           \A i \in PicSlots \ {pCurFramePic} :
              pFramePics'[i] = pFramePics[i]
    PROVE  Layout'
<1> USE FrameAssumption
<1> PICK n \in Nat : n = mFramePicFifo.nValidNum
  BY PicFifo
<1> PICK v \in Nat : v = frameFifo.nValidNum
  BY StreamFifo
<1>1. /\ mFramePicFifo'.nValidNum = n + 1
      /\ \A k : PicSlot(k)' = PicSlot(k)
      /\ pCurFramePic = PicSlot(n) /\ CurLength' = 0
  BY AddPicFacts
<1>2. PICK p, s : Laid(p, s)
  BY DEF Layout
<1>3. /\ p \in [0 .. n -> Nat] /\ s \in [0 .. v -> Nat]
      /\ p[0] = 0 /\ s[v] = nValidDataSize
      /\ s[0] = p[n] + CurLength
      /\ \A k \in 0 .. n - 1 : p[k + 1] = p[k] + PicLength(k)
      /\ \A k \in 0 .. v - 1 : s[k + 1] = s[k] + StreamLength(k)
  BY <1>2 DEF Laid
<1>4. /\ \A k \in 0 .. n - 1 : PicAt(k, p[k])
      /\ \A k \in 0 .. v - 1 : StreamAt(k, s[k])
      /\ CurAt(p[n])
  BY <1>2 DEF Laid
<1>5. \A m : RingAddr(m)' = RingAddr(m)
  BY DEF RingAddr, FirstAddr
<1>6. CurLength \in Nat /\ p[n] \in Nat
  BY <1>3, Lengths
<1> PICK l \in Nat : l = CurLength
  BY <1>6
<1> DEFINE q == [k \in 0 .. n + 1 |-> IF k = n + 1 THEN p[n] + l
                                      ELSE p[k]]
<1>7. /\ q \in [0 .. n + 1 -> Nat]
      /\ \A k \in 0 .. n : q[k] = p[k]
      /\ q[n + 1] = p[n] + CurLength
      /\ q[n + 1] \in Nat
  BY <1>3, <1>6
<1> HIDE DEF q
<1>8. ASSUME NEW k \in 0 .. n
      PROVE  q[k + 1] = q[k] + PicLength(k)' /\ PicAt(k, q[k])'
  <2>1. CASE k = n
    <3>1. /\ PicLength(k)' = CurLength
          /\ PicAddr(k)' = pFramePics'[pCurFramePic].pDataStartAddr
      BY <1>1, <2>1 DEF PicLength, PicAddr
    <3>0. n \in 0 .. n /\ q[n] = p[n]
      BY <1>7
    <3>2. q[k] = p[n] /\ q[k + 1] = p[n] + CurLength
      BY <1>7, <2>1, <3>0
    <3>3. q[k + 1] = q[k] + PicLength(k)'
      BY <3>1, <3>2
    <3>4. PicAt(k, q[k])'
      <4>1. CurLength > 0 => pFramePics[pCurFramePic].pDataStartAddr
                                = RingAddr(p[n])
        BY <1>4 DEF CurAt
      <4>2. PicLength(k)' > 0 => PicAddr(k)' = RingAddr(p[n])'
        BY <1>5, <3>1, <4>1
      <4> QED
        BY <3>2, <4>2 DEF PicAt
    <3> QED
      BY <3>3, <3>4
  <2>2. CASE k # n
    <3>1. k \in 0 .. n - 1 /\ k \in 0 .. n /\ k + 1 \in 0 .. n
      BY <2>2
    <3>2. q[k] = p[k] /\ q[k + 1] = p[k + 1]
      BY <1>7, <3>1
    <3>3. PicLength(k)' = PicLength(k) /\ PicAddr(k)' = PicAddr(k)
      BY <1>1, <3>1, OtherPicsSame
    <3>4. p[k + 1] = p[k] + PicLength(k)
      BY <1>3, <3>1
    <3>5. PicAt(k, p[k])
      BY <1>4, <3>1
    <3>6. q[k + 1] = q[k] + PicLength(k)'
      BY <3>2, <3>3, <3>4
    <3>7. PicAt(k, q[k])'
      BY <1>5, <3>2, <3>3, <3>5 DEF PicAt
    <3> QED
      BY <3>6, <3>7
  <2> QED
    BY <2>1, <2>2
<1>9. ASSUME NEW k \in 0 .. v - 1
      PROVE  s[k + 1] = s[k] + StreamLength(k)' /\ StreamAt(k, s[k])'
  <2>1. \A i : StreamSlot(i)' = StreamSlot(i)
    BY DEF StreamSlot
  <2>2. /\ StreamLength(k)' = StreamLength(k)
        /\ StreamAddr(k)' = StreamAddr(k)
    BY <2>1, StreamsSame
  <2>3. s[k + 1] = s[k] + StreamLength(k)'
    BY <1>3, <2>2
  <2>4. StreamAt(k, s[k])
    BY <1>4
  <2>5. StreamAt(k, s[k])'
    BY <1>5, <2>2, <2>4 DEF StreamAt
  <2> QED
    BY <2>3, <2>5
<1>10. Laid(q, s)'
  <2>0. 0 \in 0 .. n
    OBVIOUS
  <2>1. q[0] = 0 /\ s[0] = q[n + 1] + CurLength'
    BY <1>1, <1>3, <1>6, <1>7, <2>0
  <2>2. CurAt(q[n + 1])'
    BY <1>1 DEF CurAt
  <2>3. \A k \in 0 .. mFramePicFifo'.nValidNum - 1 :
           q[k + 1] = q[k] + PicLength(k)' /\ PicAt(k, q[k])'
    <3>1. mFramePicFifo'.nValidNum - 1 = n
      BY <1>1
    <3> QED
      BY <1>8, <3>1
  <2> QED
    BY <1>1, <1>3, <1>7, <1>9, <2>1, <2>2, <2>3 DEF Laid
<1> QED
  BY <1>10 DEF Layout

\* So it is with every picture the detector hands over.
LEMMA AddPicLaid ==
    ASSUME TypeOK, FrameInv, Layout, Starved \/ PictureFound \/ AddInvalidPic
    PROVE  Layout'
<1>1. /\ thr # "reset" /\ pCurFramePic # NULL /\ pCurFramePic \in PicSlots
      /\ UNCHANGED <<pWriteAddr, nValidDataSize, frameFifo, pFrames,
                     pCurStream, pCurStreamData>>
  BY DEF Starved, PictureFound, AddInvalidPic, At, ring, streams, FrameInv,
     PicOpen, TypeOK
<1>2. CASE PictureFound
  <2>1. Fits
    BY <1>1, LayoutFits
  <2>2. /\ AddFramePic
        /\ pFramePics'[pCurFramePic].nlength = CurLength
        /\ CurLength > 0 => pFramePics'[pCurFramePic].pDataStartAddr
                                = pFramePics[pCurFramePic].pDataStartAddr
        /\ \A i \in PicSlots \ {pCurFramePic} :
             pFramePics'[i] = pFramePics[i]
    BY <1>2, <2>1, PictureFoundKeeps
  <2> QED
    BY <1>1, <2>2, AppendLaid
<1>3. CASE (Starved \/ AddInvalidPic) /\ AddFramePic
  <2>1. UNCHANGED pFramePics
    BY <1>3 DEF Starved, AddInvalidPic
  <2>2. pFramePics[pCurFramePic].nlength = CurLength
    BY <1>1 DEF CurLength
  <2> QED
    BY <1>1, <1>3, <2>1, <2>2, AppendLaid
<1>4. CASE (Starved \/ AddInvalidPic) /\ ~ AddFramePic
  <2>1. UNCHANGED <<pFramePics, pCurFramePic, mFramePicFifo>>
    BY <1>4 DEF Starved, AddInvalidPic
  <2>2. /\ \A k : StreamSlot(k)' = StreamSlot(k) /\ PicSlot(k)' = PicSlot(k)
        /\ CurLength' = CurLength
    BY <1>1, <2>1 DEF StreamSlot, PicSlot, CurLength
  <2> QED
    BY <1>1, <2>1, <2>2, PicsSame, StreamsSame, LayoutSame
<1> QED
  BY <1>2, <1>3, <1>4

\* After a reset nothing lies in the ring.
LEMMA EmptyLaid ==
    ASSUME mFramePicFifo.nValidNum = 0, frameFifo.nValidNum = 0,
           nValidDataSize = 0, CurLength = 0
    PROVE  Layout
<1> USE FrameAssumption
<1> DEFINE p == [k \in 0 .. 0 |-> 0]
<1>1. p \in [0 .. 0 -> Nat] /\ p[0] = 0
  OBVIOUS
<1> HIDE DEF p
<1>2. Laid(p, p)
  BY <1>1 DEF Laid, CurAt
<1> QED
  BY <1>2 DEF Layout


-----------------------------------------------------------------------------
(* The inductive invariant. *)

FrameIInv == ThreadIInv /\ TypeOK /\ FrameInv /\ Layout

\* Initially nothing lies in the ring, and nothing is to be detected.
LEMMA InitFrameIInv == Init => FrameIInv
<1> SUFFICES ASSUME Init PROVE FrameIInv
  OBVIOUS
<1> USE FrameAssumption
<1>1. ThreadIInv
  BY InitThreadIInv DEF Init
<1>2. /\ 0 \in Addresses /\ 0 \in 0 .. nStreamBufferSize
      /\ <<>> \in Seq(Units) /\ <<>> \in Seq(Nalu) /\ Len(<<>>) = 0
  BY DEF Addresses
<1>3. /\ EmptyFifo \in Fifos(nMaxFrameNum)
      /\ EmptyFifo \in Fifos(nMaxFramePicNum)
  BY DEF EmptyFifo, Fifos
<1>4. TypeOK
  <2>1. /\ NoStream \in [pData : Addresses \cup {NULL}, units : Seq(Units)]
        /\ NoPic \in [pDataStartAddr : Addresses \cup {NULL},
                      nlength : 0 .. nStreamBufferSize,
                      nalus : Seq(Nalu), bValidFlag : 0 .. 1]
    BY <1>2 DEF NoStream, NoPic
  <2>2. ThreadTypeOK
    BY <1>1 DEF ThreadIInv
  <2>3. /\ pFrames \in [StreamSlots -> [pData : Addresses \cup {NULL},
                                        units : Seq(Units)]]
        /\ pFramePics \in [PicSlots ->
                            [pDataStartAddr : Addresses \cup {NULL},
                             nlength : 0 .. nStreamBufferSize,
                             nalus : Seq(Nalu), bValidFlag : 0 .. 1]]
    BY <2>1 DEF Init
  <2>4. /\ ended \in BOOLEAN /\ aborted \in BOOLEAN
        /\ pCurFramePic \in PicSlots \cup {NULL}
        /\ pCurStream \in StreamSlots \cup {NULL}
        /\ pStream \in StreamSlots \cup {NULL}
        /\ held \in PicSlots \cup {NULL}
        /\ pCurStreamData \in Seq(Units)
        /\ step \in {"start", "check", "supply", "empty", "starved", "scan",
                    "disposed"}
    BY <1>2, Zenon DEF Init
  <2>5. /\ pWriteAddr \in Addresses
        /\ nValidDataSize \in 0 .. nStreamBufferSize
        /\ frameFifo \in Fifos(nMaxFrameNum)
        /\ mFramePicFifo \in Fifos(nMaxFramePicNum)
        /\ bStreamWithStartCode \in {-1, 0, 1}
        /\ nEosFlag \in 0 .. 1
        /\ bCurFrameStartCodeFound \in 0 .. 1
    BY <1>2, <1>3 DEF Init
  <2> QED
    BY <2>2, <2>3, <2>4, <2>5 DEF TypeOK
<1>5. CurLength = 0
  BY DEF Init, CurLength
<1>6. FrameInv
  <2>1. FifosAgree
    BY <1>3 DEF Init, FifosAgree, FifoAgrees, EmptyFifo, Slot
  <2>2. HeldRead /\ StreamRead /\ PicOpen /\ AtPoints /\ TypeUnknown
    BY <1>5 DEF Init, ThreadInit, HeldRead, StreamRead, PicOpen, AtPoints,
       TypeUnknown, NoneRead, EmptyFifo, Starting
  <2>3. CurPicKnown /\ StreamsFit /\ NoAbort
    BY <1>2 DEF Init, CurPicKnown, StreamsFit, NoAbort, EmptyFifo, NoStream
  <2> QED
    BY <2>1, <2>2, <2>3 DEF FrameInv
<1>7. Layout
  BY <1>5, EmptyLaid DEF Init, EmptyFifo
<1> QED
  BY <1>1, <1>4, <1>6, <1>7 DEF FrameIInv

\* During the calls of the player the thread is not resetting.
LEMMA IdleThread ==
    ASSUME ThreadIInv, ctl = "idle"
    PROVE  thr # "reset"
BY DEF ThreadIInv, ThreadInv, QueueShape, Undisturbed, Reading

\* At the end of a reset nothing lies in the ring.
LEMMA ResetAllLaid == ResetAll => Layout'
<1>1. /\ mFramePicFifo.nValidNum = 0 /\ frameFifo.nValidNum = 0
      /\ nValidDataSize = 0 /\ CurLength = 0
      => Layout
  BY EmptyLaid
<1>2. ResetAll => (/\ mFramePicFifo.nValidNum = 0 /\ frameFifo.nValidNum = 0
                   /\ nValidDataSize = 0 /\ CurLength = 0)'
  BY DEF ResetAll, EmptyFifo, CurLength, PicAfterReset
<1> QED
  BY <1>1, <1>2, PTL

\* Each step of the detection keeps the invariant,
LEMMA DetectKeeps ==
    ASSUME FrameIInv, Detect
    PROVE  TypeOK' /\ FrameInv' /\ Layout'
<1> USE DEF FrameIInv
<1>1. thr # "reset" => Fits
  BY LayoutFits
<1>2. CASE CheckRequest
  BY <1>2, CheckRequestKeeps, CheckLaid
<1>3. CASE CheckUnknown
  BY <1>1, <1>3, CheckUnknownKeeps, CheckUnknownLaid DEF CheckUnknown, At
<1>4. CASE CheckKnown
  BY <1>4, CheckKnownKeeps, CheckLaid
<1>5. CASE DetectStart
  BY <1>5, DetectStartKeeps, DetectStartLaid
<1>6. CASE SupplyFlush
  BY <1>1, <1>6, SupplyFlushKeeps, SupplyFlushLaid DEF SupplyFlush, At
<1>7. CASE SupplyRequest
  BY <1>7, SupplyRequestKeeps, SupplyRequestLaid
<1>8. CASE SupplyEmpty
  BY <1>8, SupplyEmptyKeeps, SupplyEmptyLaid
<1>9. CASE Starved
  BY <1>9, StarvedKeeps, AddPicLaid
<1>10. CASE StoreNalu
  BY <1>1, <1>10, StoreNaluKeeps, StoreNaluLaid DEF StoreNalu, At
<1>11. CASE PictureFound
  BY <1>1, <1>11, PictureFoundKeeps, AddPicLaid DEF PictureFound, At
<1>12. CASE DisposeInvalidStreamData
  BY <1>1, <1>12, DisposeKeeps, SupplyFlushLaid
     DEF DisposeInvalidStreamData, At
<1>13. CASE AddInvalidPic
  BY <1>13, AddInvalidKeeps, AddPicLaid
<1>14. CASE ResetFlush
  BY <1>14, ResetFlushKeeps DEF ResetFlush, threadVars, Layout
<1>15. CASE ResetAll
  BY <1>15, ResetAllKeeps, ResetAllLaid DEF ThreadIInv
<1> QED
  BY <1>2, <1>3, <1>4, <1>5, <1>6, <1>7, <1>8, <1>9, <1>10, <1>11, <1>12,
     <1>13, <1>14, <1>15 DEF Detect

\* each call of the player,
LEMMA ClientKeeps ==
    ASSUME FrameIInv, Client
    PROVE  TypeOK' /\ FrameInv' /\ Layout'
<1> USE DEF FrameIInv
<1>1. ctl = "idle"
  BY DEF Client, SbmFrameAddStream, SbmFrameSetEos, SbmFrameRequestFramePic,
         SbmFrameReturnFramePic, SbmFrameFlushFramePic
<1>2. thr # "reset" /\ Fits
  BY <1>1, IdleThread, LayoutFits
<1>3. ASSUME NEW c \in Contents, SbmFrameAddStream(c)
      PROVE  TypeOK' /\ FrameInv' /\ Layout'
  BY <1>2, <1>3, AddStreamKeeps, AddStreamLaid
<1>4. CASE SbmFrameSetEos
  BY <1>2, <1>4, SetEosKeeps, HandshakeLaid DEF SbmFrameSetEos
<1>5. CASE SbmFrameRequestFramePic
  BY <1>5, RequestPicKeeps, DecoderLaid
<1>6. CASE SbmFrameReturnFramePic
  BY <1>6, ReturnPicKeeps, DecoderLaid
<1>7. CASE SbmFrameFlushFramePic
  BY <1>2, <1>7, FlushPicKeeps, FlushPicLaid
<1> QED
  BY <1>3, <1>4, <1>5, <1>6, <1>7 DEF Client

\* and every other step.
LEMMA StepFrameIInv == FrameIInv /\ [Next]_vars => FrameIInv'
<1> SUFFICES ASSUME FrameIInv, [Next]_vars PROVE FrameIInv'
  OBVIOUS
<1> USE DEF FrameIInv
<1>1. ThreadIInv' /\ ThreadTypeOK'
  <2>1. ThreadIInv'
    BY NextThread, StepThreadIInv
  <2> QED
    BY <2>1 DEF ThreadIInv
<1>2. CASE Detect
  BY <1>1, <1>2, DetectKeeps
<1>3. CASE Messages
  <2>1. TypeOK' /\ FrameInv' /\ thr # "reset"
    BY <1>1, <1>3, MessagesKeep
  <2>2. Layout'
    BY <1>3, <2>1, HandshakeLaid DEF Messages, frameVars
  <2> QED
    BY <1>1, <2>1, <2>2
<1>4. CASE ResetCall \/ DestroyCall \/ Calls \/ InitType
  <2>1. TypeOK' /\ FrameInv'
    BY <1>1, <1>4, CallsKeep, InitTypeKeeps
  <2>2. UNCHANGED thr
    BY <1>4 DEF ResetCall, DestroyCall, Calls, InitType, PostReset,
       PostQuit, InitRead, InitReadSem, InitDone, PostResetSem, ResetWait,
       ResetRead, ResetReadSem, PostQuitSem, Join, Post, PostSem
  <2>3. UNCHANGED <<ring, streams, pictures, detect>>
    BY <1>4 DEF ResetCall, DestroyCall, Calls, InitType, frameVars
  <2>4. Layout'
    BY <2>2, <2>3, HandshakeLaid
  <2> QED
    BY <1>1, <2>1, <2>4
<1>5. CASE Client
  BY <1>1, <1>5, ClientKeeps
<1>6. CASE Finished \/ UNCHANGED vars
  <2>1. UNCHANGED vars
    BY <1>6 DEF Finished, Destroyed, vars
  <2>2. UNCHANGED <<ring, streams, pictures, bStreamWithStartCode, detect,
                    pStream, step, held, nEosFlag, ended, aborted, thr, ctl>>
    BY <2>1 DEF vars, threadVars, frameVars, player
  <2>3. /\ ended' \in BOOLEAN
        /\ ctl' # "idle" => held = NULL
        /\ thr' # "read" => step = "start"
        /\ Starting' => Starting
    BY <2>2 DEF FrameInv, HeldRead, AtPoints, TypeOK, Starting
  <2>4. TypeOK' /\ FrameInv'
    BY <1>1, <2>2, <2>3, HandshakeKeeps
  <2>5. Layout'
    BY <2>2, HandshakeLaid
  <2> QED
    BY <1>1, <2>4, <2>5
<1> QED
  BY <1>2, <1>3, <1>4, <1>5, <1>6 DEF Next

\* It holds always.
LEMMA FrameIInvAlways == Spec => []FrameIInv
  BY InitFrameIInv, StepFrameIInv, PTL DEF Spec

-----------------------------------------------------------------------------
(* The sums of SbmFrame are the ones of the layout. *)

\* Two functions agree that begin alike and go on alike.
LEMMA SameSums ==
    ASSUME NEW n \in Nat, NEW f, NEW g, f[0] = g[0],
           \A k \in 0 .. n - 1 : f[k] = g[k] => f[k + 1] = g[k + 1]
    PROVE  \A k \in 0 .. n : f[k] = g[k]
<1> DEFINE T == {k \in 0 .. n : f[k] # g[k]}
<1> SUFFICES ASSUME T # {} PROVE FALSE
  OBVIOUS
<1>1. PICK k \in T : \A i \in T : k <= i
  <2>1. T \subseteq Nat /\ T # {}
    OBVIOUS
  <2> HIDE DEF T
  <2> QED
    BY <2>1, LeastNumber
<1>2. k \in 0 .. n /\ f[k] # g[k] /\ k # 0
  BY <1>1
<1>3. k - 1 \in 0 .. n - 1 /\ k - 1 \in 0 .. n /\ k - 1 \notin T
  BY <1>1, <1>2
<1>4. f[k - 1] = g[k - 1]
  BY <1>3
<1>5. f[(k - 1) + 1] = g[(k - 1) + 1]
  BY <1>3, <1>4
<1>6. (k - 1) + 1 = k
  BY <1>2
<1> QED
  BY <1>2, <1>5, <1>6

\* The bytes in front of each picture are given by the layout,
LEMMA PicsBeforeLaid ==
    ASSUME TypeOK, FrameInv, NEW p, NEW s, Laid(p, s)
    PROVE  \A k \in 0 .. mFramePicFifo.nValidNum : PicsBefore[k] = p[k]
<1> PICK n \in Nat : n = mFramePicFifo.nValidNum
  BY PicFifo
<1> DEFINE Sums(h) == h = [k \in 0 .. n |->
                IF k = 0 THEN 0 ELSE h[k - 1] + PicLength(k - 1)]
<1>1. Sums(p)
  <2>1. /\ p \in [0 .. n -> Nat] /\ p[0] = 0
        /\ \A k \in 0 .. n - 1 : p[k + 1] = p[k] + PicLength(k)
    BY DEF Laid
  <2>2. ASSUME NEW k \in 0 .. n, k # 0
        PROVE  p[k] = p[k - 1] + PicLength(k - 1)
    <3>1. k - 1 \in 0 .. n - 1 /\ (k - 1) + 1 = k
      BY <2>2
    <3>2. p[(k - 1) + 1] = p[k - 1] + PicLength(k - 1)
      BY <2>1, <3>1
    <3> QED
      BY <3>1, <3>2
  <2> QED
    BY <2>1, <2>2
<1>2. PicsBefore = CHOOSE h : Sums(h)
  BY DEF PicsBefore
<1>3. Sums(PicsBefore)
  <2> HIDE DEF Sums
  <2> QED
    BY <1>1, <1>2
<1>4. PicsBefore[0] = p[0]
  BY <1>1, <1>3
<1>5. ASSUME NEW k \in 0 .. n - 1, PicsBefore[k] = p[k]
      PROVE  PicsBefore[k + 1] = p[k + 1]
  <2>1. k + 1 \in 0 .. n /\ k + 1 # 0 /\ (k + 1) - 1 = k
    OBVIOUS
  <2>2. PicsBefore[k + 1] = PicsBefore[k] + PicLength(k)
    BY <1>3, <2>1
  <2>3. p[k + 1] = p[k] + PicLength(k)
    BY DEF Laid
  <2> QED
    BY <1>5, <2>2, <2>3
<1> QED
  BY <1>4, <1>5, SameSums

\* and so are the bytes in front of each stream.
LEMMA StreamsBeforeLaid ==
    ASSUME TypeOK, FrameInv, NEW p, NEW s, Laid(p, s)
    PROVE  \A k \in 0 .. frameFifo.nValidNum : StreamsBefore[k] = s[k]
<1> PICK n \in Nat : n = mFramePicFifo.nValidNum
  BY PicFifo
<1> PICK v \in Nat : v = frameFifo.nValidNum
  BY StreamFifo
<1> DEFINE Sums(h) == h = [k \in 0 .. v |->
                IF k = 0 THEN PicsBefore[n] + CurLength
                         ELSE h[k - 1] + StreamLength(k - 1)]
<1>1. Sums(s)
  <2>1. /\ s \in [0 .. v -> Nat] /\ s[0] = PicsBefore[n] + CurLength
        /\ \A k \in 0 .. v - 1 : s[k + 1] = s[k] + StreamLength(k)
    <3>1. n \in 0 .. n
      OBVIOUS
    <3>2. PicsBefore[n] = p[n]
      BY <3>1, PicsBeforeLaid
    <3> QED
      BY <3>2 DEF Laid
  <2>2. ASSUME NEW k \in 0 .. v, k # 0
        PROVE  s[k] = s[k - 1] + StreamLength(k - 1)
    <3>1. k - 1 \in 0 .. v - 1 /\ (k - 1) + 1 = k
      BY <2>2
    <3>2. s[(k - 1) + 1] = s[k - 1] + StreamLength(k - 1)
      BY <2>1, <3>1
    <3> QED
      BY <3>1, <3>2
  <2> QED
    BY <2>1, <2>2
<1>2. StreamsBefore = CHOOSE h : Sums(h)
  BY DEF StreamsBefore
<1>3. Sums(StreamsBefore)
  <2> HIDE DEF Sums
  <2> QED
    BY <1>1, <1>2
<1>4. StreamsBefore[0] = s[0]
  BY <1>1, <1>3
<1>5. ASSUME NEW k \in 0 .. v - 1, StreamsBefore[k] = s[k]
      PROVE  StreamsBefore[k + 1] = s[k + 1]
  <2>1. k + 1 \in 0 .. v /\ k + 1 # 0 /\ (k + 1) - 1 = k
    OBVIOUS
  <2>2. StreamsBefore[k + 1] = StreamsBefore[k] + StreamLength(k)
    BY <1>3, <2>1
  <2>3. s[k + 1] = s[k] + StreamLength(k)
    BY DEF Laid
  <2> QED
    BY <1>5, <2>2, <2>3
<1> QED
  BY <1>4, <1>5, SameSums

\* So the layout says what BytesAccounted does.
LEMMA LayoutAccounts ==
    ASSUME TypeOK, FrameInv, Layout
    PROVE  BytesAccounted
<1> SUFFICES ASSUME thr # "reset"
             PROVE  BytesAccounted
  BY DEF BytesAccounted
<1>1. PICK p, s : Laid(p, s)
  BY DEF Layout
<1> PICK n \in Nat : n = mFramePicFifo.nValidNum
  BY PicFifo
<1> PICK v \in Nat : v = frameFifo.nValidNum
  BY StreamFifo
<1>2. \A k \in 0 .. n : PicsBefore[k] = p[k]
  BY <1>1, PicsBeforeLaid
<1>3. \A k \in 0 .. v : StreamsBefore[k] = s[k]
  BY <1>1, StreamsBeforeLaid
<1>4. StreamsBefore[v] = nValidDataSize
  BY <1>1, <1>3 DEF Laid
<1>5. ASSUME NEW k \in 0 .. n - 1, PicLength(k) > 0
      PROVE  PicAddr(k) = RingAddr(PicsBefore[k])
  <2>1. k \in 0 .. n
    OBVIOUS
  <2>2. PicAt(k, p[k])
    BY <1>1 DEF Laid
  <2> QED
    BY <1>2, <1>5, <2>1, <2>2 DEF PicAt
<1>6. CurLength > 0 =>
         pFramePics[pCurFramePic].pDataStartAddr = RingAddr(PicsBefore[n])
  <2>1. n \in 0 .. n /\ CurAt(p[n])
    BY <1>1 DEF Laid
  <2> QED
    BY <1>2, <2>1 DEF CurAt
<1>7. ASSUME NEW k \in 0 .. v - 1, StreamLength(k) > 0
      PROVE  StreamAddr(k) = RingAddr(StreamsBefore[k])
  <2>1. k \in 0 .. v
    OBVIOUS
  <2>2. StreamAt(k, s[k])
    BY <1>1 DEF Laid
  <2> QED
    BY <1>3, <1>7, <2>1, <2>2 DEF StreamAt
<1> QED
  BY <1>4, <1>5, <1>6, <1>7 DEF BytesAccounted

-----------------------------------------------------------------------------
(* What the frame mode promises. *)

\* The positions and counters of both fifos stay in range and no abort() of
\* the stream buffer manager is reached.
THEOREM FrameFifosSound == Spec => []FifosSound
<1>1. FrameIInv => FifosSound
  BY DEF FrameIInv, FrameInv, FifosSound
<1> QED
  BY <1>1, FrameIInvAlways, PTL

\* Every byte in the ring belongs to one picture, to the picture being made
\* or to one stream, and they lie one behind the other in the order in which
\* they came: outside a reset nValidDataSize is their sum and the address of
\* each follows from what lies in front of it.
THEOREM FrameBytesAccounted == Spec => []BytesAccounted
<1>1. FrameIInv => BytesAccounted
  BY LayoutAccounts DEF FrameIInv
<1> QED
  BY <1>1, FrameIInvAlways, PTL

-----------------------------------------------------------------------------
(* The pictures are whole, if none grows too large.  A picture in which a  *)
(* NAL unit has begun is added as an invalid one when it grows beyond      *)
(* MaxInvalid; bCurFrameStartCodeFound is not reset then, and the next     *)
(* picture is taken for one that has begun.                                *)

Whole(nalus) ==
    \E i \in DOMAIN nalus :
        /\ nalus[i] = "F"
        /\ \A j \in DOMAIN nalus \ {i} :
             nalus[j] = "S" \/ (j < i /\ nalus[j] = "H")

Unbegun(nalus) == \A i \in DOMAIN nalus : nalus[i] \in {"H", "S"}

\* The pictures in the fifo,
FifoWhole ==
    \A k \in 0 .. mFramePicFifo.nValidNum - 1 :
      pFramePics[PicSlot(k)].bValidFlag = 1 =>
          Whole(pFramePics[PicSlot(k)].nalus)

\* and the one being made.
CurWhole ==
    /\ pCurFramePic = NULL => bCurFrameStartCodeFound = 0
    /\ pCurFramePic # NULL =>
         /\ bCurFrameStartCodeFound = 1 =>
                Whole(pFramePics[pCurFramePic].nalus)
         /\ bCurFrameStartCodeFound = 0 =>
                Unbegun(pFramePics[pCurFramePic].nalus)
         /\ CurLength = 0 => pFramePics[pCurFramePic].nalus = <<>>
         /\ step # "disposed" => pFramePics[pCurFramePic].bValidFlag = 1
    /\ step = "disposed" => /\ bCurFrameStartCodeFound = 0
                            /\ pFramePics[pCurFramePic].bValidFlag = 0

WholeInv == FifoWhole /\ CurWhole

\* Nothing changes where a step leaves the pictures alone.
LEMMA WholeSame ==
    ASSUME WholeInv,
           UNCHANGED <<pFramePics, pCurFramePic, bCurFrameStartCodeFound>>,
           mFramePicFifo'.nValidNum = mFramePicFifo.nValidNum,
           \A k : PicSlot(k)' = PicSlot(k),
           step' = "disposed" <=> step = "disposed"
    PROVE  WholeInv'
<1>1. FifoWhole'
  BY DEF WholeInv, FifoWhole
<1>2. CurLength' = CurLength
  BY DEF CurLength
<1>3. CurWhole'
  BY <1>2 DEF WholeInv, CurWhole
<1> QED
  BY <1>1, <1>3 DEF WholeInv

\* The pictures in the fifo are not the one being made.
LEMMA OtherPicsWhole ==
    ASSUME TypeOK, FrameInv, FifoWhole, pCurFramePic # NULL,
           \A k : PicSlot(k)' = PicSlot(k),
           \A i \in PicSlots \ {pCurFramePic} : pFramePics'[i] = pFramePics[i]
    PROVE  \A k \in 0 .. mFramePicFifo.nValidNum - 1 :
              pFramePics'[PicSlot(k)'].bValidFlag = 1 =>
                  Whole(pFramePics'[PicSlot(k)'].nalus)
<1> USE FrameAssumption
<1> PICK n \in Nat : n = mFramePicFifo.nValidNum
  BY PicFifo
<1>1. n < nMaxFramePicNum /\ pCurFramePic = PicSlot(n)
  BY PicFifo DEF FrameInv, PicOpen
<1>2. ASSUME NEW k \in 0 .. n - 1
      PROVE  pFramePics'[PicSlot(k)'] = pFramePics[PicSlot(k)]
  <2>1. /\ k \in 0 .. nMaxFramePicNum - 1 /\ n \in 0 .. nMaxFramePicNum - 1
        /\ k # n
    BY <1>1
  <2>2. PicSlot(k) \in PicSlots /\ PicSlot(k) # PicSlot(n)
    BY <2>1, PicFifo
  <2> QED
    BY <1>1, <2>2
<1> QED
  BY <1>2 DEF FifoWhole

\* One more picture, valid only if it is whole.
LEMMA AddPicWhole ==
    ASSUME TypeOK, FrameInv, FifoWhole, pCurFramePic # NULL, AddFramePic,
           \A i \in PicSlots \ {pCurFramePic} : pFramePics'[i] = pFramePics[i],
           pFramePics'[pCurFramePic].bValidFlag = 1 =>
               Whole(pFramePics'[pCurFramePic].nalus)
    PROVE  FifoWhole'
<1> PICK n \in Nat : n = mFramePicFifo.nValidNum
  BY PicFifo
<1>1. /\ mFramePicFifo'.nValidNum = n + 1
      /\ \A k : PicSlot(k)' = PicSlot(k)
      /\ pCurFramePic = PicSlot(n)
  BY AddPicFacts
<1>2. ASSUME NEW k \in 0 .. n
      PROVE  (pFramePics[PicSlot(k)].bValidFlag = 1 =>
                 Whole(pFramePics[PicSlot(k)].nalus))'
  <2>1. CASE k = n
    <3>1. PicSlot(k)' = pCurFramePic
      BY <1>1, <2>1
    <3> QED
      BY <3>1
  <2>2. CASE k # n
    <3>1. k \in 0 .. mFramePicFifo.nValidNum - 1
      BY <2>2
    <3> QED
      BY <1>1, <3>1, OtherPicsWhole
  <2> QED
    BY <2>1, <2>2
<1>3. mFramePicFifo'.nValidNum - 1 = n
  BY <1>1
<1> QED
  BY <1>2, <1>3 DEF FifoWhole

\* A NAL unit more of the same picture leaves it whole,
LEMMA AppendWhole ==
    ASSUME NEW nalus \in Seq(Nalu), NEW kind \in Nalu
    PROVE  /\ Whole(nalus) /\ kind = "S" => Whole(Append(nalus, kind))
           /\ Unbegun(nalus) /\ kind = "F" => Whole(Append(nalus, kind))
           /\ Unbegun(nalus) /\ kind # "F" => Unbegun(Append(nalus, kind))
<1> DEFINE q == Append(nalus, kind)
           n == Len(nalus)
<1>1. /\ n \in Nat /\ DOMAIN nalus = 1 .. n /\ DOMAIN q = 1 .. n + 1
      /\ \A i \in 1 .. n : q[i] = nalus[i]
      /\ q[n + 1] = kind
  OBVIOUS
<1>2. DOMAIN q = DOMAIN nalus \cup {n + 1}
  BY <1>1
<1>3. \A i \in DOMAIN nalus : i < n + 1
  BY <1>1
<1> HIDE DEF q, n
<1>4. ASSUME Whole(nalus), kind = "S" PROVE Whole(q)
  BY <1>1, <1>2, <1>4 DEF Whole
<1>5. ASSUME Unbegun(nalus), kind = "F" PROVE Whole(q)
  <2>1. n + 1 \in DOMAIN q /\ q[n + 1] = "F"
    BY <1>1, <1>2, <1>5
  <2>2. ASSUME NEW j \in DOMAIN q \ {n + 1}
        PROVE  q[j] = "S" \/ (j < n + 1 /\ q[j] = "H")
    BY <1>1, <1>2, <1>3, <1>5 DEF Unbegun
  <2> QED
    BY <2>1, <2>2 DEF Whole
<1>6. ASSUME Unbegun(nalus), kind # "F" PROVE Unbegun(q)
  BY <1>1, <1>2, <1>6 DEF Unbegun, Nalu
<1> QED
  BY <1>4, <1>5, <1>6 DEF q

\* The step of the theorem: no picture grows too large that has begun.
NotOutgrown == step' = "disposed" => bCurFrameStartCodeFound = 0

\* A NAL unit goes with the current picture.
LEMMA StoreNaluWhole ==
    ASSUME TypeOK, FrameInv, Layout, WholeInv, StoreNalu
    PROVE  WholeInv'
<1> DEFINE kind == pCurStreamData[NaluPos]
           nalus == pFramePics[pCurFramePic].nalus
<1>1. Fits
  BY LayoutFits DEF StoreNalu, At
<1>2. /\ pCurFramePic # NULL /\ pCurFramePic \in PicSlots
      /\ CurLength \in Nat /\ CurPic.nalus = nalus
      /\ CurPic \in [pDataStartAddr : Addresses,
                     nlength : 0 .. nStreamBufferSize,
                     nalus : Seq(Nalu), bValidFlag : 0 .. 1]
  BY <1>1, ScanFacts DEF StoreNalu
<1>3. kind \in Nalu
  BY NaluFacts DEF StoreNalu, Invalid
<1>4. /\ CurLength' = CurLength + NaluEnd
      /\ NaluEnd \in Nat /\ NaluEnd > 0
      /\ \A i \in PicSlots \ {pCurFramePic} :
           pFramePics'[i] = pFramePics[i]
  <2>1. Len(pCurStreamData) \in Nat
    BY DEF TypeOK
  <2> QED
    BY <1>1, <2>1, StoreNaluKeeps
<1>5. /\ UNCHANGED <<mFramePicFifo, pCurFramePic>>
      /\ bCurFrameStartCodeFound' = IF kind = "F" THEN 1
                                    ELSE bCurFrameStartCodeFound
      /\ bCurFrameStartCodeFound = 1 => kind \notin {"F", "H"}
      /\ step' # "disposed"
  BY DEF StoreNalu, NextPictureBegins, GoTo, NextStep
<1>6. /\ pFramePics'[pCurFramePic].nalus = Append(nalus, kind)
      /\ pFramePics'[pCurFramePic].bValidFlag = 1
  <2>1. pFramePics' = [pFramePics EXCEPT ![pCurFramePic] =
              [CurPic EXCEPT !.nalus = Append(@, kind),
                             !.nlength = @ + NaluEnd]]
    BY DEF StoreNalu
  <2>2. ASSUME NEW c \in [pDataStartAddr : Addresses,
                          nlength : 0 .. nStreamBufferSize,
                          nalus : Seq(Nalu), bValidFlag : 0 .. 1],
               NEW a, NEW l
        PROVE  /\ [c EXCEPT !.nalus = a, !.nlength = l].nalus = a
               /\ [c EXCEPT !.nalus = a, !.nlength = l].bValidFlag
                      = c.bValidFlag
    OBVIOUS
  <2>3. pFramePics'[pCurFramePic] =
            [CurPic EXCEPT !.nalus = Append(nalus, kind),
                           !.nlength = CurPic.nlength + NaluEnd]
    BY <1>2, <2>1, Zenon DEF TypeOK
  <2>4. CurPic.bValidFlag = 1
    BY <1>1, <1>2, ScanFacts DEF StoreNalu, At, WholeInv, CurWhole
  <2> QED
    BY <1>2, <2>2, <2>3, <2>4
<1>7. nalus \in Seq(Nalu)
  BY <1>2 DEF TypeOK
<1> HIDE DEF kind, nalus
<1>8. FifoWhole'
  <2>1. \A k : PicSlot(k)' = PicSlot(k)
    BY <1>5 DEF PicSlot
  <2> QED
    BY <1>2, <1>4, <1>5, <2>1, OtherPicsWhole DEF FifoWhole, WholeInv
<1>9. CurWhole'
  <2>1. bCurFrameStartCodeFound \in 0 .. 1
    BY DEF TypeOK
  <2>2. /\ bCurFrameStartCodeFound = 1 => Whole(nalus)
        /\ bCurFrameStartCodeFound = 0 => Unbegun(nalus)
    BY <1>2 DEF WholeInv, CurWhole, nalus
  <2>3. bCurFrameStartCodeFound = 1 => kind = "S"
    BY <1>3, <1>5 DEF Nalu
  <2>4. /\ bCurFrameStartCodeFound' = 1 => Whole(Append(nalus, kind))
        /\ bCurFrameStartCodeFound' = 0 => Unbegun(Append(nalus, kind))
    BY <1>3, <1>5, <1>7, <2>1, <2>2, <2>3, AppendWhole
  <2>5. CurLength' # 0
    BY <1>2, <1>4
  <2> QED
    BY <1>2, <1>5, <1>6, <2>4, <2>5 DEF CurWhole
<1> QED
  BY <1>8, <1>9 DEF WholeInv

\* A picture is handed over: whole, since it had begun,
LEMMA FoundWhole ==
    ASSUME TypeOK, FrameInv, Layout, WholeInv, PictureFound \/ Starved
    PROVE  WholeInv'
<1>1. pCurFramePic # NULL /\ pCurFramePic \in PicSlots
  BY DEF PictureFound, Starved, At, FrameInv, PicOpen, TypeOK
<1>2. /\ bCurFrameStartCodeFound = 1 =>
             Whole(pFramePics[pCurFramePic].nalus)
      /\ FifoWhole
  BY <1>1 DEF WholeInv, CurWhole
<1>3. CASE PictureFound
  <2>1. Fits
    BY <1>3, LayoutFits DEF PictureFound, At
  <2>2. /\ AddFramePic
        /\ \A i \in PicSlots \ {pCurFramePic} :
             pFramePics'[i] = pFramePics[i]
    BY <1>3, <2>1, PictureFoundKeeps
  <2>3. /\ bCurFrameStartCodeFound = 1 /\ bCurFrameStartCodeFound' = 0
        /\ step' = "start" /\ pCurFramePic' = NULL
    BY <1>3 DEF PictureFound, NextPictureBegins, Return, AddFramePic
  <2>4. pFramePics'[pCurFramePic].nalus = pFramePics[pCurFramePic].nalus
    <3>1. pFramePics'[pCurFramePic] = CurPic
      BY <1>1, <1>3 DEF PictureFound, TypeOK
    <3>2. CurPic.nalus = pFramePics[pCurFramePic].nalus
      BY <1>3, <2>1, ScanFacts DEF PictureFound
    <3> QED
      BY <3>1, <3>2
  <2>5. FifoWhole'
    BY <1>1, <1>2, <2>2, <2>3, <2>4, AddPicWhole
  <2> QED
    BY <2>3, <2>5 DEF WholeInv, CurWhole
<1>4. CASE Starved /\ LastPicture
  <2>1. /\ AddFramePic /\ UNCHANGED pFramePics
        /\ bCurFrameStartCodeFound = 1 /\ bCurFrameStartCodeFound' = 0
        /\ step' = "start" /\ pCurFramePic' = NULL
    BY <1>4 DEF Starved, LastPicture, Return, AddFramePic
  <2>2. FifoWhole'
    BY <1>1, <1>2, <2>1, AddPicWhole
  <2> QED
    BY <2>1, <2>2 DEF WholeInv, CurWhole
<1>5. CASE Starved /\ ~ LastPicture
  <2>1. /\ UNCHANGED <<pFramePics, mFramePicFifo, pCurFramePic,
                       bCurFrameStartCodeFound>>
        /\ step' = "start" /\ step = "starved"
    BY <1>5 DEF Starved, Return, At
  <2>2. \A k : PicSlot(k)' = PicSlot(k)
    BY <2>1 DEF PicSlot
  <2> QED
    BY <2>1, <2>2, WholeSame
<1> QED
  BY <1>3, <1>4, <1>5

\* or invalid, when nothing but data without a NAL unit went into it.
LEMMA InvalidWhole ==
    ASSUME TypeOK, FrameInv, WholeInv, AddInvalidPic
    PROVE  WholeInv'
<1>1. /\ pCurFramePic # NULL /\ AddFramePic /\ UNCHANGED pFramePics
      /\ bCurFrameStartCodeFound' = bCurFrameStartCodeFound
      /\ step = "disposed" /\ step' = "start" /\ pCurFramePic' = NULL
  BY DEF AddInvalidPic, At, FrameInv, PicOpen, AddFramePic, Return
<1>2. /\ bCurFrameStartCodeFound = 0 /\ FifoWhole
      /\ pFramePics[pCurFramePic].bValidFlag = 0
  BY <1>1 DEF WholeInv, CurWhole
<1>3. FifoWhole'
  BY <1>1, <1>2, AddPicWhole
<1> QED
  BY <1>1, <1>2, <1>3 DEF WholeInv, CurWhole

\* Bytes are added to the current picture that are no NAL unit.
LEMMA BytesWhole ==
    ASSUME TypeOK, FrameInv, WholeInv, pCurFramePic \in PicSlots,
           pCurFramePic # NULL,
           UNCHANGED <<mFramePicFifo, pCurFramePic, bCurFrameStartCodeFound>>,
           \A i \in PicSlots \ {pCurFramePic} : pFramePics'[i] = pFramePics[i],
           pFramePics'[pCurFramePic].nalus = pFramePics[pCurFramePic].nalus,
           CurLength' = 0 => CurLength = 0,
           IF step' = "disposed"
           THEN /\ bCurFrameStartCodeFound = 0
                /\ pFramePics'[pCurFramePic].bValidFlag = 0
           ELSE pFramePics'[pCurFramePic].bValidFlag = 1
    PROVE  WholeInv'
<1>1. \A k : PicSlot(k)' = PicSlot(k)
  BY DEF PicSlot
<1>2. FifoWhole'
  BY <1>1, OtherPicsWhole DEF FifoWhole, WholeInv
<1>3. CurWhole'
  BY DEF WholeInv, CurWhole
<1> QED
  BY <1>2, <1>3 DEF WholeInv

\* The rest of a stream goes with the current picture: used up or disposed
\* of.
LEMMA RestWhole ==
    ASSUME TypeOK, FrameInv, Layout, WholeInv, NotOutgrown,
           SupplyFlush \/ DisposeInvalidStreamData
    PROVE  WholeInv'
<1>1. /\ Fits /\ pCurFramePic # NULL /\ pCurFramePic \in PicSlots
      /\ CurLength \in Nat /\ Len(pCurStreamData) \in Nat
      /\ UNCHANGED <<mFramePicFifo, pCurFramePic, bCurFrameStartCodeFound>>
      /\ pFramePics[pCurFramePic].bValidFlag = 1
  <2>1. thr # "reset" /\ step \in {"supply", "scan"}
    BY DEF SupplyFlush, DisposeInvalidStreamData, At
  <2>2. Fits /\ CurLength \in Nat
    BY <2>1, LayoutFits, Lengths
  <2>3. pCurFramePic # NULL /\ pCurFramePic \in PicSlots
    BY <2>1 DEF FrameInv, PicOpen, TypeOK
  <2>4. Len(pCurStreamData) \in Nat
    BY DEF TypeOK
  <2>5. UNCHANGED <<mFramePicFifo, pCurFramePic, bCurFrameStartCodeFound>>
    BY DEF SupplyFlush, DisposeInvalidStreamData
  <2>6. pFramePics[pCurFramePic].bValidFlag = 1
    BY <2>1, <2>3 DEF WholeInv, CurWhole
  <2> QED
    BY <2>2, <2>3, <2>4, <2>5, <2>6
<1>2. CASE SupplyFlush
  <2>1. /\ pFramePics' = [pFramePics EXCEPT
                            ![pCurFramePic].nlength = @ + RestLength]
        /\ step' = "supply"
    BY <1>2 DEF SupplyFlush, GoTo
  <2>2. /\ \A i \in PicSlots \ {pCurFramePic} :
             pFramePics'[i] = pFramePics[i]
        /\ pFramePics'[pCurFramePic].nalus = pFramePics[pCurFramePic].nalus
        /\ pFramePics'[pCurFramePic].bValidFlag = 1
    BY <1>1, <2>1 DEF TypeOK
  <2>3. CurLength' = CurLength + Len(pCurStreamData)
    BY <1>1, <1>2, SupplyFlushKeeps
  <2>4. CurLength' = 0 => CurLength = 0
    BY <1>1, <2>3
  <2> QED
    BY <1>1, <2>1, <2>2, <2>4, BytesWhole
<1>3. CASE DisposeInvalidStreamData
  <2>1. /\ CurLength' = CurLength + Len(pCurStreamData)
        /\ \A i \in PicSlots \ {pCurFramePic} :
             pFramePics'[i] = pFramePics[i]
    BY <1>1, <1>3, DisposeKeeps
  <2>2. pFramePics'[pCurFramePic] = DisposedPic
    BY <1>1, <1>3 DEF DisposeInvalidStreamData, TypeOK
  <2>3. DisposedPic.nalus = pFramePics[pCurFramePic].nalus
    <3>1. /\ CurPic \in [pDataStartAddr : Addresses,
                         nlength : 0 .. nStreamBufferSize,
                         nalus : Seq(Nalu), bValidFlag : 0 .. 1]
          /\ CurPic.nalus = pFramePics[pCurFramePic].nalus
      BY <1>1, <1>3, ScanFacts DEF DisposeInvalidStreamData
    <3>2. DisposedPic.nalus = CurPic.nalus
      BY <3>1 DEF DisposedPic
    <3> QED
      BY <3>1, <3>2
  <2>4. step' = "disposed" <=> DisposedPic.bValidFlag = 0
    BY <1>3 DEF DisposeInvalidStreamData, Return, GoTo
  <2>6. DisposedPic.bValidFlag \in 0 .. 1
    <3>1. CurPic \in [pDataStartAddr : Addresses,
                       nlength : 0 .. nStreamBufferSize,
                       nalus : Seq(Nalu), bValidFlag : 0 .. 1]
      BY <1>1, <1>3, ScanFacts DEF DisposeInvalidStreamData
    <3>2. CurPic.bValidFlag \in 0 .. 1
      BY <3>1
    <3> QED
      BY <3>1, <3>2 DEF DisposedPic
  <2>5. CurLength' = 0 => CurLength = 0
    BY <1>1, <2>1
  <2> QED
    BY <1>1, <2>1, <2>2, <2>3, <2>4, <2>5, <2>6, BytesWhole
       DEF NotOutgrown
<1> QED
  BY <1>2, <1>3

\* A picture begins empty.
LEMMA StartWhole ==
    ASSUME TypeOK, FrameInv, WholeInv, DetectStart
    PROVE  WholeInv'
<1> USE FrameAssumption
<1>1. /\ mFramePicFifo' = mFramePicFifo
      /\ step = "start" /\ step' # "disposed"
      /\ \A k : PicSlot(k)' = PicSlot(k)
      /\ bCurFrameStartCodeFound' = bCurFrameStartCodeFound
  BY DEF DetectStart, PicSlot, GoTo, NextStep, Return, detect, At
<1>2. CASE UNCHANGED <<pFramePics, pCurFramePic>>
  BY <1>1, <1>2, WholeSame
<1>3. CASE ~ UNCHANGED <<pFramePics, pCurFramePic>>
  <2> PICK n \in Nat : n = mFramePicFifo.nValidNum
    BY PicFifo
  <2>1. /\ pCurFramePic = NULL /\ n < nMaxFramePicNum
        /\ pCurFramePic' = mFramePicFifo.nWritePos
        /\ pFramePics' = [pFramePics EXCEPT ![pCurFramePic'] = NoPic]
    BY <1>3, PicFifo DEF DetectStart, detect
  <2>2. pCurFramePic' = PicSlot(n) /\ PicSlot(n) \in PicSlots
    BY <2>1, PicFifo
  <2>3. FifoWhole'
    <3>1. ASSUME NEW k \in 0 .. n - 1
          PROVE  pFramePics'[PicSlot(k)'] = pFramePics[PicSlot(k)]
      <4>1. /\ k \in 0 .. nMaxFramePicNum - 1
            /\ n \in 0 .. nMaxFramePicNum - 1 /\ k # n
        BY <2>1
      <4>2. PicSlot(k) \in PicSlots /\ PicSlot(k) # PicSlot(n)
        BY <4>1, PicFifo
      <4> QED
        BY <1>1, <2>1, <2>2, <4>2 DEF TypeOK
    <3> QED
      BY <1>1, <3>1 DEF FifoWhole, WholeInv
  <2>4. pFramePics'[pCurFramePic'] = NoPic
    BY <2>1, <2>2 DEF TypeOK
  <2>5. NoPic.nalus = <<>> /\ NoPic.bValidFlag = 1 /\ Unbegun(<<>>)
    BY DEF NoPic, Unbegun
  <2>6. CurWhole'
    <3>1. bCurFrameStartCodeFound' = 0
      BY <1>1, <2>1 DEF WholeInv, CurWhole
    <3> QED
      BY <1>1, <2>4, <2>5, <3>1 DEF CurWhole
  <2> QED
    BY <2>3, <2>6 DEF WholeInv
<1> QED
  BY <1>2, <1>3

\* The oldest picture leaves the fifo.
LEMMA FlushPicWhole ==
    ASSUME TypeOK, FrameInv, Fits, WholeInv, SbmFrameFlushFramePic
    PROVE  WholeInv'
<1> USE FrameAssumption
<1> PICK n \in Nat : n = mFramePicFifo.nValidNum
  BY PicFifo
<1>1. /\ n > 0 /\ n <= nMaxFramePicNum
      /\ mFramePicFifo'.nValidNum = n - 1
      /\ CurLength' = CurLength
      /\ \A k \in 0 .. nMaxFramePicNum - 1 : PicSlot(k)' = PicSlot(k + 1)
      /\ \A i \in PicSlots :
           pFramePics'[i] = IF i = PicSlot(0) THEN NoPic ELSE pFramePics[i]
  BY FlushPicKeeps, PicFifo
<1>2. /\ UNCHANGED <<pCurFramePic, bCurFrameStartCodeFound, step>>
  BY DEF SbmFrameFlushFramePic, detect
<1>3. ASSUME NEW k \in 0 .. nMaxFramePicNum - 1, k # 0
      PROVE  pFramePics'[PicSlot(k)] = pFramePics[PicSlot(k)]
  <2>1. PicSlot(k) \in PicSlots /\ PicSlot(k) # PicSlot(0)
    BY <1>3, PicFifo
  <2> QED
    BY <1>1, <2>1
<1>4. ASSUME NEW k \in 0 .. n - 2
      PROVE  (pFramePics[PicSlot(k)].bValidFlag = 1 =>
                 Whole(pFramePics[PicSlot(k)].nalus))'
  <2>1. /\ k \in 0 .. nMaxFramePicNum - 1
        /\ k + 1 \in 0 .. nMaxFramePicNum - 1 /\ k + 1 # 0
        /\ k + 1 \in 0 .. n - 1
    BY <1>1
  <2>2. PicSlot(k)' = PicSlot(k + 1)
    BY <1>1, <2>1
  <2>3. pFramePics'[PicSlot(k + 1)] = pFramePics[PicSlot(k + 1)]
    BY <1>3, <2>1
  <2>4. pFramePics[PicSlot(k + 1)].bValidFlag = 1 =>
           Whole(pFramePics[PicSlot(k + 1)].nalus)
    BY <2>1 DEF WholeInv, FifoWhole
  <2> QED
    BY <2>2, <2>3, <2>4
<1>5. FifoWhole'
  <2>1. mFramePicFifo'.nValidNum - 1 = n - 2
    BY <1>1
  <2> QED
    BY <1>4, <2>1 DEF FifoWhole
<1>6. CurWhole'
  <2>1. CASE pCurFramePic = NULL
    <3>1. step # "disposed"
      BY <2>1 DEF FrameInv, PicOpen
    <3> QED
      BY <1>2, <2>1, <3>1 DEF WholeInv, CurWhole
  <2>2. CASE pCurFramePic # NULL
    <3>1. /\ pCurFramePic = PicSlot(n) /\ n # 0
          /\ n \in 0 .. nMaxFramePicNum - 1
      BY <1>1, <2>2, PicFifo DEF FrameInv, PicOpen
    <3>2. pFramePics'[pCurFramePic] = pFramePics[pCurFramePic]
      BY <1>3, <3>1
    <3> QED
      BY <1>1, <1>2, <3>2 DEF WholeInv, CurWhole
  <2> QED
    BY <2>1, <2>2
<1> QED
  BY <1>5, <1>6 DEF WholeInv

\* After a reset there is no picture.
LEMMA ResetWhole ==
    ASSUME TypeOK, FrameInv, ResetAll
    PROVE  WholeInv'
<1>1. /\ mFramePicFifo' = EmptyFifo /\ pCurFramePic' = NULL
      /\ bCurFrameStartCodeFound' = 0 /\ step' = step
  BY DEF ResetAll, PicAfterReset
<1>2. step # "disposed"
  BY DEF ResetAll, FrameInv, AtPoints
<1> QED
  BY <1>1, <1>2 DEF WholeInv, FifoWhole, CurWhole, EmptyFifo

\* Each step keeps the pictures whole.
LEMMA StepWholeInv ==
    FrameIInv /\ WholeInv /\ [Next]_vars /\ NotOutgrown => WholeInv'
<1> SUFFICES ASSUME FrameIInv, WholeInv, [Next]_vars, NotOutgrown
             PROVE  WholeInv'
  OBVIOUS
<1>1. TypeOK /\ FrameInv /\ Layout
  BY DEF FrameIInv
<1>2. CASE UNCHANGED <<pFramePics, mFramePicFifo, pCurFramePic,
                       bCurFrameStartCodeFound>>
           /\ (step' = "disposed" <=> step = "disposed")
  <2>1. \A k : PicSlot(k)' = PicSlot(k)
    BY <1>2 DEF PicSlot
  <2> QED
    BY <1>2, <2>1, WholeSame
<1>3. CASE CheckRequest \/ CheckUnknown \/ CheckKnown \/ SupplyRequest
           \/ SupplyEmpty \/ ResetFlush
  BY <1>2, <1>3 DEF CheckRequest, CheckUnknown, CheckKnown, SupplyRequest,
     SupplyEmpty, ResetFlush, pictures, detect, GoTo, Return, At
<1>4. CASE Messages \/ InitType \/ ResetCall \/ DestroyCall \/ Calls
           \/ Finished \/ UNCHANGED vars
  BY <1>2, <1>4 DEF Messages, InitType, ResetCall, DestroyCall, Calls,
     Finished, vars, frameVars, pictures, detect
<1>5. CASE Client /\ ~ SbmFrameFlushFramePic
  <2>1. CASE SbmFrameRequestFramePic \/ SbmFrameReturnFramePic
    <3>1. /\ UNCHANGED <<pFramePics, pCurFramePic, bCurFrameStartCodeFound,
                         step>>
      BY <2>1 DEF SbmFrameRequestFramePic, SbmFrameReturnFramePic, detect
    <3>2. /\ mFramePicFifo'.nValidNum = mFramePicFifo.nValidNum
          /\ \A k : PicSlot(k)' = PicSlot(k)
      BY <1>1, <2>1, RequestPicKeeps, ReturnPicKeeps
    <3> QED
      BY <3>1, <3>2, WholeSame
  <2>2. CASE \E c \in Contents : SbmFrameAddStream(c)
    BY <1>2, <2>2 DEF SbmFrameAddStream, pictures, detect
  <2>3. CASE SbmFrameSetEos
    BY <1>2, <2>3 DEF SbmFrameSetEos, pictures, detect
  <2> QED
    BY <1>5, <2>1, <2>2, <2>3 DEF Client
<1>6. CASE SbmFrameFlushFramePic
  <2>1. ctl = "idle"
    BY <1>6 DEF SbmFrameFlushFramePic
  <2>2. Fits
    BY <1>1, <2>1, IdleThread, LayoutFits DEF FrameIInv
  <2> QED
    BY <1>1, <1>6, <2>2, FlushPicWhole
<1>7. CASE DetectStart
  BY <1>1, <1>7, StartWhole
<1>8. CASE SupplyFlush \/ DisposeInvalidStreamData
  BY <1>1, <1>8, RestWhole
<1>9. CASE PictureFound \/ Starved
  BY <1>1, <1>9, FoundWhole
<1>10. CASE StoreNalu
  BY <1>1, <1>10, StoreNaluWhole
<1>11. CASE AddInvalidPic
  BY <1>1, <1>11, InvalidWhole
<1>12. CASE ResetAll
  BY <1>1, <1>12, ResetWhole
<1> QED
  BY <1>3, <1>4, <1>5, <1>6, <1>7, <1>8, <1>9, <1>10, <1>11, <1>12
     DEF Next, Detect, Client

\* Initially there are none.
LEMMA InitWholeInv == Init => WholeInv
  BY DEF Init, EmptyFifo, WholeInv, FifoWhole, CurWhole

\* The invariant says of the fifo what PicturesWhole does.
LEMMA WholePictures == WholeInv => PicturesWhole
  BY DEF WholeInv, FifoWhole, Whole, PicturesWhole, ValidPics

\* Every valid picture in the fifo has one NAL unit that begins a picture,
\* and what comes after it belongs to the same picture, as long as no
\* picture that has begun grows beyond MaxInvalid.
THEOREM FramePicturesWhole ==
    Spec /\ [][NotOutgrown]_vars => []PicturesWhole
<1>1. FrameIInv /\ WholeInv /\ [Next]_vars /\ [NotOutgrown]_vars => WholeInv'
  <2>1. WholeInv /\ UNCHANGED vars => WholeInv'
    <3> SUFFICES ASSUME WholeInv, UNCHANGED vars PROVE WholeInv'
      OBVIOUS
    <3>1. UNCHANGED <<pFramePics, mFramePicFifo, pCurFramePic,
                      bCurFrameStartCodeFound, step>>
      BY DEF vars, frameVars, pictures, detect
    <3>2. \A k : PicSlot(k)' = PicSlot(k)
      BY <3>1 DEF PicSlot
    <3> QED
      BY <3>1, <3>2, WholeSame
  <2> QED
    BY <2>1, StepWholeInv
<1> QED
  BY <1>1, InitWholeInv, FrameIInvAlways, WholePictures, PTL DEF Spec

=============================================================================
