----------------------------- MODULE SbmFrame ------------------------------
(***************************************************************************)
(* The stream buffer manager in frame mode (vdecoder/sbm/sbmFrameBase.c    *)
(* with the detectors of sbmFrameH264.c and sbmFrameH265.c).  The parser   *)
(* adds streams of any cut to a ring; a detector thread looks for NAL      *)
(* units in them and puts the pictures it finds into a second fifo, from   *)
(* which the decoder takes them.  A stream's slot is given back when its   *)
(* last byte has been looked at, its bytes only with the picture they      *)
(* belong to.  Streams of unknown type are read first to find out whether  *)
(* they use start codes.                                                   *)
(*                                                                         *)
(* A stream is a sequence of units, and a unit is as large as one cell of  *)
(* the ring:                                                               *)
(*   "F"  a NAL unit that begins a picture (every NAL unit of H.264: its   *)
(*        detector makes each one a picture of its own; the first slice    *)
(*        segment of H.265)                                                *)
(*   "H"  one that can only come before a picture (VPS to AUD, SEI)        *)
(*   "S"  any other one                                                    *)
(*   "J"  five bytes or more without a NAL unit                            *)
(*   "T"  less than five bytes at the end of a stream                      *)
(*                                                                         *)
(* Every locked section is a step.  What the detector works out between    *)
(* two of them concerns its own picture, stream and flags, and belongs to  *)
(* the step before or after.  The timed waits for data and for a free      *)
(* picture only delay the next READ and are left out, and so is the copy   *)
(* to a second buffer (ENABLE_NEW_MEMORY_OPTIMIZATION_PROGRAM is 0).       *)
(*                                                                         *)
(* Assumed of the player, as in VideoStream: it resets and destroys only   *)
(* while neither a submission nor a decode call is under way, and submits  *)
(* nothing between the end of the stream and the next reset.  Assumed of   *)
(* the scheduling: see Settled.                                            *)
(***************************************************************************)
EXTENDS SbmThread, Integers

CONSTANTS
    nStreamBufferSize,   \* cells of the ring
    nMaxFrameNum,        \* slots for streams (SBM_FRAME_FIFO_SIZE)
    nMaxFramePicNum,     \* slots for pictures (MAX_FRAME_PIC_NUM)
    Margin,              \* cells SbmFrameRequestBuffer keeps free
    MaxNalu,             \* MAX_NALU_NUM_IN_FRAME
    MaxInvalid,          \* MAX_INVALID_STREAM_DATA_SIZE
    Contents             \* the streams the parser may submit

Units == {"F", "H", "S", "J", "T"}
Nalu  == {"F", "H", "S"}

ASSUME FrameAssumption ==
    /\ nStreamBufferSize \in Nat \ {0}
    /\ nMaxFrameNum \in Nat \ {0}
    /\ nMaxFramePicNum \in Nat \ {0}
    /\ Margin \in Nat \ {0}
    /\ MaxNalu \in Nat
    /\ MaxInvalid \in Nat
    /\ Contents \subseteq Seq(Units)

Addresses == 0 .. nStreamBufferSize - 1
NULL == -1

VARIABLES
    pWriteAddr, nValidDataSize,
    frameFifo, pFrames,             \* the streams
    mFramePicFifo, pFramePics,      \* the pictures
    bStreamWithStartCode,           \* -1 unknown, 0 length prefixes, 1 codes
    nEosFlag,
    pCurFramePic, pCurStream,       \* mDetectInfo: slots or NULL
    pCurStreamData,                 \* what is left of the current stream
    bCurFrameStartCodeFound,
    pStream,                        \* a stream taken and not yet current
    step,                           \* control point of the detection
    held,                           \* the picture the decoder has
    ended,                          \* the player has signalled the end
    aborted                         \* a call has reached abort()

ring     == <<pWriteAddr, nValidDataSize>>
streams  == <<frameFifo, pFrames>>
pictures == <<mFramePicFifo, pFramePics>>
detect   == <<pCurFramePic, pCurStream, pCurStreamData,
              bCurFrameStartCodeFound>>
player   == <<held, nEosFlag, ended>>

frameVars == <<ring, streams, pictures, bStreamWithStartCode, detect,
               pStream, step, player, aborted>>
vars == <<threadVars, frameVars>>

-----------------------------------------------------------------------------
(* The two fifos: positions and counters, n is the number of slots.  A     *)
(* slot that holds nothing valid is shown as empty; it is written as a     *)
(* whole before it is read again.                                          *)

EmptyFifo == [nValidNum |-> 0, nUnReadNum |-> 0,
              nReadPos |-> 0, nWritePos |-> 0, nFlushPos |-> 0]

NextPos(i, n) == IF i + 1 >= n THEN 0 ELSE i + 1
PrevPos(i, n) == IF i - 1 < 0 THEN n - 1 ELSE i - 1

WithOneMore(fifo, n) ==
    [fifo EXCEPT !.nWritePos = NextPos(@, n),
                 !.nValidNum = @ + 1, !.nUnReadNum = @ + 1]

WithOneRead(fifo, n) ==
    [fifo EXCEPT !.nReadPos = NextPos(@, n), !.nUnReadNum = @ - 1]

WithOneReturned(fifo, n) ==
    [fifo EXCEPT !.nReadPos = PrevPos(@, n), !.nUnReadNum = @ + 1]

WithOneFlushed(fifo, n) ==
    [fifo EXCEPT !.nFlushPos = NextPos(@, n), !.nValidNum = @ - 1]

NoStream == [pData |-> NULL, units |-> <<>>]
NoPic    == [pDataStartAddr |-> NULL, nlength |-> 0, nalus |-> <<>>,
             bValidFlag |-> 1]

StreamSlots == 0 .. nMaxFrameNum - 1
PicSlots    == 0 .. nMaxFramePicNum - 1

WrapAddr(a) ==
    IF a > nStreamBufferSize - 1 THEN a - nStreamBufferSize ELSE a

\* bStreamWithStartCode is set to "unknown" after the thread has started.
Init ==
    /\ ThreadInit
    /\ pWriteAddr = 0 /\ nValidDataSize = 0
    /\ frameFifo = EmptyFifo
    /\ pFrames = [i \in StreamSlots |-> NoStream]
    /\ mFramePicFifo = EmptyFifo
    /\ pFramePics = [i \in PicSlots |-> NoPic]
    /\ bStreamWithStartCode = 0
    /\ nEosFlag = 0
    /\ pCurFramePic = NULL /\ pCurStream = NULL
    /\ pCurStreamData = <<>> /\ bCurFrameStartCodeFound = 0
    /\ pStream = NULL
    /\ step = "start"
    /\ held = NULL /\ ended = FALSE
    /\ aborted = FALSE

-----------------------------------------------------------------------------
(* The parser and the decoder. *)

\* SbmFrameInit sets bStreamWithStartCode after it has started the thread,
\* whose first READ may have found the 0 of the memset and gone to look for
\* a stream.  The first stream is assumed to come when that is over.
Settled == bStreamWithStartCode = -1 => step \in {"start", "check"}

\* SbmFrameRequestBuffer, and SbmFrameAddStream of the bytes written there:
\* only the parser takes space, what it was granted stays free.
SbmFrameAddStream(c) ==
    /\ ctl = "idle" /\ ~ended /\ Settled
    /\ frameFifo.nValidNum < nMaxFrameNum
    /\ Len(c) + Margin <= nStreamBufferSize - nValidDataSize
    /\ pFrames' = [pFrames EXCEPT ![frameFifo.nWritePos] =
                                     [pData |-> pWriteAddr, units |-> c]]
    /\ frameFifo' = WithOneMore(frameFifo, nMaxFrameNum)
    /\ nValidDataSize' = nValidDataSize + Len(c)
    /\ pWriteAddr' = WrapAddr(pWriteAddr + Len(c))
    /\ UNCHANGED <<threadVars, pictures, bStreamWithStartCode, detect,
                   pStream, step, player, aborted>>

\* DecodeVideoStream is told that the stream has ended.
SbmFrameSetEos ==
    /\ ctl = "idle" /\ ~ended
    /\ nEosFlag' = 1
    /\ ended' = TRUE
    /\ UNCHANGED <<threadVars, ring, streams, pictures, detect, pStream,
                   bStreamWithStartCode, step, held, aborted>>

\* The decoders hold one picture at a time (pCurStreamFrame).
SbmFrameRequestFramePic ==
    /\ ctl = "idle" /\ held = NULL
    /\ mFramePicFifo.nUnReadNum # 0
    /\ held' = mFramePicFifo.nReadPos
    /\ mFramePicFifo' = WithOneRead(mFramePicFifo, nMaxFramePicNum)
    /\ UNCHANGED <<threadVars, ring, streams, pFramePics, detect, pStream,
                   bStreamWithStartCode, step, nEosFlag, ended, aborted>>

SbmFrameReturnFramePic ==
    /\ ctl = "idle" /\ held # NULL
    /\ held' = NULL
    /\ IF mFramePicFifo.nValidNum = 0
       THEN UNCHANGED <<mFramePicFifo, aborted>>
       ELSE IF held # PrevPos(mFramePicFifo.nReadPos, nMaxFramePicNum)
       THEN aborted' = TRUE /\ UNCHANGED mFramePicFifo
       ELSE /\ mFramePicFifo' =
                   WithOneReturned(mFramePicFifo, nMaxFramePicNum)
            /\ UNCHANGED aborted
    /\ UNCHANGED <<threadVars, ring, streams, pFramePics, detect, pStream,
                   bStreamWithStartCode, step, nEosFlag, ended>>

\* Also what the reset of a decoder does with the picture it holds.
SbmFrameFlushFramePic ==
    /\ ctl = "idle" /\ held # NULL
    /\ held' = NULL
    /\ IF mFramePicFifo.nValidNum = 0
       THEN UNCHANGED <<pictures, nValidDataSize, aborted>>
       ELSE IF held # mFramePicFifo.nFlushPos
       THEN aborted' = TRUE /\ UNCHANGED <<pictures, nValidDataSize>>
       ELSE /\ mFramePicFifo' =
                   WithOneFlushed(mFramePicFifo, nMaxFramePicNum)
            /\ nValidDataSize' = nValidDataSize - pFramePics[held].nlength
            /\ pFramePics' = [pFramePics EXCEPT ![held] = NoPic]
            /\ UNCHANGED aborted
    /\ UNCHANGED <<threadVars, pWriteAddr, streams, detect, pStream,
                   bStreamWithStartCode, step, nEosFlag, ended>>

-----------------------------------------------------------------------------
(* What the detector calls under the mutex. *)

\* flushStream(s, bFlush): only with bFlush are the bytes given back.
FlushStream(s, bFlush) ==
    IF frameFifo.nValidNum = 0
    THEN UNCHANGED <<streams, nValidDataSize, aborted>>
    ELSE IF s # frameFifo.nFlushPos
    THEN aborted' = TRUE /\ UNCHANGED <<streams, nValidDataSize>>
    ELSE /\ frameFifo' = WithOneFlushed(frameFifo, nMaxFrameNum)
         /\ nValidDataSize' = IF bFlush
                              THEN nValidDataSize - Len(pFrames[s].units)
                              ELSE nValidDataSize
         /\ pFrames' = [pFrames EXCEPT ![s] = NoStream]
         /\ UNCHANGED aborted

\* returnStream(s)
ReturnStream(s) ==
    /\ IF frameFifo.nValidNum = 0
       THEN UNCHANGED <<frameFifo, aborted>>
       ELSE IF s # PrevPos(frameFifo.nReadPos, nMaxFrameNum)
       THEN /\ frameFifo' = [frameFifo EXCEPT !.nUnReadNum = @ + 1]
            /\ aborted' = TRUE
       ELSE /\ frameFifo' = WithOneReturned(frameFifo, nMaxFrameNum)
            /\ UNCHANGED aborted
    /\ UNCHANGED <<pFrames, nValidDataSize>>

\* addFramePic(pCurFramePic), after which the detector has no picture.
AddFramePic ==
    /\ pCurFramePic' = NULL
    /\ IF mFramePicFifo.nValidNum >= nMaxFramePicNum
       THEN UNCHANGED <<mFramePicFifo, aborted>>
       ELSE IF pCurFramePic # mFramePicFifo.nWritePos
       THEN aborted' = TRUE /\ UNCHANGED mFramePicFifo
       ELSE /\ mFramePicFifo' = WithOneMore(mFramePicFifo, nMaxFramePicNum)
            /\ UNCHANGED aborted

\* detectOneFramePic or checkBitStreamType returns.
Return == step' = "start" /\ ReadDone

At(s) == thr = "read" /\ step = s

GoTo(s) == step' = s /\ UNCHANGED threadVars

-----------------------------------------------------------------------------
(* AvcSbmFrameCheckBitStreamType, HevcSbmFrameCheckBitStreamType: streams  *)
(* are thrown away until one shows its type.  What it shows is left open.  *)

CheckRequest ==
    /\ At("start") /\ bStreamWithStartCode = -1
    /\ IF frameFifo.nUnReadNum = 0
       THEN Return /\ UNCHANGED <<frameFifo, pStream>>
       ELSE /\ frameFifo' = WithOneRead(frameFifo, nMaxFrameNum)
            /\ pStream' = frameFifo.nReadPos
            /\ GoTo("check")
    /\ UNCHANGED <<ring, pFrames, pictures, bStreamWithStartCode, detect,
                   player, aborted>>

\* The loop ends after 50 streams, or goes on.
CheckUnknown ==
    /\ At("check")
    /\ FlushStream(pStream, TRUE)
    /\ pStream' = NULL
    /\ Return \/ GoTo("start")
    /\ UNCHANGED <<pWriteAddr, pictures, bStreamWithStartCode, detect,
                   player>>

CheckKnown ==
    /\ At("check")
    /\ pFrames[pStream].units # <<>>
    /\ bStreamWithStartCode' \in {0, 1}
    /\ ReturnStream(pStream)
    /\ pStream' = NULL
    /\ Return
    /\ UNCHANGED <<pWriteAddr, pictures, detect, player>>

-----------------------------------------------------------------------------
(* detectWithStartCode, detectWithoutStartCode *)

\* What is left of the stream is too short to look at.
Short(data) == data \in {<<>>, <<"T">>}

NextStep(data) == IF Short(data) THEN "supply" ELSE "scan"

\* requestEmptyFramePic and initFramePicInfo, if there is no picture.
DetectStart ==
    /\ At("start") /\ bStreamWithStartCode # -1
    /\ IF pCurFramePic # NULL
       THEN GoTo(NextStep(pCurStreamData)) /\ UNCHANGED <<pFramePics, detect>>
       ELSE IF mFramePicFifo.nValidNum >= nMaxFramePicNum
       THEN Return /\ UNCHANGED <<pFramePics, detect>>
       ELSE /\ pCurFramePic' = mFramePicFifo.nWritePos
            /\ pFramePics' = [pFramePics EXCEPT ![pCurFramePic'] = NoPic]
            /\ GoTo(NextStep(pCurStreamData))
            /\ UNCHANGED <<pCurStream, pCurStreamData,
                           bCurFrameStartCodeFound>>
    /\ UNCHANGED <<ring, streams, mFramePicFifo, bStreamWithStartCode,
                   pStream, player, aborted>>

\* Mutant: the bytes too short to look at are forgotten.
RestForgotten == 0

\* The bytes of the stream that go with the current picture unseen.
RestLength == Len(pCurStreamData)

\* supplyStreamData: the current stream is used up.
SupplyFlush ==
    /\ At("supply") /\ pCurStream # NULL
    /\ FlushStream(pCurStream, FALSE)
    /\ pFramePics' = [pFramePics EXCEPT
                        ![pCurFramePic].nlength = @ + RestLength]
    /\ pCurStream' = NULL /\ pCurStreamData' = <<>>
    /\ GoTo("supply")
    /\ UNCHANGED <<pWriteAddr, mFramePicFifo, bStreamWithStartCode, pStream,
                   pCurFramePic, bCurFrameStartCodeFound, player>>

\* supplyStreamData: the next stream.
SupplyRequest ==
    LET s == frameFifo.nReadPos IN
    /\ At("supply") /\ pCurStream = NULL
    /\ IF frameFifo.nUnReadNum = 0
       THEN /\ GoTo("starved")
            /\ UNCHANGED <<frameFifo, pStream, pCurStream, pCurStreamData>>
       ELSE /\ frameFifo' = WithOneRead(frameFifo, nMaxFrameNum)
            /\ IF pFrames[s].units = <<>>
               THEN /\ pStream' = s
                    /\ GoTo("empty")
                    /\ UNCHANGED <<pCurStream, pCurStreamData>>
               ELSE /\ pCurStream' = s
                    /\ pCurStreamData' = pFrames[s].units
                    /\ GoTo("scan")
                    /\ UNCHANGED pStream
    /\ UNCHANGED <<ring, pFrames, pictures, bStreamWithStartCode,
                   pCurFramePic, bCurFrameStartCodeFound, player, aborted>>

\* supplyStreamData: a stream without bytes is thrown away.
SupplyEmpty ==
    /\ At("empty")
    /\ FlushStream(pStream, FALSE)
    /\ pStream' = NULL
    /\ GoTo("starved")
    /\ UNCHANGED <<pWriteAddr, pictures, bStreamWithStartCode, detect,
                   player>>

\* Mutant: the last picture waits for a stream that never comes.
NeverLast == FALSE

\* No stream: at the end of the stream the picture is complete.
LastPicture == bCurFrameStartCodeFound = 1 /\ nEosFlag = 1

Starved ==
    /\ At("starved")
    /\ IF LastPicture
       THEN bCurFrameStartCodeFound' = 0 /\ AddFramePic
       ELSE UNCHANGED <<bCurFrameStartCodeFound, pCurFramePic,
                        mFramePicFifo, aborted>>
    /\ Return
    /\ UNCHANGED <<ring, streams, pFramePics, bStreamWithStartCode,
                   pCurStream, pCurStreamData, pStream, player>>

-----------------------------------------------------------------------------
(* Looking for the next NAL unit. *)

\* searchStartCode, or the test of the length prefix: where the next NAL
\* unit is, 0 if there is none.
NaluPos ==
    LET at == {i \in DOMAIN pCurStreamData : pCurStreamData[i] \in Nalu} IN
    IF bStreamWithStartCode = 1
    THEN IF at = {} THEN 0 ELSE CHOOSE i \in at : \A j \in at : i <= j
    ELSE IF 1 \in at THEN 1 ELSE 0

\* Where it ends: before the next start code, or after its length.
NaluEnd ==
    LET ends == {i \in NaluPos .. Len(pCurStreamData) - 1 :
                    pCurStreamData[i + 1] \in Nalu \cup {"T"}} IN
    IF bStreamWithStartCode = 1
    THEN IF ends = {} THEN Len(pCurStreamData)
         ELSE CHOOSE i \in ends : \A j \in ends : i <= j
    ELSE NaluPos

\* The address of pCurStreamDataptr.
CurAddr ==
    LET s == pFrames[pCurStream] IN
    WrapAddr(s.pData + Len(s.units) - Len(pCurStreamData))

\* The current picture, its start address set.
CurPic ==
    LET pic == pFramePics[pCurFramePic] IN
    [pic EXCEPT !.pDataStartAddr = IF @ = NULL THEN CurAddr ELSE @]

\* No NAL unit, or too many of them already.
Invalid == NaluPos = 0 \/ Len(CurPic.nalus) > MaxNalu

\* Mutant: parameter sets do not end a picture.
OnlyFirstSliceEnds ==
    bCurFrameStartCodeFound = 1 /\ pCurStreamData[NaluPos] = "F"

\* The next NAL unit belongs to the next picture.
NextPictureBegins ==
    bCurFrameStartCodeFound = 1 /\ pCurStreamData[NaluPos] \in {"F", "H"}

\* storeNaluInfo and the skips around it.
StoreNalu ==
    /\ At("scan") /\ ~Invalid /\ ~NextPictureBegins
    /\ LET kind == pCurStreamData[NaluPos] IN
       /\ bCurFrameStartCodeFound' = IF kind = "F" THEN 1
                                     ELSE bCurFrameStartCodeFound
       /\ pFramePics' = [pFramePics EXCEPT ![pCurFramePic] =
              [CurPic EXCEPT !.nalus = Append(@, kind),
                             !.nlength = @ + NaluEnd]]
    /\ pCurStreamData' = SubSeq(pCurStreamData, NaluEnd + 1,
                                Len(pCurStreamData))
    /\ GoTo(NextStep(pCurStreamData'))
    /\ UNCHANGED <<ring, streams, mFramePicFifo, bStreamWithStartCode,
                   pCurFramePic, pCurStream, pStream, player, aborted>>

\* "have found one frame pic"
PictureFound ==
    /\ At("scan") /\ ~Invalid /\ NextPictureBegins
    /\ bCurFrameStartCodeFound' = 0
    /\ pFramePics' = [pFramePics EXCEPT ![pCurFramePic] = CurPic]
    /\ AddFramePic
    /\ Return
    /\ UNCHANGED <<ring, streams, bStreamWithStartCode, pCurStream,
                   pCurStreamData, pStream, player>>

\* The current picture when the rest of its stream is disposed of: alone it
\* is an invalid picture, with others when it has grown too large.
DisposedPic ==
    LET whole  == pCurStreamData = pFrames[pCurStream].units
                      /\ CurPic.nlength = 0
        length == CurPic.nlength + Len(pCurStreamData)
    IN  [CurPic EXCEPT !.nlength = length,
                       !.bValidFlag = IF whole \/ length > MaxInvalid
                                      THEN 0 ELSE @]

\* disposeInvalidStreamData
DisposeInvalidStreamData ==
    /\ At("scan") /\ Invalid
    /\ pFramePics' = [pFramePics EXCEPT ![pCurFramePic] = DisposedPic]
    /\ FlushStream(pCurStream, FALSE)
    /\ pCurStream' = NULL /\ pCurStreamData' = <<>>
    /\ IF DisposedPic.bValidFlag = 0 THEN GoTo("disposed") ELSE Return
    /\ UNCHANGED <<pWriteAddr, mFramePicFifo, bStreamWithStartCode,
                   pCurFramePic, bCurFrameStartCodeFound, pStream, player>>

\* Its last call: bCurFrameStartCodeFound stays as it is.
AddInvalidPic ==
    /\ At("disposed")
    /\ AddFramePic
    /\ Return
    /\ UNCHANGED <<ring, streams, pFramePics, bStreamWithStartCode,
                   pCurStream, pCurStreamData, bCurFrameStartCodeFound,
                   pStream, player>>

-----------------------------------------------------------------------------
(* ProcessThread handles RESET. *)

ResetFlush ==
    /\ thr = "reset" /\ pCurStream # NULL
    /\ FlushStream(pCurStream, FALSE)
    /\ pCurStream' = NULL
    /\ UNCHANGED <<threadVars, pWriteAddr, pictures, bStreamWithStartCode,
                   pCurFramePic, pCurStreamData, bCurFrameStartCodeFound,
                   pStream, step, player>>

\* Mutant: the detector keeps its picture through the reset.
PicKept == pCurFramePic

\* The detector's picture after a reset.
PicAfterReset == NULL

\* nEosFlag and bStreamWithStartCode stay.
ResetAll ==
    /\ thr = "reset" /\ pCurStream = NULL
    /\ pWriteAddr' = 0 /\ nValidDataSize' = 0
    /\ frameFifo' = EmptyFifo
    /\ pFrames' = [i \in StreamSlots |-> NoStream]
    /\ mFramePicFifo' = EmptyFifo
    /\ pFramePics' = [i \in PicSlots |-> NoPic]
    /\ pCurFramePic' = PicAfterReset
    /\ pCurStreamData' = <<>> /\ bCurFrameStartCodeFound' = 0
    /\ ResetDone
    /\ UNCHANGED <<bStreamWithStartCode, pCurStream, pStream, step, player,
                   aborted>>

-----------------------------------------------------------------------------
\* The steps of the detector thread between its messages.
Detect ==
    \/ CheckRequest
    \/ CheckUnknown
    \/ CheckKnown
    \/ DetectStart
    \/ SupplyFlush
    \/ SupplyRequest
    \/ SupplyEmpty
    \/ Starved
    \/ StoreNalu
    \/ PictureFound
    \/ DisposeInvalidStreamData
    \/ AddInvalidPic
    \/ ResetFlush
    \/ ResetAll

\* The steps of the detector thread that go through the queue.
Messages ==
    /\ GetMessage \/ CountMessages \/ PostRead \/ PostReadSem \/ ResetReply
    /\ UNCHANGED frameVars

\* SbmFrameInit sets bStreamWithStartCode when the thread runs already.
InitType ==
    /\ InitDone
    /\ bStreamWithStartCode' = -1
    /\ UNCHANGED <<ring, streams, pictures, detect, pStream, step, player,
                   aborted>>

\* ResetVideoDecoder has had the decoder give back its picture.  The player
\* starts again with the new stream.
ResetCall ==
    /\ held = NULL
    /\ PostReset
    /\ ended' = FALSE
    /\ UNCHANGED <<ring, streams, pictures, bStreamWithStartCode, detect,
                   pStream, step, held, nEosFlag, aborted>>

DestroyCall ==
    /\ held = NULL
    /\ PostQuit
    /\ UNCHANGED frameVars

Calls ==
    /\ \/ InitRead \/ InitReadSem \/ PostResetSem \/ ResetWait
       \/ ResetRead \/ ResetReadSem \/ PostQuitSem \/ Join
    /\ UNCHANGED frameVars

Client ==
    \/ \E c \in Contents : SbmFrameAddStream(c)
    \/ SbmFrameSetEos
    \/ SbmFrameRequestFramePic
    \/ SbmFrameReturnFramePic
    \/ SbmFrameFlushFramePic

Finished == Destroyed /\ UNCHANGED frameVars

Next ==
    \/ Detect \/ Messages
    \/ InitType \/ ResetCall \/ DestroyCall \/ Calls
    \/ Client
    \/ Finished

Spec == Init /\ [][Next]_vars

(***************************************************************************)
(* The detector thread and a call that has begun run on; the decoder goes  *)
(* on decoding: it takes what is there and gives it back in the end, also  *)
(* if it puts it back now and then.                                        *)
(***************************************************************************)
Fairness ==
    /\ WF_vars(Detect \/ Messages)
    /\ WF_vars(InitType \/ Calls)
    /\ WF_vars(SbmFrameRequestFramePic)
    /\ SF_vars(SbmFrameFlushFramePic)

FairSpec == Spec /\ Fairness

-----------------------------------------------------------------------------
Fifos(n) ==
    [nValidNum : 0 .. n, nUnReadNum : 0 .. n, nReadPos : 0 .. n - 1,
     nWritePos : 0 .. n - 1, nFlushPos : 0 .. n - 1]

\* Types of all variables.
TypeOK ==
    /\ ThreadTypeOK
    /\ pWriteAddr \in Addresses
    /\ nValidDataSize \in 0 .. nStreamBufferSize
    /\ frameFifo \in Fifos(nMaxFrameNum)
    /\ pFrames \in [StreamSlots -> [pData : Addresses \cup {NULL},
                                    units : Seq(Units)]]
    /\ mFramePicFifo \in Fifos(nMaxFramePicNum)
    /\ pFramePics \in [PicSlots -> [pDataStartAddr : Addresses \cup {NULL},
                                    nlength : 0 .. nStreamBufferSize,
                                    nalus : Seq(Nalu), bValidFlag : 0 .. 1]]
    /\ bStreamWithStartCode \in {-1, 0, 1}
    /\ nEosFlag \in 0 .. 1
    /\ pCurFramePic \in PicSlots \cup {NULL}
    /\ pCurStream \in StreamSlots \cup {NULL}
    /\ pCurStreamData \in Seq(Units)
    /\ bCurFrameStartCodeFound \in 0 .. 1
    /\ pStream \in StreamSlots \cup {NULL}
    /\ step \in {"start", "check", "supply", "empty", "starved", "scan",
                 "disposed"}
    /\ held \in PicSlots \cup {NULL}
    /\ ended \in BOOLEAN
    /\ aborted \in BOOLEAN

\* Neither the detector nor the decoder reaches an abort() ("wrong frame
\* sequence", "not current nFlushPos", "frame pic is not match"): the slots
\* they hold stay the ones at the fifo's positions, also through a reset.
NoAbort == ~aborted

\* Both, with the types: the positions of the fifos never leave them.
FifosSound == TypeOK /\ NoAbort

\* The slot of the k-th valid element of a fifo with n slots.
Slot(fifo, k, n) ==
    IF fifo.nFlushPos + k >= n THEN fifo.nFlushPos + k - n
                               ELSE fifo.nFlushPos + k

PicSlot(k)    == Slot(mFramePicFifo, k, nMaxFramePicNum)
StreamSlot(k) == Slot(frameFifo, k, nMaxFrameNum)

\* What lies in the ring, in its order: the pictures, the one being made,
\* the rest of the current stream and the streams behind it.
PicLength(k) == pFramePics[PicSlot(k)].nlength
PicAddr(k)   == pFramePics[PicSlot(k)].pDataStartAddr

CurLength == IF pCurFramePic = NULL THEN 0 ELSE pFramePics[pCurFramePic].nlength

StreamLength(k) ==
    IF StreamSlot(k) = pCurStream THEN Len(pCurStreamData)
                                  ELSE Len(pFrames[StreamSlot(k)].units)
StreamAddr(k) ==
    IF StreamSlot(k) = pCurStream THEN CurAddr
                                  ELSE pFrames[StreamSlot(k)].pData

\* The bytes in front of the k-th picture and of the k-th stream.
PicsBefore[k \in 0 .. mFramePicFifo.nValidNum] ==
    IF k = 0 THEN 0 ELSE PicsBefore[k - 1] + PicLength(k - 1)

StreamsBefore[k \in 0 .. frameFifo.nValidNum] ==
    IF k = 0 THEN PicsBefore[mFramePicFifo.nValidNum] + CurLength
             ELSE StreamsBefore[k - 1] + StreamLength(k - 1)

\* The oldest byte in use, and the address of the m-th one.
FirstAddr ==
    IF pWriteAddr >= nValidDataSize
    THEN pWriteAddr - nValidDataSize
    ELSE pWriteAddr - nValidDataSize + nStreamBufferSize

RingAddr(m) == WrapAddr(FirstAddr + m)

(***************************************************************************)
(* Every byte of the ring that is not free belongs to exactly one picture  *)
(* or to data not yet looked at, and all of it lies without gap or overlap *)
(* up to pWriteAddr.  Behind it: the bytes are counted in when a stream is *)
(* added and counted out when a picture is given back, and in between the  *)
(* detector moves them from one to the other in a dozen places.            *)
(***************************************************************************)
BytesAccounted ==
    thr # "reset" =>
        /\ StreamsBefore[frameFifo.nValidNum] = nValidDataSize
        /\ \A k \in 0 .. mFramePicFifo.nValidNum - 1 :
             PicLength(k) > 0 => PicAddr(k) = RingAddr(PicsBefore[k])
        /\ CurLength > 0 =>
             pFramePics[pCurFramePic].pDataStartAddr =
                 RingAddr(PicsBefore[mFramePicFifo.nValidNum])
        /\ \A k \in 0 .. frameFifo.nValidNum - 1 :
             StreamLength(k) > 0 => StreamAddr(k) = RingAddr(StreamsBefore[k])

\* The pictures in the fifo that are marked valid.
ValidPics ==
    {p \in {pFramePics[PicSlot(k)] : k \in 0 .. mFramePicFifo.nValidNum - 1} :
        p.bValidFlag = 1}

\* A valid picture has one NAL unit that begins a picture; after it comes
\* only what belongs to the same picture, however the streams were cut.
PicturesWhole ==
    \A p \in ValidPics :
        \E i \in DOMAIN p.nalus :
            /\ p.nalus[i] = "F"
            /\ \A j \in DOMAIN p.nalus \ {i} :
                 p.nalus[j] = "S" \/ (j < i /\ p.nalus[j] = "H")

\* "find eos, flush last stream frame": the picture that is added for want
\* of data is the last one of the stream.
EosIsEnd == At("starved") /\ LastPicture => ended

\* At the end of the stream the ring runs empty, which the decoders wait
\* for before they put out their last pictures.
EndReached == ended ~> ~ended \/ nValidDataSize = 0 \/ ctl # "idle"
=============================================================================
