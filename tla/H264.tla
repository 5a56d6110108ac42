------------------------------- MODULE H264 --------------------------------
(***************************************************************************)
(* The H.264 decoder (h264.c, h264_dec.c, h264_nalu.c): the steps of       *)
(* H264DecoderDecodeSbmFrame over the pictures the stream buffer manager   *)
(* delivers, and the player that gives displayed buffers back.             *)
(*                                                                         *)
(* The stream is what the encoder wrote, with at most one kind of fault on *)
(* the way (Faults): something is lost or damaged, or B pictures come too  *)
(* late to be displayed.  An element of stream is what the stream buffer   *)
(* manager hands out at once, a sequence of NAL units.  Slices are decoded *)
(* by the video engine within a step, the unit of a picture's last slice   *)
(* completes it.                                                           *)
(***************************************************************************)
EXTENDS H264RefList

CONSTANTS
    Streams,     \* sequences of groups, each of coded pictures from an IDR on
    Faults,      \* kinds of fault a stream may have
    KeyOnlyModes,\* values of bDecodeKeyFrameOnly, one per playback
    MaxLate,     \* B pictures of a stream that come too late
    MaxResets,   \* seeks of the player, in a stream without other faults
    MaxPocLsb,   \* 1 << nLog2MaxPocLsb
    MaxFrmNum    \* 1 << nLog2MaxFrmNum

VARIABLES
    stream,      \* elements the stream buffer manager will deliver
    next,        \* index of the one it delivers next
    pCurStreamFrame, \* index of the element requested, or 0
    nCurNaluIdx,
    info,        \* elements with bVideoInfoFlag set
    h,           \* H264Context but for the pictures
    dpb,         \* frmBufInf, see H264Dpb
    fault,       \* the fault of the stream
    keyOnly,     \* bDecodeKeyFrameOnly
    late, resets,\* budgets used
    from,        \* the element playback, or the last seek, started at
    listed,      \* the lists of the last slice and those it was coded with
    aborted      \* why the process ended, or ""

streamVars == <<stream, next, pCurStreamFrame, nCurNaluIdx, info>>
faultVars == <<fault, keyOnly, late, resets, from>>
vars == <<streamVars, h, dpb, faultVars, listed, aborted>>

----------------------------------------------------------------------------
(* The stream. *)

Nalu(p, first, last) ==
    [p |-> p, first |-> first, last |-> last,
     garbled |-> FALSE, error |-> FALSE]

Slices(p) == IF p.slices = 1 THEN <<Nalu(p, TRUE, TRUE)>>
             ELSE <<Nalu(p, TRUE, FALSE), Nalu(p, FALSE, TRUE)>>

\* The pictures of gops, the n-th group's places of display after those of
\* the groups before it.
Coded(gops) ==
    FlattenSeq([n \in DOMAIN gops |->
        [k \in DOMAIN gops[n] |->
            Slices([gops[n][k] EXCEPT !.ord = @ + 100 * n])]])

\* What a fault of each kind makes of s at element k: the picture is lost, or
\* a burst of pictures, its last slice, its first (the rest then follows the
\* picture before, the stream buffer manager starts a picture at a first
\* slice), its header is garbled, or the video engine finds an error in it.
Hit(s, kind, k) ==
    CASE kind = "picture" -> RemoveAt(s, k)
      [] kind = "burst"   -> SubSeq(s, 1, k - 1) \o SubSeq(s, k + 3, Len(s))
      [] kind = "tail"    -> [s EXCEPT ![k] = Front(@)]
      [] kind = "head"    -> RemoveAt([s EXCEPT ![k - 1] = @ \o Tail(s[k])], k)
      [] kind = "garbled" -> [s EXCEPT ![k][1].garbled = TRUE]
      [] kind = "error"   -> [s EXCEPT ![k][Len(s[k])].error = TRUE]

CanHit(s, kind, k) ==
    CASE kind = "burst" -> k + 3 <= Len(s)
      [] kind = "tail" -> Len(s[k]) > 1
      [] kind = "head" -> Len(s[k]) > 1 /\ k > 1
      [] OTHER -> TRUE

\* Elements that start a group, and those that come with a new resolution.
Starts(s) == {k \in DOMAIN s : s[k][1].p.idr /\ s[k][1].first}
Infos(s) == {k \in DOMAIN s : s[k][1].p.info}

----------------------------------------------------------------------------
(* The decoder context. *)

NewContext ==
    [nDecStep |-> "CONFIG_VBV", bNeedFindIFrm |-> TRUE,
     bNeedCheckFbmNum |-> FALSE, nDecFrameStatus |-> "END",
     bFstField |-> 255, nPicStructure |-> 255, nCurSliceNum |-> 0,
     nFrmNum |-> 0, nCurFrmNum |-> 0, nPicPocDeltaNum |-> 0,
     nNalRefIdc |-> FALSE, nSliceType |-> "I", nLastSliceType |-> "I",
     mmco |-> <<>>, bLastDropBFrame |-> FALSE,
     pLastPicturePtr |-> FALSE, pNextPicturePtr |-> FALSE,
     nFrmNumOffset |-> 0, nPrevFrmNumOffset |-> 0, nPrevFrmNum |-> 0,
     nPocMsb |-> 0, nPrevPocMsb |-> 0, nPocLsb |-> 0, nPrevPocLsb |-> 0,
     refList |-> NoLists]

\* H264ResetDecoderParams, but for the pictures.
H264ResetDecoderParams(c) ==
    [NewContext EXCEPT
        !.nPicPocDeltaNum = c.nPicPocDeltaNum,
        !.bNeedCheckFbmNum = c.bNeedCheckFbmNum,
        !.nNalRefIdc = c.nNalRefIdc, !.nSliceType = c.nSliceType,
        !.nLastSliceType = c.nLastSliceType, !.mmco = c.mmco,
        !.bLastDropBFrame = c.bLastDropBFrame,
        !.nPrevFrmNum = c.nPrevFrmNum, !.nPocMsb = c.nPocMsb,
        !.nPocLsb = c.nPocLsb]

cur == dpb.pCurPicturePtr
nalu == stream[pCurStreamFrame][nCurNaluIdx]

\* SbmFlushStream and SbmReturnStream of the element in use.
SbmFlushStream == pCurStreamFrame' = 0 /\ UNCHANGED <<stream, next, info>>
SbmReturnStream == /\ next' = pCurStreamFrame /\ pCurStreamFrame' = 0
                   /\ UNCHANGED <<stream, info>>

\* A reference to a NULL pointer, or abort(), ends the process.
Abort(why) ==
    /\ aborted' = why
    /\ UNCHANGED <<streamVars, h, dpb, faultVars, listed>>

----------------------------------------------------------------------------
(* Picture order count, H264InitPoc. *)

\* POC type 0.
PocMsb(c, lsb) ==
    LET msb == c.nPrevPocMsb
        prev == c.nPrevPocLsb
    IN  CASE lsb < prev /\ prev - lsb >= MaxPocLsb \div 2 -> msb + MaxPocLsb
          [] lsb > prev /\ lsb - prev > MaxPocLsb \div 2 -> msb - MaxPocLsb
          [] OTHER -> msb

\* Every other type: the test for type 1 reads nPocType of the context,
\* which nothing sets.
PocOfFrmNum(c, p) ==
    CASE p.idr -> 0
      [] ~p.idr /\ p.ref -> 2 * (c.nFrmNumOffset + p.frm)
      [] OTHER -> 2 * (c.nFrmNumOffset + p.frm) - 1

\* c and d are the context and the pictures at the first slice of p.
InitPocContext(c, p) ==
    LET offset == CASE p.idr -> 0
                    [] ~p.idr /\ p.frm < c.nPrevFrmNum ->
                          c.nPrevFrmNumOffset + MaxFrmNum
                    [] OTHER -> c.nPrevFrmNumOffset
        prev == IF p.idr /\ p.pocType = 0
                THEN [c EXCEPT !.nPrevPocMsb = 0, !.nPrevPocLsb = 0] ELSE c
        e == IF p.pocType = 0
             THEN [prev EXCEPT !.nPocMsb = PocMsb(prev, p.lsb),
                               !.nPocLsb = p.lsb]
             ELSE c
    IN  [e EXCEPT !.nFrmNumOffset = offset]

\* The order counts of the top and the bottom field of p.
FieldPoc(c, p) ==
    IF p.pocType = 0
    THEN <<c.nPocMsb + p.lsb,
           c.nPocMsb + p.lsb
           + (IF c.nPicStructure = PICT_FRAME THEN p.deltaBottom ELSE 0)>>
    ELSE <<PocOfFrmNum(c, p), PocOfFrmNum(c, p)>>

InitPoc(c, d, p) ==
    LET poc == FieldPoc(c, p)
        top == c.nPicStructure # PICT_BOTTOM_FIELD
        bottom == c.nPicStructure # PICT_TOP_FIELD
        i == d.pCurPicturePtr
        old == d.picture[i].nFieldPoc
        new == <<IF top THEN poc[1] ELSE old[1],
                 IF bottom THEN poc[2] ELSE old[2]>>
        whole == c.nPicStructure = PICT_FRAME \/ c.bFstField = 0
    IN  [d EXCEPT !.picture[i].nFieldPoc = new,
                  !.picture[i].nPoc =
                      CASE whole -> IF new[1] < new[2] THEN new[1] ELSE new[2]
                        [] ~whole /\ bottom -> new[2]
                        [] OTHER -> new[1]]

----------------------------------------------------------------------------
(* H264DecodeSliceHeader. *)

\* The context and the pictures when the header of nalu is read: an IDR has
\* dropped every reference.
c0 == [h EXCEPT !.nNalRefIdc = nalu.p.ref,
                !.bNeedFindIFrm = @ /\ ~nalu.p.idr]
d0 == IF nalu.p.idr THEN H264ReferenceRefresh(dpb) ELSE dpb

\* H264CheckNewFrame returns an error: a picture was begun and not completed.
Unfinished(c) == c.nDecFrameStatus = "START" /\ cur # 0

\* The frame number is not the last one or the next.
Gap(c, p) ==
    LET diff == IF c.nFrmNum >= p.frm THEN c.nFrmNum - p.frm
                ELSE p.frm - c.nFrmNum
    IN  /\ ~keyOnly /\ c.nCurFrmNum >= 2 /\ c.nFrmNum # 0 /\ p.frm # 0
        /\ diff >= 2 /\ p.type # "I"

\* The structure of the picture: only a first slice can change it.
Structure(c) == IF nalu.first THEN nalu.p.struct ELSE c.nPicStructure

\* The field decoded before does not go with this one.
Unmatched(c, p) ==
    /\ c.bFstField = 1 /\ Structure(c) = c.nPicStructure
    /\ c.nFrmNum = p.frm
    /\ ~(p.type = c.nLastSliceType /\ p.type \in {"P", "I"})

\* A picture begins: a frame, or the first field of one.
Begins(c) == /\ c.nCurSliceNum = 0
             /\ Structure(c) = PICT_FRAME \/ c.bFstField # 1

FreeSlots(d) == {i \in Slots : /\ d.picture[i].pVPicture = 0
                               /\ ~d.picture[i].bDropBFrame}

\* H264FrameStart finds neither a slot nor a buffer.
NoBuffer(d) == FreeSlots(d) = {} \/ EmptyBuffers(d) = {}

\* How the header of nalu is taken, the first that applies.
Outcome ==
    LET p == nalu.p
        c == c0
        fieldOpen == c.bFstField = 1
    IN  IF nalu.first /\ Unfinished(c) THEN "incomplete"
        ELSE IF ~nalu.first /\ c.nDecFrameStatus = "END"
                /\ c.bLastDropBFrame THEN "dropped"
        ELSE IF nalu.garbled THEN "fail"
        ELSE IF c.bNeedFindIFrm /\ p.type # "I" THEN "fail"
        ELSE IF p.type = "B" /\ ~c.pLastPicturePtr THEN "noLast"
        ELSE IF Gap(c, p) /\ Unfinished(c) THEN "incomplete"
        ELSE IF Gap(c, p) /\ fieldOpen /\ c.nPicStructure # PICT_FRAME
             THEN "fieldMissed"
        ELSE IF Gap(c, p) /\ ~bDispErrorFrame THEN "restart"
        ELSE IF nalu.first /\ fieldOpen
                /\ p.struct \in {PICT_FRAME, c.nPicStructure} THEN "unpaired"
        ELSE IF c.nCurSliceNum = 0 /\ Unmatched(c, p) THEN "unmatched"
        ELSE IF c.nCurSliceNum = 0 /\ fieldOpen /\ c.nFrmNum # p.frm
                /\ cur # 0 THEN "otherFrame"
        ELSE IF Begins(c) /\ NoBuffer(d0) THEN "noBuffer"
        ELSE IF ~Begins(c) /\ cur = 0 THEN "noPicture"
        ELSE "decode"

\* The context when the slice's frame number has been read.
c1 == [c0 EXCEPT !.bNeedFindIFrm = FALSE, !.nSliceType = nalu.p.type,
                 !.nFrmNum = nalu.p.frm]

\* The context is again that of the picture begun before.
BackTo(c) ==
    [c EXCEPT !.nNalRefIdc = d0.picture[cur].nNalRefIdc,
              !.nSliceType = d0.picture[cur].nPictType,
              !.nFrmNum = d0.picture[cur].nFrmNum]

MarkError(d) == IF cur = 0 THEN d
                ELSE [d EXCEPT !.picture[cur].bDecErrorFlag = TRUE]

\* VRESULT_DEC_FRAME_ERROR: the element goes back to the stream buffer
\* manager and the picture begun before is taken as it is.
EndPicture(c) ==
    /\ h' = [c EXCEPT !.nDecStep = "PROCESS_DECODE_RESULT",
                      !.nDecFrameStatus = "END"]
    /\ dpb' = MarkError(d0)
    /\ SbmReturnStream /\ nCurNaluIdx' = nCurNaluIdx
    /\ UNCHANGED <<faultVars, listed, aborted>>

\* The next NAL unit of the element, which is flushed after its last one.
NextNalu ==
    /\ nCurNaluIdx' = nCurNaluIdx + 1
    /\ IF nCurNaluIdx = Len(stream[pCurStreamFrame])
       THEN SbmFlushStream
       ELSE UNCHANGED <<stream, next, pCurStreamFrame, info>>

Decoding == /\ aborted = "" /\ h.nDecStep = "DECODE_ONE_FRAME"
            /\ pCurStreamFrame # 0

IncompletePicture ==
    /\ Decoding /\ Outcome = "incomplete"
    /\ LET c == IF nalu.first THEN c0 ELSE c1 IN
       EndPicture([(IF h.bFstField = 0 \/ h.nPicStructure = PICT_FRAME
                    THEN BackTo(c) ELSE c) EXCEPT !.nCurSliceNum = 0])

\* The second field of the picture begun before is not in the stream.
FieldMissed ==
    /\ Decoding /\ Outcome = "fieldMissed"
    /\ IF cur = 0 THEN Abort("null")
       ELSE EndPicture([c1 EXCEPT !.bFstField = 0])

UnpairedField ==
    /\ Decoding /\ Outcome = "unpaired"
    /\ IF cur = 0 THEN Abort("null")
       ELSE EndPicture([BackTo(c1) EXCEPT !.bFstField = 0,
                                          !.nPicStructure = nalu.p.struct])

\* The field before is not of this frame, or has no slices after its first.
UnmatchedField ==
    /\ Decoding /\ Outcome \in {"unmatched", "otherFrame"}
    /\ IF cur = 0 THEN Abort("null")
       ELSE EndPicture([BackTo(c1) EXCEPT !.bFstField = 0,
                                          !.nCurSliceNum = 0,
                                          !.nPicStructure = Structure(c0)])

\* Slices that cannot be decoded are passed over.
SkipSlice ==
    /\ Decoding /\ Outcome \in {"fail", "noLast", "noPicture"}
    /\ h' = IF Outcome = "noPicture"
            THEN [c1 EXCEPT !.nPicStructure = Structure(c0), !.bFstField = 0]
            ELSE c0
    /\ dpb' = MarkError(d0)
    /\ NextNalu
    /\ UNCHANGED <<faultVars, listed, aborted>>

\* Mutant: the pictures are forgotten without a flush.
RestartUnflushed ==
    /\ Decoding /\ Outcome = "restart"
    /\ h' = H264ResetDecoderParams(c1)
    /\ dpb' = ForgetPictures(d0)
    /\ SbmFlushStream /\ nCurNaluIdx' = nCurNaluIdx
    /\ UNCHANGED <<faultVars, listed, aborted>>

\* A frame number is missing: everything starts again from an I picture.
RestartAtGap ==
    /\ Decoding /\ Outcome = "restart"
    /\ h' = H264ResetDecoderParams(c1)
    /\ dpb' = ForgetPictures(H264FlushDelayedPictures(d0))
    /\ SbmFlushStream /\ nCurNaluIdx' = nCurNaluIdx
    /\ UNCHANGED <<faultVars, listed, aborted>>

\* VDECODE_RESULT_NO_FRAME_BUFFER: the same slice again when there is one.
NoFrameBuffer ==
    /\ Decoding /\ Outcome = "noBuffer"
    /\ h' = [c1 EXCEPT !.nDecStep = "UPDATE_DATA"]
    /\ dpb' = d0
    /\ UNCHANGED <<streamVars, faultVars, listed, aborted>>

\* VRESULT_DROP_B_FRAME: d is sorted with the picture dropped, if it is one.
DropBFrame(c, d) ==
    /\ h' = [c EXCEPT !.nDecStep = "UPDATE_DATA"]
    /\ dpb' = IF d.pCurPicturePtr = 0 THEN d
              ELSE H264SortDisplayFrameOrder(d, keyOnly, c.nPicPocDeltaNum,
                                             c.nCurFrmNum)
    /\ SbmFlushStream /\ nCurNaluIdx' = nCurNaluIdx

\* The other slices of a B picture that was dropped.
RestOfDropped ==
    /\ Decoding /\ Outcome = "dropped"
    /\ DropBFrame(c0, d0)
    /\ UNCHANGED <<faultVars, listed, aborted>>

----------------------------------------------------------------------------
(* A slice that is decoded. *)

\* H264FrameStart: the context, and the pictures with a slot and a buffer for
\* the new one.
StartContext(c, p) ==
    IF p.type = "B" THEN c
    ELSE [c EXCEPT !.pLastPicturePtr = c.pNextPicturePtr,
                   !.pNextPicturePtr = @ \/ p.ref]

H264FrameStart(c, d, p) ==
    LET i == Min(FreeSlots(d))
        b == Min(EmptyBuffers(d))
    IN  [d EXCEPT !.pCurPicturePtr = i, !.held = @ \cup {b},
                  !.picture[i] =
                     [@ EXCEPT !.pVPicture = b, !.bHasDispedFlag = FALSE,
                               !.nReference = IF p.ref THEN c.nPicStructure
                                              ELSE 0,
                               !.bDecErrorFlag = FALSE, !.ord = p.ord,
                               !.bKeyFrame = p.type = "I"]]

\* The context with the picture's structure, and the field that is awaited.
WithStructure(c) ==
    [c EXCEPT !.nPicStructure = Structure(c),
              !.bFstField =
                 CASE c.nCurSliceNum # 0 -> @
                   [] c.nCurSliceNum = 0 /\ Structure(c) = PICT_FRAME -> 0
                   [] OTHER -> IF @ = 1 THEN 0 ELSE 1]

\* The step between the order counts of two frames: one, if there is an odd
\* one, or two, guessed at the second frame that is not a B picture.
DeltaNum(c, d, begins) ==
    LET poc == d.picture[d.pCurPicturePtr].nFieldPoc[1]
        odd == /\ c.nCurSliceNum = 0 /\ c.nPicStructure # PICT_BOTTOM_FIELD
               /\ poc > 0 /\ poc % 2 = 1
        delta == IF odd THEN 1 ELSE c.nPicPocDeltaNum
    IN  IF begins /\ ~keyOnly /\ delta = 0 /\ c.pLastPicturePtr
        THEN 2 ELSE delta

\* H264DecodeRefPicMarking: an IDR may become a long-term reference, the
\* commands of the stream, or else the oldest short-term reference makes room.
H264DecodeRefPicMarking(c, d, p) ==
    LET frame == c.nPicStructure = PICT_FRAME
        curPicNum == IF frame THEN p.frm ELSE 2 * p.frm + 1
        maxPicNum == IF frame THEN MaxFrmNum ELSE 2 * MaxFrmNum
        read(op) == [op EXCEPT !.picNum = (curPicNum - @) % maxPicNum]
        second == /\ ~frame /\ c.bFstField = 0
                  /\ d.picture[d.pCurPicturePtr].nReference # 0
        full == /\ d.pShortRef # <<>>
                /\ d.nLongRefCount + Len(d.pShortRef) = nRefFrmCount
        oldest == d.picture[Last(d.pShortRef)].nFrmNum
        unused(n) == [op |-> "SHORT_TO_UNUSED", picNum |-> n, long |-> 0]
    IN  CASE p.idr -> IF p.mmco = <<>> THEN <<>>
                      ELSE <<[op |-> "LONG", picNum |-> 0, long |-> 0]>>
          [] ~p.idr /\ p.mmco # <<>> -> [k \in DOMAIN p.mmco |->
                                            read(p.mmco[k])]
          [] ~p.idr /\ p.mmco = <<>> /\ full /\ ~second ->
                IF frame THEN <<unused(oldest)>>
                ELSE <<unused(2 * oldest), unused(2 * oldest + 1)>>
          [] OTHER -> <<>>

\* The reference lists of the slice; an I slice leaves them as they are.
RefList(c, d, p) ==
    LET sel == c.nPicStructure
        frame == sel = PICT_FRAME
        i == d.pCurPicturePtr
        poc == IF frame THEN d.picture[i].nPoc
               ELSE d.picture[i].nFieldPoc[sel]
        nums == [sel |-> sel, cur |-> IF frame THEN p.frm ELSE 2 * p.frm + 1,
                 max |-> IF frame THEN MaxFrmNum ELSE 2 * MaxFrmNum]
    IN  IF p.type = "I" THEN c.refList
        ELSE H264DecodeRefPicListReordering(
                d, H264FillDefaultRefList(d, p.type, sel, poc), p.commands,
                p.nRefCount, nums, c.refList)

\* The context and the pictures with the slot of the picture.
Begun(c, p) ==
    IF Begins(c0) THEN [c |-> StartContext(c, p), d |-> H264FrameStart(c, d0, p)]
    ELSE [c |-> c, d |-> d0]

Named(d, i, p) ==
    [d EXCEPT !.picture[i].nFrmNum = p.frm, !.picture[i].nNalRefIdc = p.ref,
              !.picture[i].nPictType = p.type]

\* ... with its order counts, at its first slice...
Ordered(b, p) ==
    LET d == Named(b.d, b.d.pCurPicturePtr, p)
        c == InitPocContext(b.c, p)
    IN  IF b.c.nCurSliceNum = 0 THEN [c |-> c, d |-> InitPoc(c, d, p)]
        ELSE [c |-> b.c, d |-> d]

\* ... and when the slice header has been read.
Header ==
    LET read(b) == [b EXCEPT !.c.nPicPocDeltaNum =
                                 DeltaNum(b.c, b.d, Begins(c0)),
                             !.c.refList = RefList(b.c, b.d, nalu.p)]
    IN  read(Ordered(Begun(WithStructure(c1), nalu.p), nalu.p))

\* The entry of a list as the encoder knows it.
AsCoded(d, list) ==
    [k \in DOMAIN list |->
        IF list[k].i = 0 THEN <<0, 0>>
        ELSE <<d.picture[list[k].i].ord, list[k].fields>>]

\* What the video engine is given to refer to: the lists of the first slice of
\* a picture, which stay for its other slices.
Listed(c, d, p) ==
    [got  |-> IF c.nCurSliceNum = 0
              THEN [l \in 1..2 |-> AsCoded(d, c.refList[l])]
              ELSE listed.got,
     want |-> [l \in 1..2 |-> [k \in DOMAIN p.lists[l] |->
                 LET e == p.lists[l][k]
                 IN  IF e[2] = 0 THEN <<0, 0>>
                     ELSE <<e[1] + 100 * (p.ord \div 100), e[2]>>]],
     missing |-> \E l \in 1..2 : \E k \in DOMAIN c.refList[l] :
                    LET i == c.refList[l][k].i
                    IN  i # 0 /\ d.picture[i].pVPicture \notin d.held]

\* A B picture nothing refers to comes too late: its buffer goes back, the
\* slot is kept until the picture would have been displayed.
Dropped(d) ==
    [FbmReturnBuffer(d, d.pCurPicturePtr, FALSE) EXCEPT
        !.picture[d.pCurPicturePtr].pVPicture = 0,
        !.picture[d.pCurPicturePtr].bDropBFrame = TRUE]

LateBFrame ==
    /\ Decoding /\ Outcome = "decode" /\ Begins(c0)
    /\ nalu.p.type = "B" /\ ~nalu.p.ref
    /\ fault = "late" /\ late < MaxLate
    /\ \E read \in {Header} :
          DropBFrame([read.c EXCEPT !.bLastDropBFrame = TRUE],
                     Dropped(read.d))
    /\ late' = late + 1
    /\ UNCHANGED <<fault, keyOnly, resets, from, listed, aborted>>

\* The context when a slice of p has been decoded.
SliceDone(c, d, p) ==
    [c EXCEPT !.bLastDropBFrame = FALSE, !.nLastSliceType = p.type,
              !.mmco = IF p.ref THEN H264DecodeRefPicMarking(c, d, p) ELSE @,
              !.nDecFrameStatus = IF nalu.last THEN "END" ELSE "START",
              !.nCurSliceNum = IF nalu.last THEN 0 ELSE @ + 1,
              !.nDecStep = IF nalu.last THEN "PROCESS_DECODE_RESULT" ELSE @]

DecodeNalu(c, d, p) ==
    IF d.picture[d.pCurPicturePtr].pVPicture = 0 THEN Abort("null")
    ELSE IF nalu.last /\ nCurNaluIdx # Len(stream[pCurStreamFrame])
         THEN Abort("abort")
    ELSE /\ h' = SliceDone(c, d, p)
         /\ dpb' = [d EXCEPT !.picture[d.pCurPicturePtr].bDecErrorFlag =
                                @ \/ nalu.error]
         /\ listed' = IF p.type = "I" THEN listed ELSE Listed(c, d, p)
         /\ NextNalu
         /\ UNCHANGED <<faultVars, aborted>>

\* The slice is decoded, and the picture with its last one.
DecodeSlice ==
    /\ Decoding /\ Outcome = "decode"
    /\ \E read \in {Header} : DecodeNalu(read.c, read.d, nalu.p)

----------------------------------------------------------------------------
(* The steps around: data, results, reset. *)

\* H264_STEP_CONFIG_VBV.
ConfigVbv ==
    /\ aborted = "" /\ h.nDecStep = "CONFIG_VBV"
    /\ h' = [h EXCEPT !.nDecStep = "UPDATE_DATA", !.bNeedCheckFbmNum = TRUE]
    /\ UNCHANGED <<streamVars, dpb, faultVars, listed, aborted>>

\* H264_STEP_UPDATE_DATA: a new picture is begun only with an empty buffer.
\* That there is data is left to the next step: without any, the code stays
\* in this one and has nothing left to do in it.
UpdateData ==
    /\ aborted = "" /\ h.nDecStep = "UPDATE_DATA"
    /\ h.bNeedCheckFbmNum => EmptyBuffers(dpb) # {}
    /\ h' = [h EXCEPT !.nDecStep = "DECODE_ONE_FRAME",
                      !.bNeedFindIFrm = @ \/ (h.bNeedCheckFbmNum /\ keyOnly),
                      !.bNeedCheckFbmNum = FALSE]
    /\ UNCHANGED <<streamVars, dpb, faultVars, listed, aborted>>

\* H264RequestOneFrameStream.
RequestStream ==
    /\ aborted = "" /\ h.nDecStep = "DECODE_ONE_FRAME"
    /\ pCurStreamFrame = 0 /\ next <= Len(stream) /\ next \notin info
    /\ pCurStreamFrame' = next /\ next' = next + 1 /\ nCurNaluIdx' = 1
    /\ UNCHANGED <<stream, info, h, dpb, faultVars, listed, aborted>>

\* The element comes with a new resolution: it goes back, the delayed pictures
\* are displayed and, VDECODE_RESULT_RESOLUTION_CHANGE, the caller makes
\* another decoder and other buffers once the player has returned these.
ResolutionChange ==
    /\ aborted = "" /\ h.nDecStep = "DECODE_ONE_FRAME"
    /\ pCurStreamFrame = 0 /\ next \in info
    /\ IF dpb.pDelayedPic # <<>>
       THEN /\ dpb' = H264FlushDelayedPictures(dpb)
            /\ UNCHANGED <<info, h>>
       ELSE /\ dpb.display = <<>>
            /\ info' = info \ {next}
            /\ dpb' = [EmptyDpb EXCEPT !.shown = dpb.shown]
            /\ h' = NewContext
    /\ UNCHANGED <<stream, next, pCurStreamFrame, nCurNaluIdx, faultVars,
                   listed, aborted>>

\* There is no more data and bEndOfStream is set.
EndOfStream ==
    /\ aborted = "" /\ h.nDecStep = "DECODE_ONE_FRAME"
    /\ pCurStreamFrame = 0 /\ next > Len(stream)
    /\ dpb' = H264FlushDelayedPictures(dpb)
    /\ UNCHANGED <<streamVars, h, faultVars, listed, aborted>>

\* H264_STEP_PROCESS_DECODE_RESULT: the context when the result is taken.
Decoded(c) ==
    [c EXCEPT !.nPrevFrmNumOffset = c.nFrmNumOffset,
              !.nPrevFrmNum = c.nFrmNum,
              !.nPrevPocMsb = c.nPocMsb, !.nPrevPocLsb = c.nPocLsb,
              !.nDecStep = "UPDATE_DATA"]

\* The picture is marked as a reference if it is one.
Marked(c) ==
    LET d == [dpb EXCEPT !.picture[cur].nPictType = c.nSliceType]
    IN  IF c.nNalRefIdc
        THEN H264ExecuteRefPicMarking(d, c.mmco, c.nPicStructure, c.bFstField)
        ELSE d

ResultDue == aborted = "" /\ h.nDecStep = "PROCESS_DECODE_RESULT" /\ cur # 0

\* The first field waits for the second.
ProcessFirstField ==
    /\ ResultDue /\ h.bFstField = 1
    /\ h' = [Decoded(h) EXCEPT !.bNeedCheckFbmNum = FALSE]
    /\ dpb' = Marked(h)
    /\ UNCHANGED <<streamVars, faultVars, listed, aborted>>

\* H264ProcessErrorFrame: a reference with an error is not displayed, and
\* everything starts again from an I picture.
ErrorFrame(d) == ~bDispErrorFrame /\ h.nNalRefIdc /\ d.picture[cur].bDecErrorFlag

ProcessErrorFrame ==
    /\ ResultDue /\ h.bFstField # 1
    /\ h' = H264ResetDecoderParams(Decoded(h))
    /\ \E d \in {Marked(h)} :
          /\ ErrorFrame(d)
          /\ dpb' = ForgetPictures(H264FlushDelayedPictures(d))
    /\ pCurStreamFrame' = 0
    /\ UNCHANGED <<stream, next, nCurNaluIdx, info, faultVars, listed,
                   aborted>>

\* The picture takes its place among those that wait to be displayed.
\* MaxCurFrmNum bounds nCurFrmNum: it is only compared with 2.
MaxCurFrmNum == 3

ProcessDecodeResult ==
    /\ ResultDue /\ h.bFstField # 1
    /\ LET n == IF h.nCurFrmNum = MaxCurFrmNum THEN MaxCurFrmNum
                ELSE h.nCurFrmNum + 1
       IN  \E d \in {Marked(h)} :
              /\ ~ErrorFrame(d)
              /\ IF d.picture[cur].pVPicture = 0
                 THEN /\ h' = [Decoded(h) EXCEPT !.bNeedCheckFbmNum = TRUE]
                      /\ dpb' = d
                 ELSE /\ h' = [Decoded(h) EXCEPT !.bNeedCheckFbmNum = TRUE,
                                                 !.nCurFrmNum = n]
                      /\ dpb' = H264SortDisplayFrameOrder(d, keyOnly,
                                                          h.nPicPocDeltaNum, n)
    /\ UNCHANGED <<streamVars, faultVars, listed, aborted>>

\* H264DecoderRest, between two calls of the decoder: a seek.  The stream
\* buffer manager has been emptied; the data that follows starts with a group
\* or, if not whole, after the first slice of one.
Reset ==
    /\ aborted = "" /\ fault \in {"none", "late"} /\ resets < MaxResets
    /\ \/ h.nDecStep = "UPDATE_DATA"
       \/ h.nDecStep = "DECODE_ONE_FRAME" /\ pCurStreamFrame = 0
    /\ \E k \in Starts(stream), whole \in BOOLEAN :
          /\ next' = k /\ from' = k
          /\ whole => UNCHANGED <<stream, fault>>
          /\ ~whole => /\ Len(stream[k]) > 1
                       /\ stream' = [stream EXCEPT ![k] = Tail(@)]
                       /\ fault' = "seek"
    /\ h' = H264ResetDecoderParams(h)
    /\ dpb' = [ForgetPictures(H264FlushDelayedPictures(dpb))
                  EXCEPT !.shown = <<>>]
    /\ pCurStreamFrame' = 0
    /\ resets' = resets + 1
    /\ UNCHANGED <<nCurNaluIdx, info, keyOnly, late, listed, aborted>>

\* The player returns the picture it has shown longest.
ReturnPicture ==
    /\ dpb.display # <<>>
    /\ dpb' = [dpb EXCEPT !.display = Tail(@)]
    /\ UNCHANGED <<streamVars, h, faultVars, listed, aborted>>

----------------------------------------------------------------------------

Init ==
    /\ \E s \in {Coded(gops) : gops \in Streams} :
          \/ fault \in {"none"} \cup (Faults \cap {"late"}) /\ stream = s
          \/ \E kind \in Faults \ {"late"}, k \in DOMAIN s :
                /\ CanHit(s, kind, k)
                /\ fault = kind /\ stream = Hit(s, kind, k)
    /\ info = Infos(stream)
    /\ next = 1 /\ pCurStreamFrame = 0 /\ nCurNaluIdx = 1
    /\ h = NewContext
    /\ dpb = EmptyDpb
    /\ keyOnly \in KeyOnlyModes
    /\ late = 0 /\ resets = 0 /\ from = 1
    /\ listed = [got |-> NoLists, want |-> NoLists, missing |-> FALSE]
    /\ aborted = ""

Decode ==
    \/ ConfigVbv \/ UpdateData \/ RequestStream \/ ResolutionChange
    \/ EndOfStream
    \/ IncompletePicture \/ FieldMissed \/ UnpairedField \/ UnmatchedField
    \/ SkipSlice \/ RestartAtGap \/ NoFrameBuffer \/ RestOfDropped
    \/ DecodeSlice
    \/ ProcessFirstField \/ ProcessErrorFrame \/ ProcessDecodeResult

Next == Decode \/ LateBFrame \/ Reset \/ ReturnPicture

Spec == Init /\ [][Next]_vars

\* The types of the variables.
TypeOK ==
    /\ stream \in Seq(Seq([p : [ord : Nat, idr : BOOLEAN, ref : BOOLEAN,
                                type : {"I", "P", "B"}, frm : Nat,
                                pocType : 0..2, lsb : Nat, poc : Nat,
                                deltaBottom : Int, struct : 1..3,
                                mmco : Seq([op : STRING, picNum : Int,
                                            long : Nat]),
                                commands : Seq(Seq([op : STRING, num : Nat])),
                                nRefCount : Seq(Nat), slices : 1..2,
                                info : BOOLEAN, lists : Seq(Seq(Seq(Nat)))],
                           first : BOOLEAN, last : BOOLEAN,
                           garbled : BOOLEAN, error : BOOLEAN]))
    /\ next \in Nat \ {0} /\ nCurNaluIdx \in Nat \ {0}
    /\ pCurStreamFrame \in 0..Len(stream) /\ info \subseteq DOMAIN stream
    /\ h.nDecStep \in {"CONFIG_VBV", "UPDATE_DATA", "DECODE_ONE_FRAME",
                       "PROCESS_DECODE_RESULT"}
    /\ h.nDecFrameStatus \in {"START", "END"}
    /\ h.bFstField \in {0, 1, 255} /\ h.nPicStructure \in {1, 2, 3, 255}
    /\ h.nCurFrmNum \in 0..MaxCurFrmNum /\ h.nPicPocDeltaNum \in 0..2
    /\ dpb.held \subseteq Buffers /\ Range(dpb.display) \subseteq Buffers
    /\ dpb.pCurPicturePtr \in {0} \cup Slots
    /\ Range(dpb.pShortRef) \cup Range(dpb.pDelayedPic) \subseteq Slots
    /\ dpb.pLongRef \in [LongIndexes -> {0} \cup Slots]
    /\ \A i \in Slots : /\ dpb.picture[i].pVPicture \in {0} \cup Buffers
                        /\ dpb.picture[i].nReference \in 0..4 \cup {255}
    /\ aborted \in {"", "null", "abort"}

\* The decoder neither aborts nor uses a NULL pointer, whatever one fault has
\* done to the stream (h264.c:1365, h264_nalu.c:2109).
NoAbort == aborted = ""

\* Nothing was lost or damaged on the way and no picture was dropped.
Intact == fault = "none"

\* The video engine refers to the pictures the encoder referred to, in the
\* encoder's order, frames and fields (h264_mmco.c:266, 513, 792).
RefsAsCoded == Intact => listed.got = listed.want

\* Whatever was lost, a picture marked as a reference keeps its buffer until
\* the marking goes, and a slice never refers to a picture without its buffer
\* (H264UnnReferencePic, H264FlushDelayedPictures).  With key frames only a
\* picture goes to the display and stays in the list, unmarked.
RefsHeld ==
    /\ ~listed.missing
    /\ \A i \in (Range(dpb.pShortRef) \cup Range(dpb.pLongRef)) \ {0} :
          And(dpb.picture[i].nReference, PICT_FRAME) # 0 =>
              dpb.picture[i].pVPicture \in dpb.held

\* As long as every picture arrives they leave for the display in the order
\* they are meant to be seen, even if some are damaged, dropped or skipped
\* (H264SortDisplayFrameOrder).
DisplayOrder ==
    fault \notin {"picture", "burst", "garbled", "seek"} =>
        \A k \in 1..Len(dpb.shown) - 1 : dpb.shown[k] < dpb.shown[k + 1]

\* No picture is displayed twice, whatever was lost: a reference goes to the
\* display while the decoder keeps it, and must not when it is given back.
ShownOnce == IsInjective(dpb.shown)

\* A buffer belongs to one slot, and the decoder has no others.
BuffersOwned ==
    LET used == {i \in Slots : dpb.picture[i].pVPicture # 0}
    IN  /\ dpb.held = {dpb.picture[i].pVPicture : i \in used}
        /\ Cardinality(dpb.held) = Cardinality(used)

\* What keeps a slot's buffer from going back to the display or the pool.
Needed(d, i) ==
    \/ i = d.pCurPicturePtr
    \/ i \in Range(d.pDelayedPic) \cup Range(d.pShortRef)
    \/ \E l \in LongIndexes : d.pLongRef[l] = i

\* A buffer the decoder holds is one it still decodes into, refers to or has
\* to display: no path through errors, flushes and resets forgets one.
LeakFree == \A i \in Slots : dpb.picture[i].pVPicture # 0 => Needed(dpb, i)

\* Slots no picture is ever put in again: bDropBFrame is cleared when the
\* dropped picture's turn to be displayed comes, and a flush empties
\* pDelayedPic without it (h264.c:420, h264_nalu.c:1506).
LostSlots ==
    {i \in Slots : dpb.picture[i].bDropBFrame /\ i \notin Range(dpb.pDelayedPic)}

\* A decoder without an empty buffer waits for the player and never for
\* itself: when all pictures it has shown are back there is a buffer and, if
\* none was lost, a slot it can take, whatever went wrong before.
NeverStarved ==
    /\ aborted = "" /\ dpb.display = <<>> /\ pCurStreamFrame = 0
    /\ h.nDecStep = "UPDATE_DATA" /\ h.bNeedCheckFbmNum
    => EmptyBuffers(dpb) # {} /\ (LostSlots = {} => FreeSlots(dpb) # {})

\* Everything has been decoded and flushed.
Finished == /\ next > Len(stream) /\ pCurStreamFrame = 0
            /\ h.nDecStep = "DECODE_ONE_FRAME" /\ dpb.pDelayedPic = <<>>

\* The pictures from the last start on, those with key frames only.
ToShow == {stream[k][1].p.ord : k \in {m \in from..Len(stream) :
              keyOnly => stream[m][1].p.type = "I"}}

\* At the end of a stream that lost nothing every picture has been displayed
\* but for B pictures that were dropped.
AllShown ==
    fault \in {"none", "late"} /\ Finished =>
        Cardinality(ToShow \ Range(dpb.shown)) <= late

\* Pictures the stream has lost a part of, or with a decoding error.
Damaged ==
    {stream[k][1].p.ord : k \in {m \in DOMAIN stream :
        \/ ~Last(stream[m]).last
        \/ \E j \in DOMAIN stream[m] : stream[m][j].error}}

\* With bDispErrorFrame off a damaged picture is not displayed.
ErrorHidden == ~bDispErrorFrame => Range(dpb.shown) \cap Damaged = {}

\* The decoder's buffers, through losses, errors, resets and key frame mode:
\* none is used without one, shared, forgotten or waited for in vain.
BuffersKept ==
    TypeOK /\ NoAbort /\ RefsHeld /\ BuffersOwned /\ LeakFree /\ NeverStarved

\* What the player is given (H264SortDisplayFrameOrder, H264OutputPicture):
\* every picture once, in order, and none that is damaged.
ShownAsCoded == DisplayOrder /\ ShownOnce /\ AllShown /\ ErrorHidden

============================================================================
