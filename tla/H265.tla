-------------------------------- MODULE H265 -------------------------------
(***************************************************************************)
(* The H.265 decoder (h265_drv.c, h265.c): the calls of H265DecoderDecode  *)
(* over the pictures the stream buffer manager delivers, and the player    *)
(* that gives displayed buffers back.                                      *)
(*                                                                         *)
(* The stream is what the encoder wrote, with at most one kind of fault on *)
(* the way (Faults).  An element of stream is an access unit as the stream *)
(* buffer manager hands it out, a sequence of NAL units, and is decoded    *)
(* within one call: its slices by the video engine, one after the other.   *)
(***************************************************************************)
EXTENDS H265Slice

CONSTANTS
    Streams,      \* sequences of groups, each of coded pictures
    Faults,       \* kinds of fault a stream may have
    KeyOnlyModes, \* values of bDecodeKeyFrameOnly, one per playback
    MaxLate,      \* calls that find the decoder late, in a stream of that kind
    MaxResets     \* seeks of the player, in a stream without other faults

RefSets == Seq([delta : Int, used : BOOLEAN])

\* A coded picture: what its parameter sets and slice headers say, its place
\* ord in the order of display, the references want of its lists in that order.
Pictures ==
    [ord : Nat, type : STRING, tid : Nat, slice : {"I", "P", "B"}, lsb : Nat,
     output : BOOLEAN, slices : {1, 2}, sps : Nat \ {0}, eos : BOOLEAN,
     short : [kind : {"sps"}, idx : Nat \ {0}]
             \cup [kind : {"coded"},
                   neg : Seq([minus1 : Nat, used : BOOLEAN]),
                   pos : Seq([minus1 : Nat, used : BOOLEAN])]
             \cup [kind : {"predicted"}, idx : Nat \ {0}, delta : Int,
                   flags : Seq([used : BOOLEAN, useDelta : BOOLEAN])],
     long : Seq([lsb : Nat, msb : BOOLEAN, cycle : Nat, used : BOOLEAN]),
     lists : Seq([n : Nat, mod : Seq(Nat)]), want : Seq(Seq(Nat))]

\* The buffers are enough for the references of p and the pictures that wait:
\* HevcInitialFBM asks for nMaxDecPicBuffering, which counts the picture itself
\* and is more than nMaxNumReoderPics, for nMaxNumReoderPics and for what the
\* display may hold.
SetFits(p) ==
    /\ ShortTermRefSet(p.short) \in RefSets
    /\ Len(ShortTermRefSet(p.short)) + Len(p.long) + nMaxNumReoderPics
          < nFrameBuffers

FaultKinds == {"picture", "burst", "tail", "head", "garbled", "refs", "error",
               "late", "vps", "sps", "pps"}

ASSUME StreamsAssumption ==
    /\ \A groups \in Streams :
          /\ groups \in Seq(Seq(Pictures))
          /\ \A n \in DOMAIN groups : \A k \in DOMAIN groups[n] :
                SetFits(groups[n][k])
    /\ Faults \subseteq FaultKinds /\ KeyOnlyModes \subseteq BOOLEAN
    /\ {MaxLate, MaxResets} \subseteq Nat
    /\ nMaxNumReoderPics + 1 < nFrameBuffers

VARIABLES
    stream,       \* access units the stream buffer manager will deliver
    next,         \* index of the one it delivers next
    pCurStreamFrame, \* index of the one requested, or 0
    h,            \* HevcContex but for the pictures
    dpb,          \* the pictures, see H265Dpb
    fault,        \* the fault of the stream
    keyOnly,      \* bDecodeKeyFrameOnly
    late, resets, \* budgets used
    from,         \* the access unit playback, or the last seek, started at
    listed        \* the references of the last slice and those it was coded
                  \* with

streamVars == <<stream, next, pCurStreamFrame>>
faultVars == <<fault, keyOnly, late, resets, from>>
vars == <<streamVars, h, dpb, faultVars, listed>>

----------------------------------------------------------------------------
(* The stream. *)

Slice(p, first, last) ==
    [kind |-> "slice", p |-> p, first |-> first, last |-> last,
     garbled |-> FALSE, error |-> FALSE]

Other(kind, p) == [kind |-> kind, p |-> p]

\* The access unit of p: parameter sets, slices, the end of a sequence.
Unit(p) ==
    (IF HEVC_IS_KEYFRAME(p.type)
     THEN <<Other("vps", p), Other("sps", p), Other("pps", p)>> ELSE <<>>)
    \o (IF p.slices = 1 THEN <<Slice(p, TRUE, TRUE)>>
        ELSE <<Slice(p, TRUE, FALSE), Slice(p, FALSE, TRUE)>>)
    \o (IF p.eos THEN <<Other("eos", p)>> ELSE <<>>)

SliceAt(unit) == {j \in DOMAIN unit : unit[j].kind = "slice"}
Picture(unit) == unit[1].p

\* The pictures of groups, the n-th group's places of display after those of
\* the groups before it, all of a group with one sequence parameter set.
CodedGroup(group, n) ==
    [k \in DOMAIN group |-> Unit([group[k] EXCEPT !.ord = @ + 100 * n,
                                                 !.sps = group[1].sps])]

Coded(groups) ==
    FoldLeft(LAMBDA s, n : s \o CodedGroup(groups[n], n), <<>>,
             [n \in DOMAIN groups |-> n])

SetKinds == {"vps", "sps", "pps"}

\* What a fault of each kind makes of s at element k: the picture is lost, or
\* a burst of pictures, its last slice, its first (the rest then follows the
\* picture before, the stream buffer manager starts a picture at a first
\* slice), its header is garbled, or says that it has more references than
\* there can be, the video engine finds an error in it, or one of the parameter
\* sets before it is lost.
Hit(s, kind, k) ==
    LET first == Min(SliceAt(s[k]))
        last == Max(SliceAt(s[k]))
        rest == SubSeq(s[k], first + 1, Len(s[k]))
    IN  CASE kind = "picture" -> RemoveAt(s, k)
          [] kind = "burst"   -> SubSeq(s, 1, k - 1) \o SubSeq(s, k + 3, Len(s))
          [] kind = "tail"    -> [s EXCEPT ![k] = RemoveAt(@, last)]
          [] kind = "head"    -> RemoveAt([s EXCEPT ![k - 1] = @ \o rest], k)
          [] kind = "garbled" -> [s EXCEPT ![k][first].garbled = TRUE]
          [] kind = "refs"    ->
                [s EXCEPT ![k][first].p.lists[1].n = HEVC_MAX_REFS + 1]
          [] kind = "error"   -> [s EXCEPT ![k][last].error = TRUE]
          [] kind \in SetKinds ->
                [s EXCEPT ![k] = RemoveAt(@, CHOOSE j \in DOMAIN @ :
                                                @[j].kind = kind)]

CanHit(s, kind, k) ==
    CASE kind = "burst" -> k + 3 <= Len(s)
      [] kind = "tail" -> Cardinality(SliceAt(s[k])) > 1
      [] kind \in SetKinds -> HEVC_IS_KEYFRAME(Picture(s[k]).type)
      [] kind = "head" -> Cardinality(SliceAt(s[k])) > 1 /\ k > 1
      [] kind = "refs" -> Picture(s[k]).slice # "I"
      [] OTHER -> TRUE

----------------------------------------------------------------------------
(* The decoder context. *)

NoHeader == [first |-> FALSE, type |-> "I",
             short |-> [null |-> TRUE, list |-> <<>>], long |-> <<>>]

NewContext ==
    [eDecodStep |-> "REQUEST_STREAM", bFindKeyFrameOnly |-> TRUE,
     VpsList |-> 0, SpsList |-> 0, PpsList |-> 0, pPps |-> 0, pSps |-> 0,
     eNaluType |-> "", eFirstNaluType |-> "",
     nPoc |-> 0, nPocTid0 |-> 0, nMaxRa |-> HEVC_INT_MAX,
     SliceHeader |-> NoHeader, nSqueueFramePocList |-> {},
     bErrorFrameFlag |-> FALSE, ctuShort |-> FALSE,
     bDropFrameAdaptiveEnable |-> FALSE, nLastPts |-> -1]

\* HevcResetDecoder: much of the context stays as it is...
ResetContext(c) ==
    [c EXCEPT !.eDecodStep = "REQUEST_STREAM", !.bFindKeyFrameOnly = TRUE,
              !.nSqueueFramePocList = {}, !.SliceHeader.short.null = TRUE,
              !.nLastPts = -1]

\* Mutant: the time stamps of the pictures given up stay.
ResetKeepsPts(d) == [HevcResetClearRefs(d) EXCEPT !.Rps = NoRps]

\* ... and all pictures are given up.
ResetPictures(d) ==
    [HevcResetClearRefs(d) EXCEPT !.PtsList = {}, !.Rps = NoRps]

----------------------------------------------------------------------------
(* One NAL unit, DecoderDecodeOneNalu.  a is the state of the call: context  *)
(* c, pictures d, result, and listed.                                        *)

HevcDecoderDeleteOnePtsFromList(d, nPts) == [d EXCEPT !.PtsList = @ \ {nPts}]

\* The time stamp taken out is that of the access unit requested last.
Dropped(a) == [a EXCEPT !.result = "DROP_THE_FRAME",
                        !.d = HevcDecoderDeleteOnePtsFromList(@, a.c.nLastPts)]

\* A parameter set replaces the one before; without the set it refers to it is
\* not decoded.  A picture parameter set has tables made for the size of the
\* sequence parameter set: it is known by that.
HevcDecodeNalVps(a, n) == [a EXCEPT !.c.VpsList = n.p.sps]

HevcDecodeNalSps(a, n) ==
    IF a.c.VpsList = 0 THEN a ELSE [a EXCEPT !.c.SpsList = n.p.sps]

HevcDecodeNalPps(a, n) ==
    IF a.c.SpsList = 0 THEN a ELSE [a EXCEPT !.c.PpsList = a.c.SpsList]

\* The next picture decoded starts another sequence.
NextSequence(d) == [d EXCEPT !.nSeqDecode = (@ + 1) % SeqModulus]

EndOfSequence(a) ==
    [a EXCEPT !.d = NextSequence(@), !.c.nMaxRa = HEVC_INT_MAX]

\* The size, and number of pictures, of a sequence parameter set.
Size(sps) == sps % 10

\* HevcDecodeSliceHeader up to slice_pic_parameter_set_id: an IDR or a BLA
\* starts another sequence, an IDR has no references.
HeaderStart(a, n) ==
    LET starts == n.first /\ (HEVC_IS_IDR(n.p.type) \/ HEVC_IS_BLA(n.p.type))
        d == IF starts THEN NextSequence(a.d) ELSE a.d
    IN  [a EXCEPT !.c.SliceHeader.first = n.first,
                  !.c.eNaluType = n.p.type,
                  !.c.nSqueueFramePocList =
                      IF HEVC_IS_IDR(n.p.type) THEN {} ELSE @,
                  !.c.nMaxRa = IF starts THEN HEVC_INT_MAX ELSE @,
                  !.d = IF starts /\ HEVC_IS_IDR(n.p.type)
                        THEN HevcClearRefs(d) ELSE d]

\* ... the parameter sets it refers to: the first ones, or others than those
\* in use, which have been replaced when the caller hears of another size...
HeaderSets(a) ==
    LET sps == a.c.SpsList
        used == [a EXCEPT !.c.pSps = sps, !.c.pPps = a.c.PpsList]
    IN  CASE a.c.pSps = 0 ->
                [used EXCEPT !.c.nMaxRa = HEVC_INT_MAX,
                             !.d = NextSequence(HevcClearRefs(@))]
          [] a.c.pSps # 0 /\ Size(a.c.pSps) # Size(sps) ->
                [used EXCEPT !.result = "PICTURES_SIZE_CHANGE"]
          [] OTHER -> used

\* ... and the rest: order count and reference picture set.
HeaderRest(a, n) ==
    LET p == n.p
        idr == HEVC_IS_IDR(p.type)
        poc == CASE idr -> 0
                 [] ~idr /\ n.first ->
                       HevcComputePoc(a.c.nPocTid0, p.lsb, p.type)
                 [] OTHER -> a.c.nPoc
    IN  [a EXCEPT !.c.nPoc = poc,
                  !.c.nPocTid0 = IF p.tid = 0 /\ p.type \notin NotTid0
                                 THEN poc ELSE @,
                  !.c.SliceHeader =
                     [first |-> n.first, type |-> p.slice,
                      short |-> [null |-> idr,
                                 list |-> IF idr THEN <<>>
                                          ELSE ShortTermRefSet(p.short)],
                      long |-> IF idr THEN <<>>
                               ELSE LongTermRefSet(p.long, poc, p.lsb)]]

HevcDecodeSliceHeader(a, n) ==
    LET b == HeaderStart(a, n)
        c == HeaderSets(b)
    IN  CASE n.garbled -> [b EXCEPT !.c.bErrorFrameFlag = TRUE]
          [] ~n.garbled /\ c.result = "OK" -> HeaderRest(c, n)
          [] OTHER -> c

\* nMaxRa: leading pictures up to this order count refer to pictures from
\* before the point of random access.
RandomAccess(a) ==
    LET c == a.c
        ra == CASE c.nMaxRa # HEVC_INT_MAX -> c.nMaxRa
                [] c.nMaxRa = HEVC_INT_MAX /\ HEVC_IS_IDR(c.eNaluType) ->
                      HEVC_INT_MINI
                [] c.nMaxRa = HEVC_INT_MAX /\ HEVC_IS_KEYFRAME(c.eNaluType)
                      /\ ~HEVC_IS_IDR(c.eNaluType) -> c.nPoc
                [] OTHER -> c.nMaxRa
    IN  [a EXCEPT !.c.nMaxRa = IF c.eNaluType = "RASL_R" /\ c.nPoc > ra
                               THEN HEVC_INT_MINI ELSE ra]

\* RASL pictures that are not decoded.
Undecodable(c) == c.eNaluType \in Rasl /\ c.nPoc <= c.nMaxRa

\* The picture gets its slot when r is what the references gave.
StartPicture(c, r, p) ==
    LET drop == c.bDropFrameAdaptiveEnable /\ c.eNaluType \in Droppable
    IN  CASE r.result # "OK" -> r
          [] r.result = "OK" /\ c.pSps = 0 ->
                [r EXCEPT !.result = "INIT_FBM_FAILED"]
          [] OTHER -> HevcSetNewRef(r.d, c.nPoc, p.output, drop, p.ord)

\* The state of the call after it.
Started(a, c, s) ==
    LET b == [a EXCEPT !.c = c, !.d = s.d, !.result = s.result]
    IN  IF s.result = "DROP_THE_FRAME" THEN Dropped(b) ELSE b

\* HevcFrameStart: the order count must be a new one in the sequence.
HevcFrameStart(a, p) ==
    LET twice == a.c.nPoc \in a.c.nSqueueFramePocList
        c == [a.c EXCEPT !.eFirstNaluType = a.c.eNaluType,
                         !.nSqueueFramePocList =
                            IF twice /\ HEVC_IS_KEYFRAME(a.c.eNaluType)
                            THEN {} ELSE @]
    IN  Started(a, c,
            StartPicture(c,
                HevcConstuctFrameRps(
                    IF twice THEN FlushOneAndClear(a.d) ELSE a.d, c.nPoc,
                    c.SliceHeader.short, c.SliceHeader.long,
                    c.eNaluType \in Rasl),
                p))

\* What the video engine is given to refer to, and what the encoder referred
\* to: places in display order.
Listed(c, d, p) ==
    LET refs == HevcSliceRps(d, p.lists)
    IN  [got  |-> [l \in DOMAIN refs |-> [k \in DOMAIN refs[l] |->
                     d.DPB[refs[l][k]].ord]],
         want |-> [l \in DOMAIN p.want |-> [k \in DOMAIN p.want[l] |->
                     p.want[l][k] + 100 * (p.ord \div 100)]],
         sets |-> <<c.pSps, c.pPps, p.sps>>,
         missing |-> \E l \in DOMAIN refs : \E k \in DOMAIN refs[l] :
                        \/ d.DPB[refs[l][k]].pFbmBuffer = 0
                        \/ refs[l][k] = d.pCurrDPB]

\* HevcVeStatusInfo: the number of units decoded so far, which an error leaves
\* short of the picture.
HevcVeStatusInfo(c, n) == [c EXCEPT !.ctuShort = ~n.last \/ n.error]

\* A reference has an error, which the picture takes over.
RefersToError(d, p) ==
    LET refs == HevcSliceRps(d, p.lists)
    IN  \E l \in DOMAIN refs : \E k \in DOMAIN refs[l] :
            d.DPB[refs[l][k]].bErrorFrameFlag

\* The slice is decoded; lists without a reference are an error.  A picture
\* that is dropped stays, and so does its time stamp.
DecodeSlice(a, n) ==
    LET inter == a.c.SliceHeader.type # "I" /\ ~n.garbled
        fails == inter /\ SliceRpsFails(a.d, n.p.lists)
        drop == \/ a.d.DPB[a.d.pCurrDPB].bDropFlag
                \/ inter /\ TooManyRefs(a.d, n.p.lists)
        c == HevcVeStatusInfo(a.c, n)
    IN  CASE drop ->
                [a EXCEPT !.result = "DROP_THE_FRAME",
                          !.c.bErrorFrameFlag = @ \/ fails,
                          !.d.DPB[a.d.pCurrDPB].bDropFlag = TRUE]
          [] OTHER ->
                [a EXCEPT !.c = [c EXCEPT !.bErrorFrameFlag = @ \/ fails],
                          !.d.DPB[a.d.pCurrDPB].bErrorFrameFlag =
                              @ \/ (inter /\ ~fails /\ RefersToError(a.d, n.p)),
                          !.listed = IF inter /\ ~fails
                                     THEN Listed(a.c, a.d, n.p) ELSE @]

\* The slice is decoded in the picture of b, if there is one of its type.
InPicture(b, n) ==
    IF b.result # "OK" \/ b.d.pCurrDPB = 0
       \/ b.c.eNaluType # b.c.eFirstNaluType
    THEN b ELSE DecodeSlice(b, n)

\* A slice whose header has been read: the first one starts the picture.  One
\* without it, or of another type, is an error and passed over.
SliceRead(a, n) ==
    IF Undecodable(a.c) THEN Dropped(a)
    ELSE InPicture(IF n.first THEN HevcFrameStart(a, n.p) ELSE a, n)

\* The slice after its header.
HeaderRead(b, n) ==
    IF b.result = "OK" THEN SliceRead(RandomAccess(b), n) ELSE b

DecodeSliceNalu(a, n) ==
    IF a.c.SpsList = 0 \/ a.c.PpsList = 0
    THEN Dropped([a EXCEPT !.c.nSqueueFramePocList =
                     IF HEVC_IS_IDR(n.p.type) THEN {} ELSE @])
    ELSE HeaderRead(HevcDecodeSliceHeader(a, n), n)

\* A slice that is not of a key frame is skipped, with the time stamp of the
\* access unit it came in; skip is bSkipNonKeyFrame.
Skipped(n, skip) == /\ skip /\ n.kind = "slice"
                    /\ n.p.type \notin FoundKeyFrame

DecoderDecodeOneNalu(a, n, skip) ==
    LET b == [a EXCEPT !.c.bFindKeyFrameOnly =
                 @ /\ ~(n.kind = "slice" /\ n.p.type \in FoundKeyFrame)]
    IN  CASE a.result # "OK" -> a
          [] a.result = "OK" /\ Skipped(n, skip) ->
                [a EXCEPT !.d = HevcDecoderDeleteOnePtsFromList(
                                    @, a.c.nLastPts)]
          [] a.result = "OK" /\ ~Skipped(n, skip) /\ n.kind = "slice" ->
                DecodeSliceNalu(b, n)
          [] a.result = "OK" /\ n.kind = "vps" -> HevcDecodeNalVps(a, n)
          [] a.result = "OK" /\ n.kind = "sps" -> HevcDecodeNalSps(a, n)
          [] a.result = "OK" /\ n.kind = "pps" -> HevcDecodeNalPps(a, n)
          [] a.result = "OK" /\ n.kind = "eos" -> EndOfSequence(a)

----------------------------------------------------------------------------
(* One access unit, HevcDecDecodeOneFrame. *)

\* All of its NAL units have been decoded: the picture, if there is one.
PictureDone(a) ==
    LET error == a.c.bErrorFrameFlag \/ (a.c.pSps # 0 /\ a.c.ctuShort)
        i == a.d.pCurrDPB
    IN  IF i = 0 \/ a.result # "OK" THEN a
        ELSE [a EXCEPT
                !.d.DPB[i].bErrorFrameFlag = @ \/ error,
                !.c.nSqueueFramePocList = @ \cup {a.d.DPB[i].nPoc}]

HevcDecDecodeOneFrame(c, d, unit) ==
    LET skip == keyOnly \/ c.bFindKeyFrameOnly
    IN  PictureDone(
            FoldLeft(LAMBDA a, n : DecoderDecodeOneNalu(a, n, skip),
                     [c |-> [c EXCEPT !.bErrorFrameFlag = FALSE],
                      d |-> [d EXCEPT !.pCurrDPB = 0],
                      result |-> "OK", listed |-> listed],
                     unit))

\* HevcDecoderAddPtsToList, of context s.c and pictures s.d.  No two access
\* units have the same time stamp: it is taken as it is.
HevcDecoderAddPtsToList(s, nPts) ==
    [s EXCEPT !.c.nLastPts = nPts,
              !.d.PtsList = IF Cardinality(@) < PtsListSize THEN @ \cup {nPts}
                            ELSE @]

----------------------------------------------------------------------------
(* The calls of H265DecoderDecode.  A call first outputs a picture that is   *)
(* due and does nothing else.                                                *)

OutputPicture ==
    /\ OutputDue(dpb, FALSE) /\ h.eDecodStep \notin {"REOPEN", "CRASH"}
    /\ dpb' = HevcOutputFrame(dpb, FALSE)
    /\ UNCHANGED <<streamVars, h, faultVars, listed>>

\* The pictures when the call goes on.
d0 == HevcOutputFrame(dpb, FALSE)

\* There is no more data: all pictures are output.
EndOfStream ==
    /\ ~OutputDue(dpb, FALSE)
    /\ h.eDecodStep = "REQUEST_STREAM" /\ next > Len(stream)
    /\ dpb' = HevcDecOutputAllPictures(d0)
    /\ UNCHANGED <<streamVars, h, faultVars, listed>>

\* The access unit of the call: a new one, or the one kept for want of a
\* buffer.
Requested == IF pCurStreamFrame = 0 THEN next ELSE pCurStreamFrame

\* The state of the call when the access unit has been decoded.
Attempt ==
    LET unit == stream[Requested]
        s == [c |-> [h EXCEPT !.eDecodStep = "DECODE_FRAME"], d |-> d0]
        t == IF pCurStreamFrame = 0
             THEN HevcDecoderAddPtsToList(s, Picture(unit).ord) ELSE s
    IN  HevcDecDecodeOneFrame(t.c, t.d, unit)

CanDecode ==
    /\ ~OutputDue(dpb, FALSE)
    /\ \/ h.eDecodStep = "REQUEST_STREAM" /\ next <= Len(stream)
       \/ h.eDecodStep = "DECODE_FRAME"

\* HevcDecReturnAllSbmStreams.
Flush == pCurStreamFrame' = 0 /\ next' = Requested + 1 /\ UNCHANGED stream

\* PICTURES_SIZE_CHANGE: the access unit goes back and the pictures are
\* output, the caller makes another decoder.
SizeChange(a) ==
    /\ a.result = "PICTURES_SIZE_CHANGE"
    /\ h' = [a.c EXCEPT !.eDecodStep = "REOPEN"]
    /\ dpb' = HevcDecOutputAllPictures(a.d)
    /\ pCurStreamFrame' = 0 /\ next' = Requested /\ UNCHANGED stream
    /\ UNCHANGED faultVars

\* RESET_INTRA_DECODER: a reference has an error.
ResetIntra(a) ==
    /\ a.result = "RESET_INTRA_DECODER"
    /\ h' = ResetContext(a.c)
    /\ dpb' = ResetPictures(a.d)
    /\ Flush /\ UNCHANGED faultVars

\* INIT_FBM_FAILED: H265_STEP_CRASH, until the player seeks.
Crash(a) ==
    /\ a.result = "INIT_FBM_FAILED"
    /\ h' = [a.c EXCEPT !.eDecodStep = "CRASH"]
    /\ dpb' = a.d
    /\ Flush /\ UNCHANGED faultVars

DropTheFrame(a) ==
    /\ a.result = "DROP_THE_FRAME"
    /\ h' = [a.c EXCEPT !.eDecodStep = "REQUEST_STREAM"]
    /\ dpb' = a.d
    /\ Flush /\ UNCHANGED faultVars

\* NO_FRAME_BUFFER: the next call decodes the same access unit again.
NoFrameBuffer(a) ==
    /\ a.result = "NO_FRAME_BUFFER"
    /\ h' = a.c
    /\ dpb' = a.d
    /\ pCurStreamFrame' = Requested /\ next' = Requested + 1
    /\ UNCHANGED <<stream, faultVars>>

\* PROCESS_RESULT: whether the pictures come too late is measured.
ProcessResult(a) ==
    /\ a.result = "OK"
    /\ dpb' = HevcOutputFrame(a.d, FALSE)
    /\ Flush
    /\ \E isLate \in BOOLEAN :
          /\ isLate => fault = "late" /\ late < MaxLate
          /\ late' = IF isLate THEN late + 1 ELSE late
          /\ h' = [a.c EXCEPT !.eDecodStep = "REQUEST_STREAM",
                              !.bDropFrameAdaptiveEnable = isLate]
    /\ UNCHANGED <<fault, keyOnly, resets, from>>

DecodeFrame ==
    /\ CanDecode
    /\ \E a \in {Attempt} :
          /\ listed' = a.listed
          /\ \/ SizeChange(a) \/ ResetIntra(a) \/ DropTheFrame(a)
             \/ NoFrameBuffer(a) \/ Crash(a) \/ ProcessResult(a)

----------------------------------------------------------------------------
(* The callers. *)

\* VDECODE_RESULT_RESOLUTION_CHANGE: another decoder and other buffers once
\* the player has returned these.
Reopen ==
    /\ h.eDecodStep = "REOPEN" /\ dpb.display = <<>>
    /\ h' = NewContext
    /\ dpb' = [EmptyDpb EXCEPT !.shown = dpb.shown]
    /\ UNCHANGED <<streamVars, faultVars, listed>>

\* H265DecoderReset, between two calls: a seek.  The stream buffer manager
\* has been emptied, data follows from anywhere.
Reset ==
    /\ fault = "none" /\ resets < MaxResets
    /\ h.eDecodStep # "REOPEN"
    /\ \E k \in DOMAIN stream : next' = k /\ from' = k
    /\ h' = ResetContext(h)
    /\ dpb' = [ResetPictures(dpb) EXCEPT !.shown = <<>>]
    /\ pCurStreamFrame' = 0
    /\ resets' = resets + 1
    /\ UNCHANGED <<stream, fault, keyOnly, late, listed>>

\* The player returns the picture it has shown longest.
ReturnPicture ==
    /\ dpb.display # <<>>
    /\ dpb' = [dpb EXCEPT !.display = Tail(@)]
    /\ UNCHANGED <<streamVars, h, faultVars, listed>>

----------------------------------------------------------------------------

Init ==
    /\ \E s \in {Coded(groups) : groups \in Streams} :
          \/ fault \in {"none"} \cup (Faults \cap {"late"}) /\ stream = s
          \/ \E kind \in Faults \ {"late"}, k \in DOMAIN s :
                /\ CanHit(s, kind, k)
                /\ fault = kind /\ stream = Hit(s, kind, k)
    /\ next = 1 /\ pCurStreamFrame = 0
    /\ h = NewContext
    /\ dpb = EmptyDpb
    /\ keyOnly \in KeyOnlyModes
    /\ late = 0 /\ resets = 0 /\ from = 1
    /\ listed = [got |-> <<>>, want |-> <<>>, sets |-> <<0, 0, 0>>,
                 missing |-> FALSE]

Next == OutputPicture \/ EndOfStream \/ DecodeFrame \/ Reopen \/ Reset
        \/ ReturnPicture

Spec == Init /\ [][Next]_vars
----------------------------------------------------------------------------
(* Properties. *)

\* The types of the variables.
TypeOK ==
    /\ next \in Nat \ {0} /\ pCurStreamFrame \in 0..Len(stream)
    /\ h.eDecodStep \in {"REQUEST_STREAM", "DECODE_FRAME", "REOPEN", "CRASH"}
    /\ h.eDecodStep = "DECODE_FRAME" <=> pCurStreamFrame # 0
    /\ {h.VpsList, h.SpsList, h.PpsList, h.pSps, h.pPps} \subseteq Nat
    /\ h.nMaxRa \in Int /\ h.nPoc \in Int /\ h.nPocTid0 \in Int
    /\ {h.bFindKeyFrameOnly, h.bErrorFrameFlag, h.ctuShort,
        h.bDropFrameAdaptiveEnable} \subseteq BOOLEAN
    /\ dpb.held \subseteq Buffers /\ Range(dpb.display) \subseteq Buffers
    /\ dpb.pCurrDPB \in {0} \cup Slots
    /\ {dpb.nSeqDecode, dpb.nSeqOutput} \subseteq 0..SeqModulus - 1
    /\ \A list \in DOMAIN dpb.Rps : Range(dpb.Rps[list]) \subseteq Slots
    /\ \A i \in Slots : /\ dpb.DPB[i].pFbmBuffer \in {0} \cup Buffers
                        /\ dpb.DPB[i].ref \in {"", "short", "long"}

\* Every picture arrives whole; those that are late may be dropped.
Intact == fault \in {"none", "late"}

\* The video engine refers to the pictures the encoder referred to, in the
\* encoder's order: the sets of the slice header, the order counts and the
\* lists built from them name the right pictures over key pictures, ends of
\* sequences, seeks and dropped pictures (h265_parser.c:433, 568, 1968,
\* h265_ref.c:876, 936).
RefsAsCoded == Intact => listed.got = listed.want

\* A slice is decoded with the parameter sets it was coded with, the picture
\* parameter set with tables of that size, also when a key picture brings
\* others (h265_parser.c:1291, 1631, 2242).
SetsAsCoded == Intact => Cardinality(Range(listed.sets)) = 1

\* A picture in the reference lists of a slice is one HevcAddCandidateRef has
\* marked as used: it has not lost its buffer and is not the one the slice
\* belongs to (h265_ref.c:167).  This fails when a key picture is lost.
RefsHeld == ~listed.missing

\* The key picture every group starts with is there.
KeysThere ==
    \A k \in DOMAIN stream : \E j \in 1..k :
        /\ HEVC_IS_KEYFRAME(Picture(stream[j]).type)
        /\ Picture(stream[j]).ord \div 100 = Picture(stream[k]).ord \div 100

\* Pictures are displayed in the encoder's order, whatever is lost but key
\* pictures.  The very first of playback is displayed at once, before those
\* that lead it (h265_ref.c:1074).
DisplayOrder ==
    KeysThere => \A k \in 2..Len(dpb.shown) - 1 :
                     dpb.shown[k].ord < dpb.shown[k + 1].ord

\* No picture is displayed twice, also when its access unit is decoded again
\* for want of a buffer (h265_drv.c:549).
ShownOnce == \A j, k \in DOMAIN dpb.shown :
    j # k => dpb.shown[j].ord # dpb.shown[k].ord

\* A picture that still waits in the DPB keeps its time stamp in the list
\* (h265.c:2715).  This fails when the slices of a picture that lost its first
\* one come with a key picture, and are skipped (h265.c:2856).
StampsKept ==
    \A i \in Slots : dpb.DPB[i].output => dpb.DPB[i].ord \in dpb.PtsList

\* A picture is displayed with its own time stamp, although it takes the
\* lowest of the list: every picture that is not displayed must have taken
\* its own out, and no other (h265.c:930, h265_ref.c:1090).  Where StampsKept
\* fails, playback has found its first key picture in the access unit that
\* brings the other slices: that picture is displayed without a time stamp.
\* Where only key pictures are played the stamps go on to other pictures.
PtsMatches ==
    LET own(k) == dpb.shown[k].nPts = dpb.shown[k].ord
    IN  /\ Intact \/ fault \in {"tail", "refs", "error"} =>
               StampsKept /\ \A k \in DOMAIN dpb.shown : own(k)
        /\ fault = "head" /\ ~keyOnly =>
               \A k \in DOMAIN dpb.shown :
                   own(k) \/ (k = 1 /\ dpb.shown[k].nPts = 0)

\* Every buffer the decoder holds belongs to one picture: none is leaked when
\* pictures are dropped, given up or decoded again (h265_ref.c:92, 615).
BuffersOwned ==
    LET used == {i \in Slots : dpb.DPB[i].pFbmBuffer # 0}
    IN  /\ dpb.held = {dpb.DPB[i].pFbmBuffer : i \in used}
        /\ Cardinality(dpb.held) = Cardinality(used)

\* A decoder that waits for a buffer gets one once the player has returned
\* what it displays: it does not hold all of them (h265_ref.c:353).
NeverStarved ==
    h.eDecodStep = "DECODE_FRAME" /\ ~OutputDue(dpb, FALSE)
    /\ dpb.display = <<>> => Attempt.result # "NO_FRAME_BUFFER"

\* All has been decoded and displayed.
Finished == /\ next > Len(stream) /\ h.eDecodStep = "REQUEST_STREAM"
            /\ \A i \in Slots : ~dpb.DPB[i].output

\* The first key picture playback finds.
Start == LET keys == {k \in from..Len(stream) :
                        Picture(stream[k]).type \in FoundKeyFrame}
         IN  IF keys = {} THEN Len(stream) + 1 ELSE Min(keys)

\* The key picture that the k-th access unit follows.
KeyOf(k) == Max({j \in 1..k : HEVC_IS_KEYFRAME(Picture(stream[j]).type)})

\* What the k-th access unit refers to is not there.
Leads(k) ==
    /\ Picture(stream[k]).type \in Rasl
    /\ \/ KeyOf(k) <= Start \/ HEVC_IS_BLA(Picture(stream[KeyOf(k)]).type)
       \/ KeyOf(k) > 1 /\ Picture(stream[KeyOf(k) - 1]).eos

\* The access units that must be displayed.
Due == {k \in Start..Len(stream) : LET p == Picture(stream[k]) IN
          /\ p.output /\ ~Leads(k)
          /\ fault = "late" => p.type \notin Droppable
          /\ keyOnly => p.type \in FoundKeyFrame}

\* From the first key picture on, all pictures are displayed but for those
\* nothing was left to refer to, and those dropped because they are late, in
\* key frame mode also over seeks and a change of resolution (h265.c:2842,
\* h265_drv.c:491).
AllShown ==
    Intact /\ Finished =>
        {Picture(stream[k]).ord : k \in Due}
            \subseteq {dpb.shown[k].ord : k \in DOMAIN dpb.shown}

\* Pictures with an error, those that refer to one that is not there, and
\* those that refer to one of these.
Tainted ==
    LET refs(p) == {r + 100 * (p.ord \div 100) :
                      r \in UNION {Range(p.want[l]) : l \in DOMAIN p.want}}
        all == {Picture(stream[k]).ord : k \in DOMAIN stream}
        damaged(u) == ~\E j \in SliceAt(u) : u[j].last /\ ~u[j].error
    IN  FoldLeft(LAMBDA t, u : LET p == Picture(u) IN
                    IF damaged(u) \/ ~(refs(p) \subseteq all \ t)
                    THEN t \cup {p.ord} ELSE t,
                 {}, stream)

\* Unless asked to, the decoder does not display a picture with an error.
FramesRight ==
    ~bDispErrorFrame =>
        \A k \in DOMAIN dpb.shown : dpb.shown[k].ord \notin Tainted

\* When the video engine finds an error, or slices are missing, that picture
\* and those that refer to it, directly or not, stay off the display
\* (h265_ref.c:197, 1115).
ErrorHidden == fault \in {"tail", "error"} => FramesRight

\* The video engine is given what the encoder coded a slice with: its
\* references and its parameter sets.
SlicesAsCoded == RefsAsCoded /\ SetsAsCoded

\* The decoder's buffers, whatever is lost, damaged or decoded again: none is
\* shared, leaked or waited for in vain.
BuffersKept == TypeOK /\ BuffersOwned /\ NeverStarved

\* What the player is given (HevcOutputOneFrame): every picture once, in order,
\* with its own time stamp, and none with an error.
ShownAsCoded ==
    DisplayOrder /\ ShownOnce /\ PtsMatches /\ AllShown /\ ErrorHidden

============================================================================
