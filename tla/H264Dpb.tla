------------------------------ MODULE H264Dpb ------------------------------
(***************************************************************************)
(* The decoded pictures of the H.264 decoder (H264FrmBufInfo) and what is  *)
(* done to them: marking as reference (h264_mmco.c), choice of the picture *)
(* to display (H264SortDisplayFrameOrder) and flushing.  Every operator    *)
(* takes the pictures d and gives the pictures after the function returns. *)
(*                                                                         *)
(* The frame buffer manager is what the decoder sees of it: the buffers it *)
(* has been given and the queue of those handed to the display.  A slot is *)
(* an element of picture[]; 0 is a NULL pointer or a slot without buffer.  *)
(***************************************************************************)
EXTENDS Integers, FiniteSets, SequencesExt

CONSTANTS
    nMaxValidFrmBufNum, \* slots, and frame buffers
    nRefFrmCount,       \* reference frames the stream uses
    nLongSlots,         \* entries of pLongRef a stream addresses
    bDispErrorFrame     \* vconfig.bDispErrorFrame = 1

ASSUME CountsAssumption ==
    /\ nRefFrmCount \in Nat \ {0}
    /\ nMaxValidFrmBufNum \in Nat /\ nMaxValidFrmBufNum > nRefFrmCount
    /\ nLongSlots \in Nat
    /\ bDispErrorFrame \in BOOLEAN

Slots == 1..nMaxValidFrmBufNum
Buffers == 1..nMaxValidFrmBufNum
LongIndexes == 0..nLongSlots - 1

PICT_TOP_FIELD == 1
PICT_BOTTOM_FIELD == 2
PICT_FRAME == 3
DELAYED_PIC_REF == 4

MaxPoc == 2147483647

\* picture[] as memset leaves it.  ord is the picture's place in the order
\* the encoder means them to be displayed in; the code does not have it.
NoPicture ==
    [pVPicture |-> 0, nReference |-> 0, bHasDispedFlag |-> FALSE,
     nPoc |-> 0, nFieldPoc |-> <<0, 0>>, nFrmNum |-> 0, nNalRefIdc |-> FALSE,
     nPictType |-> "I", bKeyFrame |-> FALSE, bDecErrorFlag |-> FALSE,
     bDropBFrame |-> FALSE, ord |-> 0]

EmptyDpb ==
    [picture |-> [i \in Slots |-> NoPicture],
     pShortRef |-> <<>>, pLongRef |-> [i \in LongIndexes |-> 0],
     nLongRefCount |-> 0, pDelayedPic |-> <<>>, pDelayedOutPutPic |-> 0,
     pCurPicturePtr |-> 0, nMinDispPoc |-> 0,
     held |-> {}, display |-> <<>>, shown |-> <<>>]

\* r & mask, for a reference marking and a mask of fields.
And(r, mask) ==
    CASE mask = 0 -> 0
      [] mask = PICT_TOP_FIELD -> r % 2
      [] mask = PICT_BOTTOM_FIELD -> 2 * ((r \div 2) % 2)
      [] OTHER -> r % 4

\* r | mask.
Or(r, mask) ==
    LET top == r % 2 = 1 \/ mask % 2 = 1
        bottom == (r \div 2) % 2 = 1 \/ (mask \div 2) % 2 = 1
    IN  (IF top THEN 1 ELSE 0) + (IF bottom THEN 2 ELSE 0) + 4 * (r \div 4)

\* picture[i].nReference is 0 or 4: decoding does not need it.
Unneeded(d, i) == d.picture[i].nReference \in {0, DELAYED_PIC_REF}

----------------------------------------------------------------------------
(* The frame buffer manager. *)

\* FbmEmptyBufferNum counts these.
EmptyBuffers(d) == Buffers \ (d.held \cup Range(d.display))

ToDisplay(d, i) ==
    [d EXCEPT !.display = Append(@, d.picture[i].pVPicture),
              !.shown = Append(@, d.picture[i].ord)]

\* FbmReturnBuffer(pFbm, picture[i].pVPicture, bValid): a buffer the display
\* has stays there, one never shown goes to it if it is valid.
FbmReturnBuffer(d, i, bValid) ==
    LET b == d.picture[i].pVPicture
        e == [d EXCEPT !.held = @ \ {b}]
    IN  CASE b = 0 -> d
          [] b # 0 /\ bValid /\ b \notin Range(d.display) -> ToDisplay(e, i)
          [] OTHER -> e

\* FbmShareBuffer: the display gets it, the decoder keeps it.
FbmShareBuffer(d, i) ==
    IF d.picture[i].pVPicture \in {0} \cup Range(d.display)
    THEN d ELSE ToDisplay(d, i)

\* The buffer of a slot goes back and the slot is free.
Release(d, i, bValid) ==
    [FbmReturnBuffer(d, i, bValid) EXCEPT
        !.picture[i].pVPicture = 0, !.picture[i].nReference = 0,
        !.picture[i].bHasDispedFlag = FALSE]

----------------------------------------------------------------------------
(* h264_mmco.c: marking as reference. *)

\* Whether H264UnnReferencePic returns 1: no field is a reference any more.
Unreferenced(d, i, mask) == And(d.picture[i].nReference, mask) = 0

H264UnnReferencePic(d, i, mask) ==
    LET delayed == i = d.pDelayedOutPutPic \/ i \in Range(d.pDelayedPic)
        e == [d EXCEPT !.picture[i].nReference =
                 IF Unreferenced(d, i, mask) /\ delayed
                 THEN DELAYED_PIC_REF ELSE And(@, mask)]
    IN  IF /\ Unreferenced(d, i, mask)
           /\ d.picture[i].pVPicture # 0 /\ d.picture[i].bHasDispedFlag
        THEN Release(e, i, FALSE) ELSE e

\* H264RemoveLong_at_index.
RemoveLong(d, i) ==
    [d EXCEPT !.pLongRef[i] = 0, !.nLongRefCount = @ - 1]

\* H264RemoveLong, and H264UnnReferencePic of what it removed.
DropLong(d, i) ==
    IF d.pLongRef[i] = 0 THEN d
    ELSE H264UnnReferencePic(RemoveLong(d, i), d.pLongRef[i], 0)

H264FindShort(d, nFrmNum) ==
    SelectInSeq(d.pShortRef, LAMBDA i : d.picture[i].nFrmNum = nFrmNum)

\* H264RemoveShort_at_index.
RemoveShort(d, k) == [d EXCEPT !.pShortRef = RemoveAt(@, k)]

\* H264RemoveShort, and H264UnnReferencePic of what it removed.
DropShort(d, nFrmNum) ==
    LET k == H264FindShort(d, nFrmNum) IN
    IF k = 0 THEN d
    ELSE H264UnnReferencePic(RemoveShort(d, k), d.pShortRef[k], 0)

\* The first loop only looks at the first nLongRefCount entries of pLongRef.
H264ReferenceRefresh(d) ==
    LET long(e, i) ==
            IF e.pLongRef[i - 1] = 0 THEN e
            ELSE [H264UnnReferencePic(e, e.pLongRef[i - 1], 0)
                     EXCEPT !.pLongRef[i - 1] = 0]
        e == FoldLeft(long, d, [i \in 1..d.nLongRefCount |-> i])
        f == FoldLeft(LAMBDA x, i : H264UnnReferencePic(x, i, 0), e,
                      e.pShortRef)
    IN  [f EXCEPT !.nLongRefCount = 0, !.pShortRef = <<>>]

\* H264PicNumExtract: the frame number, or long index, picNum stands for...
PicNumFrame(picNum, structure) ==
    IF structure = PICT_FRAME THEN picNum ELSE picNum \div 2

\* ... and what is left of a reference when the field or frame is removed:
\* an even number is a field of the other parity than the current one.
PicNumMask(picNum, structure) ==
    CASE structure = PICT_FRAME -> 0
      [] structure # PICT_FRAME /\ picNum % 2 = 1 -> PICT_FRAME - structure
      [] OTHER -> structure

\* One memory management control operation of H264ExecuteRefPicMarking.
MmcoShortToUnused(d, op, structure) ==
    LET k == H264FindShort(d, PicNumFrame(op.picNum, structure))
        mask == PicNumMask(op.picNum, structure)
    IN  IF k = 0 THEN d
        ELSE LET e == H264UnnReferencePic(d, d.pShortRef[k], mask) IN
             IF Unreferenced(d, d.pShortRef[k], mask)
             THEN RemoveShort(e, k) ELSE e

MmcoShortToLong(d, op, structure) ==
    LET l == op.long
        nFrmNum == PicNumFrame(op.picNum, structure)
        moved == /\ d.pLongRef[l] # 0 /\ structure # PICT_FRAME
                 /\ l < d.nLongRefCount
                 /\ d.picture[d.pLongRef[l]].nFrmNum = op.picNum \div 2
        e == DropLong(d, l)
        k == H264FindShort(e, nFrmNum)
    IN  CASE moved -> d
          [] ~moved /\ k = 0 -> e
          [] OTHER -> [RemoveShort(e, k) EXCEPT
                          !.pLongRef[l] = e.pShortRef[k],
                          !.nLongRefCount = @ + 1]

MmcoLongToUnused(d, op, structure) ==
    LET l == PicNumFrame(op.long, structure)
        mask == PicNumMask(op.long, structure)
        e == H264UnnReferencePic(d, d.pLongRef[l], mask)
    IN  CASE d.pLongRef[l] = 0 -> d
          [] d.pLongRef[l] # 0 /\ Unreferenced(d, d.pLongRef[l], mask) ->
                RemoveLong(e, l)
          [] OTHER -> e

MmcoLong(d, op, structure, bFstField) ==
    LET l == op.long
        cur == d.pCurPicturePtr
        paired == /\ structure # PICT_FRAME /\ bFstField = 0
                  /\ d.pLongRef[l] = cur \/ d.picture[cur].nReference # 0
        e == IF paired THEN d
             ELSE LET x == DropLong(d, l) IN
                  [x EXCEPT !.pLongRef[l] = cur, !.nLongRefCount = @ + 1]
    IN  [e EXCEPT !.picture[cur].nReference = Or(@, structure)]

MmcoSetMaxLong(d, first) ==
    FoldLeft(DropLong, d,
             SelectSeq([i \in 1..nLongSlots |-> i - 1], LAMBDA l : l >= first))

MmcoReset(d) ==
    MmcoSetMaxLong(
        FoldLeft(LAMBDA e, i : DropShort(e, e.picture[e.pShortRef[1]].nFrmNum),
                 d, d.pShortRef), 0)

Mmco(d, op, structure, bFstField) ==
    CASE op.op = "SHORT_TO_UNUSED" -> MmcoShortToUnused(d, op, structure)
      [] op.op = "SHORT_TO_LONG"   -> MmcoShortToLong(d, op, structure)
      [] op.op = "LONG_TO_UNUSED"  -> MmcoLongToUnused(d, op, structure)
      [] op.op = "LONG"            -> MmcoLong(d, op, structure, bFstField)
      [] op.op = "SET_MAX_LONG"    -> MmcoSetMaxLong(d, op.long)
      [] op.op = "RESET"           -> MmcoReset(d)

\* Mutant: the current picture becomes the last short-term reference.
AddShortLast(d, structure) ==
    LET cur == d.pCurPicturePtr
        e == DropShort(d, d.picture[cur].nFrmNum)
    IN  [e EXCEPT !.pShortRef = Append(@, cur),
                  !.picture[cur].nReference = Or(@, structure)]

\* The current picture becomes the first short-term reference.
AddShort(d, structure) ==
    LET cur == d.pCurPicturePtr
        e == DropShort(d, d.picture[cur].nFrmNum)
    IN  [e EXCEPT !.pShortRef = <<cur>> \o @,
                  !.picture[cur].nReference = Or(@, structure)]

\* Too many references: the oldest short-term one goes, or the first
\* long-term one.
TrimReferences(d) ==
    LET n == Len(d.pShortRef)
        used == {l \in LongIndexes : d.pLongRef[l] # 0}
    IN  CASE d.nLongRefCount + n <= nRefFrmCount -> d
          [] d.nLongRefCount + n > nRefFrmCount /\ n = 0 ->
                DropLong(d, CHOOSE l \in used : \A m \in used : l <= m)
          [] OTHER -> H264UnnReferencePic(RemoveShort(d, n), d.pShortRef[n], 0)

H264ExecuteRefPicMarking(d, mmco, structure, bFstField) ==
    LET e == FoldLeft(LAMBDA x, op : Mmco(x, op, structure, bFstField),
                      d, mmco)
        cur == d.pCurPicturePtr
        long == \E k \in DOMAIN mmco : mmco[k].op = "LONG"
        second == /\ structure # PICT_FRAME /\ bFstField = 0
                  /\ e.picture[cur].nReference # 0
        f == CASE long -> e
               [] ~long /\ second ->
                    IF e.pShortRef # <<>> /\ e.pShortRef[1] = cur
                    THEN [e EXCEPT !.picture[cur].nReference = PICT_FRAME]
                    ELSE e
               [] OTHER -> AddShort(e, structure)
    IN  TrimReferences(f)

----------------------------------------------------------------------------
(* Display. *)

Displayable(d, i) == bDispErrorFrame \/ ~d.picture[i].bDecErrorFlag

\* The loop over pDelayedPic that looks for the lowest picture order count.
\* It stops for good (found) at the first picture of the next sequence, one
\* that is not above what was displayed last; lowest goes on.
Candidates(d) ==
    LET step(a, k) ==
            LET nPoc == d.picture[d.pDelayedPic[k]].nPoc IN
            CASE nPoc >= a.minPoc -> a
              [] /\ nPoc < a.minPoc
                 /\ a.found \/ (nPoc <= d.nMinDispPoc /\ k # 1) ->
                    [a EXCEPT !.minPoc = nPoc, !.lowest = k, !.found = TRUE]
              [] OTHER -> [a EXCEPT !.minPoc = nPoc, !.lowest = k, !.out = k]
    IN  FoldLeft(step,
                 [minPoc |-> MaxPoc, lowest |-> 0, out |-> 0, found |-> FALSE],
                 [k \in DOMAIN d.pDelayedPic |-> k])

\* The index in pDelayedPic of outPicInf.
OutPicture(d) ==
    LET a == Candidates(d) IN
    IF /\ d.pDelayedOutPutPic # 0
       /\ d.picture[d.pDelayedPic[a.out]].nPoc = 0 /\ a.minPoc < 0
    THEN a.lowest ELSE a.out

\* Mutant: the lowest of the delayed pictures never waits.
NeverWait(d, nPicPocDeltaNum, nCurFrmNum) == "show"

\* What keeps outPicInf back: "show" it, "wait" for a picture that comes
\* before it, or "gap", an order count that cannot follow the last one.
Verdict(d, nPicPocDeltaNum, nCurFrmNum) ==
    LET out == d.pDelayedPic[OutPicture(d)]
        gap == d.picture[out].nPoc - d.nMinDispPoc
        refs == {k \in DOMAIN d.pDelayedPic : ~Unneeded(d, d.pDelayedPic[k])}
        allRefs == refs = DOMAIN d.pDelayedPic
        apart == d.picture[out].nPoc # 0 /\ gap # nPicPocDeltaNum /\ allRefs
    IN  CASE d.pDelayedOutPutPic = 0 -> "show"
          [] d.pDelayedOutPutPic # 0 /\ apart /\ gap \notin 0..32 -> "gap"
          [] d.pDelayedOutPutPic # 0 /\ apart /\ gap \in 0..32
                /\ Cardinality(refs) <= nRefFrmCount -> "wait"
          [] d.pDelayedOutPutPic # 0
                /\ gap = nPicPocDeltaNum /\ nPicPocDeltaNum = 2
                /\ nCurFrmNum = 2 /\ nRefFrmCount > 1
                /\ ~d.picture[out].bDropBFrame -> "wait"
          [] OTHER -> "show"

\* outPicInf goes to the display; a reference is shared with it.
Output(d, k) ==
    LET out == d.pDelayedPic[k]
        e == CASE Unneeded(d, out) -> Release(d, out, Displayable(d, out))
               [] ~Unneeded(d, out) /\ Displayable(d, out) ->
                    [FbmShareBuffer(d, out)
                        EXCEPT !.picture[out].bHasDispedFlag = TRUE]
               [] OTHER -> [d EXCEPT !.picture[out].bHasDispedFlag = TRUE]
    IN  [e EXCEPT !.pDelayedPic = RemoveAt(@, k),
                  !.nMinDispPoc = d.picture[out].nPoc,
                  !.pDelayedOutPutPic = out,
                  !.picture[out].bDropBFrame = FALSE]

\* With key frames only a picture is shown as soon as it is decoded.
ShowKeyFrame(d) ==
    LET cur == d.pCurPicturePtr IN
    [FbmReturnBuffer(d, cur, TRUE) EXCEPT
        !.picture[cur].pVPicture = 0, !.picture[cur].nReference = 0]

H264SortDisplayFrameOrder(d, keyOnly, nPicPocDeltaNum, nCurFrmNum) ==
    LET e == [d EXCEPT !.pDelayedPic = Append(@, d.pCurPicturePtr),
                       !.pCurPicturePtr = 0]
        k == OutPicture(e)
        verdict == Verdict(e, nPicPocDeltaNum, nCurFrmNum)
    IN  CASE keyOnly -> ShowKeyFrame(d)
          [] ~keyOnly /\ verdict = "show" -> Output(e, k)
          [] ~keyOnly /\ verdict = "wait" -> e
          [] OTHER -> [e EXCEPT !.nMinDispPoc =
                          d.picture[e.pDelayedPic[k]].nPoc - nPicPocDeltaNum]

\* One turn of the loop of H264FlushDelayedPictures over q, pDelayedPic with
\* its NULL entries: the entries before the next key frame, or NULL, that
\* have lost their buffer become NULL, of the others the lowest is shown.
FlushOne(a, turn) ==
    LET q == a.q
        pic(j) == a.d.picture[q[j]]
        ends == {j \in 2..Len(q) : q[j] = 0 \/ pic(j).bKeyFrame}
        scanned == 2..(CHOOSE j \in ends : \A m \in ends : j <= m) - 1
        live == {1} \cup {j \in scanned : pic(j).pVPicture # 0}
        out == CHOOSE j \in live :
                  \A m \in live : \/ pic(j).nPoc < pic(m).nPoc
                                  \/ pic(j).nPoc = pic(m).nPoc /\ j <= m
        cleared == [j \in DOMAIN q |-> IF j \in scanned \ live
                                       THEN 0 ELSE q[j]]
        nulls == {j \in out..Len(q) : cleared[j] = 0}
        last == CHOOSE j \in nulls : \A m \in nulls : j <= m
        i == q[out]
    IN  IF q[1] = 0 THEN a
        ELSE [q |-> [j \in DOMAIN q |-> IF j \in out..last - 1
                                        THEN cleared[j + 1] ELSE cleared[j]],
              d |-> [FbmReturnBuffer(a.d, i, Displayable(a.d, i))
                        EXCEPT !.picture[i].pVPicture = 0]]

\* The rest of the pictures go back unshown.
H264FlushDelayedPictures(d) ==
    LET n == Len(d.pDelayedPic)
        a == FoldLeft(FlushOne, [q |-> d.pDelayedPic \o <<0>>, d |-> d],
                      [turn \in 1..n |-> turn])
        free(e, i) == [FbmReturnBuffer(e, i, FALSE) EXCEPT
                          !.picture[i].pVPicture = 0,
                          !.picture[i].nReference = 0]
    IN  FoldLeft(free, [a.d EXCEPT !.pDelayedPic = <<>>],
                 [i \in Slots |-> i])

\* The part of H264ResetDecoderParams about the pictures: buffers are not
\* returned, only forgotten.
ForgetPictures(d) ==
    LET lost == Range(d.pDelayedPic)
                \cup ({d.pDelayedOutPutPic, d.pCurPicturePtr} \ {0})
        e == [d EXCEPT !.picture = [i \in Slots |->
                 IF i \in lost THEN [@[i] EXCEPT !.nReference = 0,
                                                 !.pVPicture = 0]
                 ELSE @[i]]]
    IN  [H264ReferenceRefresh(e) EXCEPT
            !.nMinDispPoc = 0, !.pDelayedOutPutPic = 0, !.pCurPicturePtr = 0,
            !.pDelayedPic = <<>>]
============================================================================
