------------------------------ MODULE H265Dpb ------------------------------
(***************************************************************************)
(* The decoded picture buffer of the H.265 decoder (DPB of HevcContex) and *)
(* what h265_ref.c does to it: the reference picture set of a picture, the *)
(* slot and buffer of a new picture, the pictures that go to the display.  *)
(* Every operator takes the pictures d and gives the pictures after the    *)
(* function returns.                                                       *)
(*                                                                         *)
(* A slot is an element of DPB[]; 0 is a NULL pointer or a slot without    *)
(* buffer.  The frame buffer manager is what the decoder sees of it.       *)
(***************************************************************************)
EXTENDS Integers, FiniteSets, SequencesExt

CONSTANTS
    nFrameBuffers,     \* frame buffers, and slots the pictures can take
    nMaxNumReoderPics, \* sps_max_num_reorder_pics
    MaxPocLsb,         \* 1 << nLog2MaxPocLsb
    PtsListSize,       \* HEVC_PTS_LIST_SIZE
    SeqModulus,        \* the sequence counters count modulo this, 256
    bDispErrorFrame    \* vconfig.bDispErrorFrame = 1

ASSUME DpbAssumption ==
    /\ nFrameBuffers \in Nat \ {0} /\ nMaxNumReoderPics \in Nat
    /\ MaxPocLsb \in Nat \ {0} /\ PtsListSize \in Nat \ {0}
    /\ SeqModulus \in Nat /\ SeqModulus > 4
    /\ bDispErrorFrame \in BOOLEAN

Slots == 1..nFrameBuffers
Buffers == 1..nFrameBuffers

HEVC_INT_MAX == 2147483647
HEVC_INT_MINI == -2147483647

\* ref is the reference flag, "" for none.  ord is the picture's place in the
\* order the encoder means them to be displayed in; the code does not have it.
NoFrame ==
    [pFbmBuffer |-> 0, nPoc |-> 0, nSequence |-> 0, output |-> FALSE,
     ref |-> "", bErrorFrameFlag |-> FALSE, bDropFlag |-> FALSE, ord |-> 0]

RpsLists == {"HEVC_ST_CURR_BEF", "HEVC_ST_CURR_AFT", "HEVC_ST_FOLL",
             "HEVC_LT_CURR", "HEVC_LT_FOLL"}
NoRps == [list \in RpsLists |-> <<>>]

EmptyDpb ==
    [DPB |-> [i \in Slots |-> NoFrame], pCurrDPB |-> 0, Rps |-> NoRps,
     nSeqDecode |-> 0, nSeqOutput |-> 0, bIsFirstPicture |-> TRUE,
     nLastDispPoc |-> 0, PtsList |-> {},
     held |-> {}, display |-> <<>>, shown |-> <<>>]

----------------------------------------------------------------------------
(* The frame buffer manager. *)

EmptyBuffers(d) == Buffers \ (d.held \cup Range(d.display))

\* FbmReturnBuffer(fbm, pFbmBuffer, 0): a buffer shared with the display
\* stays there.
FbmReturnBuffer(d, i) == [d EXCEPT !.held = @ \ {d.DPB[i].pFbmBuffer}]

\* FbmShareBuffer: the display gets the buffer, the decoder keeps it.
FbmShareBuffer(d, i, nPts) ==
    [d EXCEPT !.display = Append(@, d.DPB[i].pFbmBuffer),
              !.shown = Append(@, [ord |-> d.DPB[i].ord, nPts |-> nPts])]

----------------------------------------------------------------------------
(* References. *)

HevcMarkRef(d, i, ref) == [d EXCEPT !.DPB[i].ref = ref]

\* HevcUnrefFrame with the reference flags, or all of them: without a flag
\* the picture's buffer goes back.
HevcUnrefFrame(d, i, all) ==
    LET e == [d EXCEPT !.DPB[i].ref = "", !.DPB[i].output = @ /\ ~all] IN
    CASE d.DPB[i].pFbmBuffer = 0 -> d
      [] d.DPB[i].pFbmBuffer # 0 /\ e.DPB[i].output -> e
      [] OTHER -> [FbmReturnBuffer(e, i) EXCEPT !.DPB[i].pFbmBuffer = 0]

InTurn == [i \in Slots |-> i]

HevcClearRefs(d) ==
    FoldLeft(LAMBDA e, i : HevcUnrefFrame(e, i, FALSE), d, InTurn)
HevcResetClearRefs(d) ==
    FoldLeft(LAMBDA e, i : HevcUnrefFrame(e, i, TRUE), d, InTurn)

\* HevcUnrefFrame(pHevcDec, pHf, 0) of every picture: the flags stay.
ReturnUnflagged(d) ==
    FoldLeft(LAMBDA e, i : IF e.DPB[i].ref = ""
                           THEN HevcUnrefFrame(e, i, FALSE) ELSE e, d, InTurn)

\* HevcFindRefIdx: the picture of this order count in the sequence, or else
\* one whose least significant bits it is.  Whether it is marked as a
\* reference is not looked at.
HevcFindRefIdx(d, nPoc) ==
    LET live == {i \in Slots : /\ d.DPB[i].pFbmBuffer # 0
                               /\ d.DPB[i].nSequence = d.nSeqDecode}
        same == {i \in live : d.DPB[i].nPoc = nPoc}
        lsb == {i \in live : d.DPB[i].nPoc % MaxPocLsb = nPoc}
    IN  CASE same # {} -> Min(same)
          [] same = {} /\ lsb # {} -> Min(lsb)
          [] OTHER -> 0

----------------------------------------------------------------------------
(* Display, HevcOutputFrame. *)

\* Pictures of sequence q that wait to be displayed.
Waiting(d, q) == {i \in Slots : d.DPB[i].output /\ d.DPB[i].nSequence = q}

\* The sequence the loop comes to: nSeqOutput goes on to nSeqDecode for as
\* long as no picture of it waits.
OutputSequence(d) ==
    LET dist == (d.nSeqDecode - d.nSeqOutput) % SeqModulus
        seq(k) == (d.nSeqOutput + k) % SeqModulus
    IN  seq(Min({k \in 0..dist : k = dist \/ Waiting(d, seq(k)) # {}}))

FirstOf(d, W) ==
    CHOOSE i \in W : \A j \in W : d.DPB[i].nPoc <= d.DPB[j].nPoc

\* nNeedOutputFlag, in sequence nSeqOutput.  After HEVC_INT_MAX comes nothing.
NeedOutput(d, bFlush) ==
    LET W == Waiting(d, d.nSeqOutput) IN
    \/ bFlush \/ d.nSeqOutput # d.nSeqDecode \/ d.bIsFirstPicture
    \/ Cardinality(W) > nMaxNumReoderPics
    \/ /\ W # {} /\ d.nLastDispPoc # HEVC_INT_MAX
       /\ d.DPB[FirstOf(d, W)].nPoc = d.nLastDispPoc + 1

\* bDisplayFlag.
Displayed(f) == ~f.bDropFlag /\ (bDispErrorFrame \/ ~f.bErrorFrameFlag)

\* The picture in slot i is output with the lowest time stamp of the list.
Output(d, i) ==
    LET nPts == IF d.PtsList = {} THEN 0 ELSE Min(d.PtsList)
        e == [d EXCEPT !.DPB[i].output = FALSE, !.bIsFirstPicture = FALSE,
                       !.nLastDispPoc = d.DPB[i].nPoc,
                       !.PtsList = @ \ {nPts}]
    IN  IF Displayed(d.DPB[i]) THEN FbmShareBuffer(e, i, nPts) ELSE e

\* The pictures when the loop stands at OutputSequence.
AtSequence(d) ==
    LET q == OutputSequence(d) IN
    IF q = d.nSeqOutput THEN d
    ELSE [d EXCEPT !.nSeqOutput = q, !.nLastDispPoc = HEVC_INT_MAX]

\* A picture is output: HevcOutputFrame does not return VDECODE_RESULT_OK.
OutputDue(d, bFlush) ==
    LET e == AtSequence(d)
    IN  NeedOutput(e, bFlush) /\ Waiting(e, e.nSeqOutput) # {}

HevcOutputFrame(d, bFlush) ==
    LET e == AtSequence(d)
        W == Waiting(e, e.nSeqOutput)
    IN  CASE ~NeedOutput(e, bFlush) -> e
          [] NeedOutput(e, bFlush) /\ W # {} -> Output(e, FirstOf(e, W))
          [] OTHER -> [e EXCEPT !.nLastDispPoc = HEVC_INT_MAX]

\* HevcDecOutputAllPictures, and the flush before a change of resolution:
\* HevcOutputFrame until it outputs nothing.
HevcDecOutputAllPictures(d) ==
    FoldLeft(LAMBDA e, i : HevcOutputFrame(e, TRUE), HevcOutputFrame(d, TRUE),
             InTurn)

\* What is done about an order count that should not be there: one picture
\* is output and all the others are given up.
FlushOneAndClear(d) == HevcResetClearRefs(HevcOutputFrame(d, TRUE))

----------------------------------------------------------------------------
(* The reference picture set. *)

\* HevcAddCandidateRef, after those of the set that went well.  A missing
\* picture of order count 0 is taken for a lost IDR.
HevcAddCandidateRef(a, list, nPoc, ref, rasl) ==
    LET i == HevcFindRefIdx(a.d, nPoc)
        error == i # 0 /\ a.d.DPB[i].bErrorFrameFlag /\ ~bDispErrorFrame
    IN  CASE a.result # "OK" -> a
          [] a.result = "OK" /\ i = 0 /\ rasl ->
                [a EXCEPT !.result = "DROP_THE_FRAME"]
          [] a.result = "OK" /\ i = 0 /\ ~rasl ->
                IF nPoc = 0 THEN [a EXCEPT !.d = FlushOneAndClear(@)] ELSE a
          [] a.result = "OK" /\ error ->
                [a EXCEPT !.result = "RESET_INTRA_DECODER"]
          [] OTHER -> [a EXCEPT !.d.Rps[list] = Append(@, i),
                                !.d.DPB[i].ref = ref]

ShortList(e) ==
    CASE ~e.used -> "HEVC_ST_FOLL"
      [] e.used /\ e.delta < 0 -> "HEVC_ST_CURR_BEF"
      [] OTHER -> "HEVC_ST_CURR_AFT"

LongList(e) == IF e.used THEN "HEVC_LT_CURR" ELSE "HEVC_LT_FOLL"

\* Mutant: pictures no longer referred to keep their buffers.
RpsKeepsUnused(d, nPoc, short, long, rasl) ==
    LET clear == [d EXCEPT !.DPB = [i \in Slots |-> [@[i] EXCEPT !.ref = ""]],
                           !.Rps = NoRps]
        s == FoldLeft(LAMBDA a, e : HevcAddCandidateRef(
                         a, ShortList(e), nPoc + e.delta, "short", rasl),
                      [d |-> clear, result |-> "OK"], short.list)
    IN  IF short.null THEN [d |-> d, result |-> "OK"]
        ELSE FoldLeft(LAMBDA a, e : HevcAddCandidateRef(
                         a, LongList(e), e.poc, "long", rasl), s, long)

\* HevcConstuctFrameRps.  short.null is a NULL pShortTermRps, of an IDR.
HevcConstuctFrameRps(d, nPoc, short, long, rasl) ==
    LET clear == [d EXCEPT !.DPB = [i \in Slots |-> [@[i] EXCEPT !.ref = ""]],
                           !.Rps = NoRps]
        s == FoldLeft(LAMBDA a, e : HevcAddCandidateRef(
                         a, ShortList(e), nPoc + e.delta, "short", rasl),
                      [d |-> clear, result |-> "OK"],
                      IF short.null THEN <<>> ELSE short.list)
        l == FoldLeft(LAMBDA a, e : HevcAddCandidateRef(
                         a, LongList(e), e.poc, "long", rasl), s, long)
    IN  CASE short.null /\ long = <<>> ->
                [d |-> [d EXCEPT !.Rps.HEVC_ST_CURR_BEF = <<>>,
                                 !.Rps.HEVC_ST_CURR_AFT = <<>>],
                 result |-> "OK"]
          [] ~(short.null /\ long = <<>>) /\ l.result = "OK" ->
                [l EXCEPT !.d = ReturnUnflagged(@)]
          [] OTHER -> l

\* HevcSetNewRef: the slot and the buffer of a new picture.  One with the
\* order count of another is an error.
HevcSetNewRef(d, nPoc, output, drop, ord) ==
    LET twice == \E i \in Slots : /\ d.DPB[i].pFbmBuffer # 0
                                  /\ d.DPB[i].nSequence = d.nSeqDecode
                                  /\ d.DPB[i].nPoc = nPoc
        e == IF twice THEN FlushOneAndClear(d) ELSE d
        i == Min({j \in Slots : e.DPB[j].pFbmBuffer = 0})
        b == Min(EmptyBuffers(e))
    IN  IF EmptyBuffers(e) = {} THEN [d |-> e, result |-> "NO_FRAME_BUFFER"]
        ELSE [d |-> [e EXCEPT
                 !.held = @ \cup {b}, !.pCurrDPB = i,
                 !.DPB[i] = [pFbmBuffer |-> b, nPoc |-> nPoc,
                             nSequence |-> e.nSeqDecode, output |-> output,
                             ref |-> "short", bErrorFrameFlag |-> twice,
                             bDropFlag |-> drop, ord |-> ord]],
              result |-> "OK"]

\* The candidates for list 0 or 1 of a slice.
RefCandidates(d, list) ==
    LET bef == d.Rps.HEVC_ST_CURR_BEF
        aft == d.Rps.HEVC_ST_CURR_AFT
    IN  (IF list = 0 THEN bef \o aft ELSE aft \o bef) \o d.Rps.HEVC_LT_CURR

HEVC_MAX_REFS == 16

\* The candidates are repeated until the list, of n references, is full.
RplTempLength(d, n) ==
    LET m == Len(RefCandidates(d, 0))
    IN  Min({m * ((n + m - 1) \div m), HEVC_MAX_REFS})

\* An entry of the modification mod of a list of n references means nothing.
EntryInvalid(d, list) ==
    \E k \in DOMAIN list.mod : list.mod[k] >= RplTempLength(d, list.n)

\* HevcSliceRps fails: there is nothing to refer to, or a list is too long or
\* has such an entry...
SliceRpsFails(d, lists) ==
    \/ RefCandidates(d, 0) = <<>>
    \/ \E l \in DOMAIN lists : lists[l].n > HEVC_MAX_REFS
                               \/ EntryInvalid(d, lists[l])

\* ... and where it meets the list that is too long, it drops the picture.
TooManyRefs(d, lists) ==
    /\ RefCandidates(d, 0) # <<>>
    /\ \E l \in DOMAIN lists :
          /\ lists[l].n > HEVC_MAX_REFS
          /\ \A j \in 1..l - 1 : ~EntryInvalid(d, lists[j])

\* ListEntryLx, or the place in the initial list.
Entry(mod, k) == IF mod = <<>> THEN k - 1 ELSE mod[k]

\* RefPicList[l - 1] of a slice: the candidates in turn, modified.
HevcSliceRps(d, lists) ==
    [l \in DOMAIN lists |->
        LET cand == RefCandidates(d, l - 1)
        IN  [k \in 1..lists[l].n |->
                cand[1 + (Entry(lists[l].mod, k) % Len(cand))]]]
============================================================================
