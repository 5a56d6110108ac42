------------------------------ MODULE H264Sram ------------------------------
(* The tables the H.264 decoder leaves in the memory of the video engine     *)
(* (h264_hal.c): prediction weights, buffers and order counts of the         *)
(* pictures, reference lists and scaling lists.                              *)
EXTENDS EngineSram, SequencesExt

FRMBUF_INFO_LEN == 576

WEIGHT_PREDPARA_ADDR == 0
FRMBUF_INFO_ADDR == 1024
QUANT_MATRIX_ADDR == 2048
REFLIST_ADDR == FRMBUF_INFO_ADDR + FRMBUF_INFO_LEN

TOP == 1
BOTTOM == 2
FRAME == 3

----------------------------------------------------------------------------
(* Pictures and reference lists.  A slot is its number, its buffers, and for *)
(* each field, 1 top and 2 bottom, the order count and whether it is a       *)
(* reference; bMbAffFrame and bCodedFrame say how it was coded.              *)

RefType(isRef) == IF isRef THEN 0 ELSE 2

\* The buffers of a slot.
ReconMvcolBuf(sram, slot) ==
    Write(sram, FRMBUF_INFO_ADDR + 32 * slot.i + 12, slot.buffers)

\* The picture that is decoded: of a field only that field's part.
FrameInfo(sram, slot, nPicStructure, isRef, bMbAffFrame) ==
    LET base == FRMBUF_INFO_ADDR + 32 * slot.i
    IN  CASE nPicStructure = FRAME ->
                Write(sram, base,
                      <<slot.poc[1], slot.poc[2],
                        [struct |-> IF bMbAffFrame THEN 2 ELSE 0,
                         top |-> RefType(isRef), bottom |-> RefType(isRef)]>>)
          [] nPicStructure = TOP ->
                Write(Write(sram, base, <<slot.poc[1]>>), base + 8,
                      <<[struct |-> 1, top |-> RefType(isRef), bottom |-> 0]>>)
          [] nPicStructure = BOTTOM ->
                Write(sram, base + 4,
                      <<slot.poc[2],
                        [struct |-> 1, top |-> 0, bottom |-> RefType(isRef)]>>)

\* What the lists say of one slot: fields, the fields of it they name.
NoRefFrame == [poc |-> <<0, 0>>, struct |-> 0, top |-> 0, bottom |-> 0]

\* Mutant: each entry starts its slot's values again.
CalCulateAgain(value, slot, nReference) ==
    [poc |-> [f \in 1..2 |-> IF nReference \in {f, FRAME} THEN slot.poc[f]
                             ELSE 0],
     struct |-> IF slot.bCodedFrame THEN 0 ELSE 1,
     top |-> 0, bottom |-> 0]

CalCulateRefFrame(value, slot, nReference) ==
    [poc |-> [f \in 1..2 |-> IF nReference \in {f, FRAME} THEN slot.poc[f]
                             ELSE value.poc[f]],
     struct |-> CASE slot.bCodedFrame /\ slot.bMbAffFrame -> 2
                  [] slot.bCodedFrame /\ ~slot.bMbAffFrame -> 0
                  [] OTHER -> 1,
     top |-> IF nReference \in {TOP, FRAME} THEN RefType(slot.isRef[1])
             ELSE value.top,
     bottom |-> IF nReference \in {BOTTOM, FRAME} THEN RefType(slot.isRef[2])
                ELSE value.bottom]

\* The slots the lists name.  An entry is a slot, the fields it stands for,
\* nReference, and the structure it is used with; slot 0 is an empty entry.
Entries(lists) == lists[1] \o lists[2]

RefFrames(sram, slots, lists) ==
    LET used == SelectSeq(Entries(lists), LAMBDA e : e.i # -1)
        add(s, e) == [s EXCEPT ![e.i] =
                        CalCulateRefFrame(@, slots[e.i], e.fields)]
        values == FoldLeft(add, [i \in DOMAIN slots |-> NoRefFrame], used)
        one(s, e) == Write(s, FRMBUF_INFO_ADDR + 32 * e.i,
                           <<values[e.i].poc[1], values[e.i].poc[2],
                             [struct |-> values[e.i].struct,
                              top |-> values[e.i].top,
                              bottom |-> values[e.i].bottom]>>)
    IN  FoldLeft(one, sram, used)

\* Four entries a word, the first in its lowest byte; an empty entry takes no
\* place in its word.
ListWords(list) ==
    [w \in 1 .. (Len(list) \div 4) + 1 |->
        LET four == SubSeq(list, 4 * w - 3, IF 4 * w > Len(list)
                                            THEN Len(list) ELSE 4 * w)
            used == SelectSeq(four, LAMBDA e : e.i # -1)
        IN  [n \in DOMAIN used |-> <<used[n].i, used[n].struct = BOTTOM>>]]

RefListRegister(sram, slots, lists) ==
    LET one(s, l) == IF lists[l] = <<>> THEN s
                     ELSE Write(s, REFLIST_ADDR + 36 * (l - 1),
                                ListWords(lists[l]))
    IN  FoldLeft(one, RefFrames(sram, slots, lists), <<1, 2>>)

----------------------------------------------------------------------------
(* Scaling lists: the 8x8 ones first, four factors a word. *)

Rows(list, n) ==
    [w \in 1 .. n |-> [b \in 1..4 |-> list[4 * w - 5 + b]]]

QuantMatrix(sram, lists) ==
    LET one(s, k) ==
            IF k <= 6
            THEN Write(s, QUANT_MATRIX_ADDR + 128 + 16 * (k - 1),
                       Rows(lists[k], 4))
            ELSE Write(s, QUANT_MATRIX_ADDR + 64 * (k - 7), Rows(lists[k], 16))
    IN  FoldLeft(one, sram, <<7, 8, 1, 2, 3, 4, 5, 6>>)

----------------------------------------------------------------------------
(* Prediction weights, read from the slice header: r.in is what is left of   *)
(* it.  A word is a weight and an offset; chroma has one for Cb and Cr each.  *)

\* One entry of n words at address, when the header has it.
WeightEntry(r, address, n) ==
    IF Head(r.in) = 0 THEN [r EXCEPT !.in = Tail(@)]
    ELSE [in |-> SubSeq(r.in, 2 * n + 2, Len(r.in)),
          sram |-> Write(r.sram, address,
                         [w \in 1..n |-> <<r.in[2 * w], r.in[2 * w + 1]>>])]

LumaAddress(l, i) == WEIGHT_PREDPARA_ADDR + 384 * (l - 1) + 4 * (i - 1)
ChromaAddress(l, i) == 384 * (l - 1) + 128 + 8 * (i - 1)

RefWeights(r, l, nRefCount) ==
    FoldLeft(LAMBDA s, i :
                WeightEntry(WeightEntry(s, LumaAddress(l, i), 1),
                            ChromaAddress(l, i), 2),
             r, [i \in 1..nRefCount |-> i])

DefaultWeights(sram, luma, chroma) ==
    LET of(l) == [n \in 1..96 |-> IF n <= 32 THEN <<2^luma, 0>>
                                  ELSE <<2^chroma, 0>>]
    IN  Write(sram, WEIGHT_PREDPARA_ADDR, of(1) \o of(2))

\* Does the slice's header get here?  B slices with implicit weights do.
HasWeights(s) == \/ s.bWeightedPred /\ s.type = "P"
                 \/ s.nWeightedBIpredIdc > 0 /\ s.type = "B"

WeightTable(r, s) ==
    LET implicit == s.nWeightedBIpredIdc = 2 /\ s.type = "B"
        explicit == s.type = "P" \/ s.nWeightedBIpredIdc = 1
        table == IF implicit
                 THEN [in |-> r.in, sram |-> DefaultWeights(r.sram, 5, 5)]
                 ELSE [in |-> SubSeq(r.in, 3, Len(r.in)),
                       sram |-> DefaultWeights(r.sram, r.in[1], r.in[2])]
        list0 == IF explicit THEN RefWeights(table, 1, s.nRefCount[1])
                 ELSE table
    IN  IF explicit /\ s.type = "B" THEN RefWeights(list0, 2, s.nRefCount[2])
        ELSE list0

----------------------------------------------------------------------------
(* A slice: its weights while its header is read, then its registers.  The   *)
(* pictures and the lists are written for the first slice of a picture only. *)

MaxFrmNum264(n) == IF n > 18 THEN 18 ELSE n

\* The engine's memory when slice s is started, and what is left of its header.
ConfigureSlice(sram, s) ==
    LET header == IF HasWeights(s) THEN WeightTable([in |-> s.in,
                                                     sram |-> sram], s)
                  ELSE [in |-> s.in, sram |-> sram]
        quant == IF s.flat THEN header.sram
                 ELSE QuantMatrix(header.sram, s.scaling)
        filled == SelectSeq([n \in 1..MaxFrmNum264(s.nMaxValidFrmBufNum) |->
                                n - 1], LAMBDA i : i \in DOMAIN s.slots)
        buffers == FoldLeft(LAMBDA m, i : ReconMvcolBuf(m, s.slots[i]),
                            quant, filled)
        current == FrameInfo(buffers, s.slots[s.current], s.nPicStructure,
                             s.nNalRefIdc, s.bMbAffFrame)
    IN  [in |-> header.in,
         sram |-> IF s.nCurSliceNum > 1 THEN quant
                  ELSE RefListRegister(current, s.slots, s.refList)]
============================================================================
