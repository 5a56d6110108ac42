------------------------------ MODULE H265Sram ------------------------------
(* What the H.265 decoder leaves in the memory of the video engine before    *)
(* each slice (h265_register.c, h265_parser.c): scaling lists, the entry     *)
(* points of the slice, the pictures, reference lists and weights.           *)
EXTENDS EngineSram, H265ParamSets

HEVC_WEIGHT_PRED_PARAM_ADDR == 0
HEVC_FRM_BUF_INFO_ADDR == 1024
HEVC_SCALING_MATRIX_ADDR == 2048
HEVC_REF_LIST_ADDR == 3072

----------------------------------------------------------------------------
(* Scaling lists: column by column, the 8x8 and 32x32 ones first. *)

Columns(list, side) ==
    [w \in 1 .. (side * side) \div 4 |->
        LET n == (w - 1) \div (side \div 4)
            m == 4 * ((w - 1) % (side \div 4))
        IN  [b \in 1..4 |-> list[n + (m + b - 1) * side]]]

ListOrder == [n \in 1..6 |-> n + 6] \o <<19, 20>> \o [n \in 1..6 |-> n + 12]
             \o [n \in 1..6 |-> n]

\* The memory, and the registers of the first coefficients.
HevcSetScalingListReg(sram, choice) ==
    LET set == choice.set
    IN  IF choice.flat THEN [sram |-> sram, dc |-> <<>>]
        ELSE [sram |-> Write(sram, HEVC_SCALING_MATRIX_ADDR,
                             FlattenSeq([n \in 1..20 |->
                                 Columns(set.lists[ListOrder[n]],
                                         ListSide(ListOrder[n]))])),
              dc |-> <<<<set.dc[13], set.dc[14], set.dc[19], set.dc[20]>>,
                       <<set.dc[15], set.dc[16], set.dc[17], set.dc[18]>>>>]

----------------------------------------------------------------------------
(* Tiles: the first tile of a slice is in registers, its other tiles in a    *)
(* table in memory that the slices of a picture share.  m.words is that      *)
(* table, by word, and m.nLastEntryPointOffset the words used so far.        *)

NoEntries == [words |-> [a \in {} |-> 0], nLastEntryPointOffset |-> 0]

\* The entry of the j-th tile after the first.
TileEntry(pps, s, j) ==
    LET tile == pps.TilePosInfo[pps.TileIdInRs[s.nSliceSegmentAddr] + j]
    IN  <<s.EntryPointOffset[j], 0, tile.start, tile.end>>

\* With wavefronts there is a word an entry, else there are four.
HevcSetTilesInfoReg(m, pps, s) ==
    LET n == Len(s.EntryPointOffset)
        last == m.nLastEntryPointOffset
        new == IF s.bEntropyCodingSyncEnabledFlag
               THEN [a \in last + 1 .. last + n |->
                        s.EntryPointOffset[a - last]]
               ELSE [a \in last .. last + 4 * n - 1 |->
                        TileEntry(pps, s, ((a - last) \div 4) + 1)
                            [((a - last) % 4) + 1]]
        tile == pps.TilePosInfo[pps.TileIdInRs[s.nSliceSegmentAddr]]
    IN  [m |-> [words |-> [a \in DOMAIN m.words \cup DOMAIN new |->
                              IF a \in DOMAIN new THEN new[a] ELSE m.words[a]],
                nLastEntryPointOffset |->
                    last + IF s.bEntropyCodingSyncEnabledFlag THEN n
                           ELSE 4 * n],
         first |-> tile, table |-> last]

----------------------------------------------------------------------------
(* Pictures and reference lists.  A picture is nIndex, its order count and   *)
(* its buffers; an entry of a list is a picture's index and whether it is a  *)
(* long-term reference.                                                      *)

\* A picture's order count stands for that of a second field as well.
FrameBufInfo(sram, frame) ==
    Write(sram, HEVC_FRM_BUF_INFO_ADDR + 32 * frame.nIndex,
          <<frame.nPoc, frame.nPoc, frame.mv, frame.mv>> \o frame.buffers)

Fours(list) ==
    [w \in 1 .. (Len(list) + 3) \div 4 |->
        SubSeq(list, 4 * w - 3, IF 4 * w > Len(list) THEN Len(list)
                                ELSE 4 * w)]

\* List 1 is written for B slices only.
HevcSetFrameBufInfoReg(sram, frames, type, lists) ==
    LET one(s, l) == Write(s, HEVC_REF_LIST_ADDR + 16 * (l - 1),
                           Fours(lists[l]))
    IN  FoldLeft(one, FoldLeft(FrameBufInfo, sram, frames),
                 CASE type = "I" -> <<>> [] type = "P" -> <<1>>
                   [] type = "B" -> <<1, 2>>)

----------------------------------------------------------------------------
(* Weights.  Those of a list are read flag by flag, then value by value;     *)
(* component 1 is luma, 2 and 3 are Cb and Cr.                               *)

Clip8(v) == IF v < -128 THEN -128 ELSE IF v > 127 THEN 127 ELSE v

\* A weight and an offset, coded as differences.
LumaWeight(a, b) == [delta |-> a, offset |-> b]

ChromaWeight(a, b, denom) ==
    [delta |-> a,
     offset |-> Clip8(b + 128 - ((128 * (a + 2^denom)) \div 2^denom))]
NoWeight == [delta |-> 0, offset |-> 0]

\* The weights of a reference, from what is left of the header.
RefWeight(in, luma, chroma, denom) ==
    LET rest == IF luma THEN SubSeq(in, 3, Len(in)) ELSE in
    IN  [in |-> IF chroma THEN SubSeq(rest, 5, Len(rest)) ELSE rest,
         of |-> <<IF luma THEN LumaWeight(in[1], in[2]) ELSE NoWeight,
                  IF chroma THEN ChromaWeight(rest[1], rest[2], denom)
                  ELSE NoWeight,
                  IF chroma THEN ChromaWeight(rest[3], rest[4], denom)
                  ELSE NoWeight>>]

\* The weights of a list of n references.
ListWeights(in, n, denom) ==
    FoldLeft(LAMBDA r, i :
                LET w == RefWeight(r.in, in[i] = 1, in[n + i] = 1, denom)
                IN  [in |-> w.in, of |-> Append(r.of, w.of)],
             [in |-> SubSeq(in, 2 * n + 1, Len(in)), of |-> <<>>],
             [i \in 1..n |-> i])

\* What is left of the header and the weights of the lists.
HevcParseWeightTable2(in, type, nNumOfRefs) ==
    LET denom == in[1] + in[2]
        list0 == ListWeights(SubSeq(in, 3, Len(in)), nNumOfRefs[1], denom)
        list1 == ListWeights(list0.in, nNumOfRefs[2], denom)
    IN  IF type = "B" THEN [in |-> list1.in, of |-> <<list0.of, list1.of>>]
        ELSE [in |-> list0.in, of |-> <<list0.of>>]

Bytes(w) == <<w.delta % 256, w.offset % 256>>

\* Luma: two references a word.
LumaWords(of) ==
    [w \in 1 .. (Len(of) + 1) \div 2 |->
        Bytes(of[2 * w - 1][1])
        \o IF 2 * w <= Len(of) THEN Bytes(of[2 * w][1]) ELSE <<0, 0>>]

ChromaWords(of) == [w \in DOMAIN of |-> Bytes(of[w][2]) \o Bytes(of[w][3])]

HevcSetWeightPredReg(sram, weights) ==
    LET at(l) == HEVC_WEIGHT_PRED_PARAM_ADDR + 96 * (l - 1)
    IN  FoldLeft(LAMBDA s, l :
                    Write(Write(s, at(l), LumaWords(weights[l])),
                          at(l) + 32, ChromaWords(weights[l])),
                 sram, [l \in DOMAIN weights |-> l])

----------------------------------------------------------------------------
(* HevcDecodeOneSlice, and the part of its header that codes the weights. *)

HasWeightTable(pps, type) == \/ type = "P" /\ pps.bWeightedPredFlag
                             \/ type = "B" /\ pps.bWeightedBipredFlag

\* The memory, the entry points and the registers when slice s is started.
HevcDecodeOneSlice(sram, m, sps, pps, s) ==
    LET scaling == HevcSetScalingListReg(sram, ScalingChoice(sps, pps))
        tiles == HevcSetTilesInfoReg(m, pps.tiles, s)
        refs == HevcSetFrameBufInfoReg(scaling.sram, s.frames, s.type, s.lists)
        weighted == HasWeightTable(pps, s.type)
        table == HevcParseWeightTable2(
                    s.in, s.type, [l \in DOMAIN s.lists |-> Len(s.lists[l])])
    IN  [sram |-> IF weighted THEN HevcSetWeightPredReg(refs, table.of)
                  ELSE refs,
         in |-> IF weighted THEN table.in ELSE s.in,
         m |-> IF pps.bTilesEnabledFlag THEN tiles.m ELSE m,
         first |-> IF pps.bTilesEnabledFlag THEN <<tiles.first>> ELSE <<>>,
         table |-> IF pps.bTilesEnabledFlag THEN <<tiles.table>> ELSE <<>>,
         dc |-> scaling.dc]
=============================================================================
