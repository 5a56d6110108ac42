--------------------------- MODULE H265ParamSets ---------------------------
(* What the H.265 decoder makes of its parameter sets (h265.c,              *)
(* h265_parser.c): their bytes, the tiles of a picture and the scaling      *)
(* lists.  CTBs and places in a list are counted from 0, as in the code.    *)
EXTENDS Integers, Sequences, SequencesExt

----------------------------------------------------------------------------
(* The bytes of a NAL unit, taken from the ring and without the codes that  *)
(* keep start codes out of them.                                            *)

HEVC_EMULATION_CODE == <<0, 0, 3>>

\* size bytes of the ring from place start, over its end if need be: a
\* parameter set fits the buffer it is copied to.
NaluBytes(ring, start, size) ==
    [n \in 1..size |-> ring[((start + n - 2) % Len(ring)) + 1]]

\* Step 2: the codes are found in the bytes as they came.
WithoutCodes(bytes) ==
    FoldLeft(LAMBDA kept, n :
                IF n > 2 /\ SubSeq(bytes, n - 2, n) = HEVC_EMULATION_CODE
                THEN kept ELSE Append(kept, bytes[n]),
             <<>>, [n \in DOMAIN bytes |-> n])

\* What is parsed: nShByteSize still counts the codes, so that as many bytes
\* are left over behind the payload.
HevcGetPreprocessData(ring, start, size) ==
    LET bytes == NaluBytes(ring, start, size)
        kept == WithoutCodes(bytes)
    IN  kept \o SubSeq(bytes, Len(kept) + 1, size)

----------------------------------------------------------------------------
(* Tiles.  pps codes them as the number of columns and rows, evenly spaced  *)
(* or with the sizes of all but the last column and row.                    *)

Total(sizes) == FoldLeft(+, 0, sizes)

UniformSizes(n, size) ==
    [i \in 1..n |-> ((i * size) \div n) - (((i - 1) * size) \div n)]

Sizes(uniform, n, given, size) ==
    IF uniform THEN UniformSizes(n, size)
    ELSE Append(given, size - Total(given))

\* A set whose tiles do not fit is given up.
TilesFit(pps, sps) ==
    pps.bUniformSpacingFlag
    \/ /\ Total(pps.columns) <= sps.nCtbWidth
       /\ Total(pps.rows) <= sps.nCtbHeight

\* Where tile i starts, from 0; the one after the last is the end.
Boundary(sizes, i) == Total(SubSeq(sizes, 1, i))

\* The first tile that ends behind place x.
TileOf(sizes, x) ==
    CHOOSE i \in 0 .. Len(sizes) - 1 :
        /\ x < Boundary(sizes, i + 1)
        /\ \A j \in 0 .. i - 1 : x >= Boundary(sizes, j + 1)

\* Mutant: the tiles before in the row are as high as those of the first row.
ScanOfFirstRow(columns, rows, x, y) ==
    LET tx == TileOf(columns, x)
        ty == TileOf(rows, y)
    IN  rows[1] * Boundary(columns, tx) + Total(columns) * Boundary(rows, ty)
        + (y - Boundary(rows, ty)) * columns[tx + 1] + x - Boundary(columns, tx)

\* CtbAddrRsToTs: the place in tile scan of the CTB in column x and row y.
TileScan(columns, rows, x, y) ==
    LET tx == TileOf(columns, x)
        ty == TileOf(rows, y)
    IN  rows[ty + 1] * Boundary(columns, tx)
        + Total(columns) * Boundary(rows, ty)
        + (y - Boundary(rows, ty)) * columns[tx + 1] + x - Boundary(columns, tx)

\* The tiles of pps, for pictures of sps.
HevcDecodeNalPpsTiles(pps, sps) ==
    LET columns == Sizes(pps.bUniformSpacingFlag, pps.nNumTileColums,
                         pps.columns, sps.nCtbWidth)
        rows == Sizes(pps.bUniformSpacingFlag, pps.nNumTileRows,
                      pps.rows, sps.nCtbHeight)
        ctbs == 0 .. sps.nCtbWidth * sps.nCtbHeight - 1
        tiles == 0 .. pps.nNumTileColums * pps.nNumTileRows - 1
        col(t) == t % pps.nNumTileColums
        row(t) == t \div pps.nNumTileColums
        rsToTs == [rs \in ctbs |-> TileScan(columns, rows,
                      rs % sps.nCtbWidth, rs \div sps.nCtbWidth)]
    IN  [CtbAddrRsToTs |-> rsToTs,
         CtbAddrTsToRs |-> [ts \in ctbs |->
            CHOOSE rs \in ctbs : rsToTs[rs] = ts],
         TileIdInRs |-> [rs \in ctbs |->
            TileOf(rows, rs \div sps.nCtbWidth) * pps.nNumTileColums
            + TileOf(columns, rs % sps.nCtbWidth)],
         TilePosInfo |-> [t \in tiles |->
            [start |-> <<Boundary(columns, col(t)), Boundary(rows, row(t))>>,
             end |-> <<Boundary(columns, col(t) + 1) - 1,
                       Boundary(rows, row(t) + 1) - 1>>]],
         TilePositionRs |-> [t \in tiles |->
            Boundary(rows, row(t)) * sps.nCtbWidth
            + Boundary(columns, col(t))]]

----------------------------------------------------------------------------
(* Scaling lists.  Lists 1..6 are of 4x4 blocks, 7..12 of 8x8, 13..18 of     *)
(* 16x16 and 19, 20 of 32x32; those of the last two sizes have a value for  *)
(* the first coefficient of their own.  The default lists are told apart by *)
(* their last value.                                                        *)

SizeId(k) == (k - 1) \div 6
MatrixId(k) == (k - 1) % 6
ListSide(k) == IF SizeId(k) = 0 THEN 4 ELSE 8
Flat(k, v) == [n \in 0 .. ListSide(k) * ListSide(k) - 1 |-> v]
IsIntra(k) == IF SizeId(k) = 3 THEN MatrixId(k) = 0 ELSE MatrixId(k) < 3
HasDc(k) == SizeId(k) > 1

HevcScalingListDefaultData ==
    [lists |-> [k \in 1..20 |->
        CASE SizeId(k) = 0 -> Flat(k, 16)
          [] SizeId(k) # 0 /\ IsIntra(k) -> Flat(k, 115)
          [] OTHER -> Flat(k, 91)],
     dc |-> [k \in 13..20 |-> 16],
     bScalingListMatrixModified |-> FALSE]

gSigLastScan_0_1 == <<0, 4, 1, 8, 5, 2, 12, 9, 6, 3, 13, 10, 7, 14, 11, 15>>

gSigLastScanCG32x32 ==
    << 0,  8,  1, 16,  9,  2, 24, 17, 10,  3, 32, 25, 18, 11,  4, 40,
      33, 26, 19, 12,  5, 48, 41, 34, 27, 20, 13,  6, 56, 49, 42, 35,
      28, 21, 14,  7, 57, 50, 43, 36, 29, 22, 15, 58, 51, 44, 37, 30,
      23, 59, 52, 45, 38, 31, 60, 53, 46, 39, 61, 54, 47, 62, 55, 63>>

ScanOf(k) == IF SizeId(k) = 0 THEN gSigLastScan_0_1 ELSE gSigLastScanCG32x32

\* A list that is predicted: by 0, the default that is there already, else
\* another of its size.
PredictedList(r, k) ==
    LET sent == r.in[2]
        delta == IF MatrixId(k) >= sent THEN sent
                 ELSE IF MatrixId(k) >= 1 THEN MatrixId(k) - 1 ELSE 0
    IN  [in |-> SubSeq(r.in, 3, Len(r.in)),
         set |-> IF sent = 0 THEN r.set
                 ELSE [r.set EXCEPT
                        !.lists[k] = r.set.lists[k - delta],
                        !.dc = IF HasDc(k)
                               THEN [@ EXCEPT ![k] = r.set.dc[k - delta]]
                               ELSE @]]

\* A list that is sent: its own first value, then one difference a place.
SentList(r, k) ==
    LET first == IF HasDc(k) THEN r.in[2] + 8 ELSE 8
        deltas == SubSeq(r.in, IF HasDc(k) THEN 3 ELSE 2, Len(r.in))
        count == ListSide(k) * ListSide(k)
        read == FoldLeft(
            LAMBDA s, i :
                LET nNextCoef == (s.nNextCoef + deltas[i] + 256) % 256
                IN  [nNextCoef |-> nNextCoef,
                     list |-> [s.list EXCEPT ![ScanOf(k)[i]] = nNextCoef]],
            [nNextCoef |-> first, list |-> r.set.lists[k]],
            [i \in 1..count |-> i])
    IN  [in |-> SubSeq(deltas, count + 1, Len(deltas)),
         set |-> [r.set EXCEPT
                    !.lists[k] = read.list,
                    !.dc = IF HasDc(k) THEN [@ EXCEPT ![k] = first] ELSE @,
                    !.bScalingListMatrixModified = TRUE]]

HevcParseScalingListData(in) ==
    FoldLeft(LAMBDA r, k : IF Head(r.in) = 0 THEN PredictedList(r, k)
                           ELSE SentList(r, k),
             [in |-> in, set |-> HevcScalingListDefaultData],
             [k \in 1..20 |-> k])

\* HevcSetScalingListReg: what the engine is told, and the lists it is given.
ScalingChoice(sps, pps) ==
    LET own == pps.bPpsScalingListDataPresentFlag
    IN  [flat |-> ~sps.bScalingListEnableFlag,
         default |->
            \/ ~own /\ ~sps.bSpsScalingListDataPresentFlag
            \/ /\ ~sps.scaling.bScalingListMatrixModified
               /\ own => ~pps.scaling.bScalingListMatrixModified,
         set |-> IF own THEN pps.scaling ELSE sps.scaling]
============================================================================
