------------------------------ MODULE MC_H265 ------------------------------
(* Groups of pictures for H265, as encoders write them.  want is what the   *)
(* H.265 standard (clauses 8.3.2 and 8.3.4) makes of their syntax: the      *)
(* places in display order of the pictures in each reference list.  The     *)
(* tables of H265ParamSets and H265Sram are checked against what the        *)
(* standard says of them.                                                   *)
EXTENDS H265, H265Sram

----------------------------------------------------------------------------
(* Coded pictures.  ord is the place in display order within the group.      *)

Used(minus1) == [minus1 |-> minus1, used |-> TRUE]
Kept(minus1) == [minus1 |-> minus1, used |-> FALSE]

Coding(neg, pos) == [kind |-> "coded", neg |-> neg, pos |-> pos]
OfSps(idx) == [kind |-> "sps", idx |-> idx]

Frame(type, slice, poc, ord, short, want) ==
    [ord |-> ord, type |-> type, tid |-> 0, slice |-> slice,
     lsb |-> poc % MaxPocLsb, output |-> TRUE, slices |-> 1, sps |-> 1,
     eos |-> FALSE, short |-> short, long |-> <<>>, want |-> want,
     lists |-> [l \in DOMAIN want |-> [n |-> Len(want[l]), mod |-> <<>>]]]

Key(type, poc, ord) == Frame(type, "I", poc, ord, Coding(<<>>, <<>>), <<>>)
Idr(ord, sps) == [Key("IDR_W_RADL", 0, ord) EXCEPT !.sps = sps]

P(type, poc, ord, short, want) == Frame(type, "P", poc, ord, short, <<want>>)
B(type, poc, ord, short, want) == Frame(type, "B", poc, ord, short, want)

----------------------------------------------------------------------------
(* Groups. *)

\* The sets of the sequence parameter set: the picture before, the two before.
MCStRps == <<CodedRps(<<Used(0)>>, <<>>), CodedRps(<<Used(0), Used(0)>>, <<>>)>>

\* Every picture refers to earlier ones; the last set is predicted from the
\* one of the sequence that holds the two pictures before.
LowDelay ==
    <<Idr(1, 1),
      [P("TRAIL_R", 1, 2, OfSps(1), <<1>>) EXCEPT !.slices = 2],
      P("TRAIL_R", 2, 3, OfSps(2), <<2, 1>>),
      P("TRAIL_R", 3, 4,
        [kind |-> "predicted", idx |-> 1, delta |-> -1,
         flags |-> <<[used |-> TRUE, useDelta |-> TRUE],
                     [used |-> FALSE, useDelta |-> FALSE],
                     [used |-> TRUE, useDelta |-> TRUE]>>], <<3, 2, 3>>),
      [P("TRAIL_N", 4, 5, Coding(<<Used(0), Used(1)>>, <<>>), <<2, 4>>)
        EXCEPT !.lists[1].mod = <<1, 0>>, !.slices = 2]>>

\* A hierarchy of pictures referred to on both sides.
Hierarchy ==
    <<Idr(1, 1),
      P("TRAIL_R", 4, 5, Coding(<<Used(3)>>, <<>>), <<1>>),
      B("TRAIL_R", 2, 3, Coding(<<Used(1)>>, <<Used(1)>>),
        <<<<1, 5>>, <<5, 1>>>>),
      B("TSA_N", 1, 2, Coding(<<Used(0)>>, <<Used(0), Used(1)>>),
        <<<<1, 3>>, <<3, 5>>>>),
      [B("TSA_N", 3, 4, Coding(<<Used(0), Kept(1)>>, <<Used(0)>>),
         <<<<3, 5>>, <<5>>>>) EXCEPT !.slices = 2]>>

\* An open group: pictures after the second key picture refer across it.
OpenGop ==
    <<Idr(1, 1),
      [Key("CRA_NUT", 4, 4) EXCEPT !.short = Coding(<<Kept(3)>>, <<>>)],
      B("RASL_N", 2, 2, Coding(<<Used(1)>>, <<Used(1)>>),
        <<<<1, 4>>, <<4, 1>>>>),
      P("RADL_N", 3, 3, Coding(<<>>, <<Used(0)>>), <<4>>),
      P("TRAIL_R", 5, 5, Coding(<<Used(0)>>, <<>>), <<4>>)>>

\* Leading pictures of an IDR.
Leading ==
    <<Idr(3, 1),
      P("RADL_R", -2, 1, Coding(<<>>, <<Used(1)>>), <<3>>),
      B("RADL_N", -1, 2, Coding(<<Used(0)>>, <<Used(0)>>),
        <<<<1, 3>>, <<3>>>>),
      P("TRAIL_R", 1, 4, Coding(<<Used(0)>>, <<>>), <<3>>)>>

\* Long-term references, by their least significant bits and in full.
LongTerm ==
    <<Idr(1, 1),
      P("TRAIL_R", 7, 2, Coding(<<Used(6)>>, <<>>), <<1>>),
      [P("TRAIL_R", 14, 3, Coding(<<Used(6)>>, <<>>), <<2, 1>>) EXCEPT
        !.long = <<[lsb |-> 0, msb |-> FALSE, cycle |-> 0, used |-> TRUE]>>],
      [P("TRAIL_R", 17, 4, Coding(<<Used(2)>>, <<>>), <<3, 2, 1>>) EXCEPT
        !.long = <<[lsb |-> 7, msb |-> TRUE, cycle |-> 1, used |-> TRUE],
                   [lsb |-> 0, msb |-> TRUE, cycle |-> 0, used |-> TRUE]>>]>>

\* A sequence that ends, and starts again with a key picture whose leading
\* pictures refer to nothing that is there.
Ended ==
    <<Idr(1, 1),
      [P("TRAIL_R", 1, 2, OfSps(1), <<1>>) EXCEPT !.eos = TRUE]>>

Restarted(type) ==
    <<Key(type, 4, 2),
      B("RASL_N", 3, 1, Coding(<<Used(1)>>, <<Used(0)>>),
        <<<<1, 2>>, <<2, 1>>>>),
      P("TRAIL_R", 5, 3, Coding(<<Used(0)>>, <<>>), <<2>>)>>

\* An intra picture within a group; the next picture refers to it and to the
\* key picture before it.
SceneCut ==
    <<Idr(1, 1),
      Frame("TRAIL_R", "I", 6, 2, Coding(<<Used(5)>>, <<>>), <<>>),
      P("TRAIL_R", 7, 3, Coding(<<Used(0), Used(5)>>, <<>>), <<2, 1>>)>>

\* Another sequence parameter set: of another resolution, or with other tools.
Changed(sps) == <<Idr(1, sps), P("TRAIL_R", 1, 2, OfSps(1), <<1>>)>>

MCStreams ==
    {<<Ended, Hierarchy>>, <<Hierarchy, OpenGop>>, <<OpenGop, Leading>>,
     <<LongTerm, Ended, Restarted("CRA_NUT")>>,
     <<Ended, Restarted("BLA_W_RADL")>>, <<Hierarchy, Changed(2)>>,
     <<LowDelay, Changed(11)>>}

MCSceneCut == {<<Ended, SceneCut>>}

----------------------------------------------------------------------------
(* The bytes of a parameter set, escaped as an encoder does. *)

RECURSIVE Escaped(_, _)
Escaped(bytes, zeroes) ==
    IF bytes = <<>> THEN <<>>
    ELSE LET b == Head(bytes)
             more == IF b = 0 THEN (zeroes % 2) + 1 ELSE 0
         IN  IF zeroes = 2 /\ b <= 3
             THEN <<3, b>> \o Escaped(Tail(bytes), IF b = 0 THEN 1 ELSE 0)
             ELSE <<b>> \o Escaped(Tail(bytes), more)

Payloads == UNION {[1..n -> {0, 1, 3, 4}] : n \in 1..5}

\* Whatever the bytes of a parameter set and wherever it lies in the ring,
\* over its end too, the parser reads the bytes the encoder escaped
\* (HevcGetPreprocessData).
PayloadWhole ==
    \A payload \in Payloads :
        LET bytes == Escaped(payload, 0)
            n == Len(bytes)
        IN  \A start \in 1 .. n + 1 :
                LET ring == [k \in 1 .. n + 1 |->
                                IF (k - start) % (n + 1) = n THEN 3
                                ELSE bytes[((k - start) % (n + 1)) + 1]]
                IN  IsPrefix(payload, HevcGetPreprocessData(ring, start, n))

----------------------------------------------------------------------------
(* Tiles: every way to divide small pictures. *)

Widths(n, size) == {s \in [1 .. n - 1 -> 1..size] : Total(s) < size}

TiledPps(w, hgt) ==
    [bUniformSpacingFlag : {TRUE}, nNumTileColums : 1..w,
     nNumTileRows : 1..hgt, columns : {<<>>}, rows : {<<>>}]
    \cup UNION {[bUniformSpacingFlag : {FALSE}, nNumTileColums : {c},
                 nNumTileRows : {r}, columns : Widths(c, w),
                 rows : Widths(r, hgt)] : c \in 1..w, r \in 1..hgt}

SpsSize(w, hgt) == [nCtbWidth |-> w, nCtbHeight |-> hgt]

\* Tile t of n, of a coding, in one direction from a to b.
SizedAs(uniform, n, given, size, t, a, b) ==
    IF uniform THEN /\ b - a + 1 \in {size \div n, (size + n - 1) \div n}
                    /\ t = n - 1 => b = size - 1
    ELSE IF t = n - 1 THEN b = size - 1
    ELSE b - a + 1 = given[t + 1]

\* Whatever the tiles, evenly spaced or not, they divide the picture as they
\* were coded, and the CTBs are numbered tile by tile and row by row in each
\* (HevcDecodeNalPps).
TilesScanned ==
    \A w \in 1..5, hgt \in 1..3 : \A pps \in TiledPps(w, hgt) :
        LET t == HevcDecodeNalPpsTiles(pps, SpsSize(w, hgt))
            ctbs == 0 .. w * hgt - 1
            x(a) == a % w
            y(a) == a \div w
            id(a) == t.TileIdInRs[a]
            before(a, b) ==
                \/ id(a) < id(b)
                \/ id(a) = id(b) /\ y(a) < y(b)
                \/ id(a) = id(b) /\ y(a) = y(b) /\ x(a) < x(b)
        IN  /\ TilesFit(pps, SpsSize(w, hgt))
            /\ \A a \in ctbs :
                LET tile == t.TilePosInfo[id(a)]
                    ts == t.CtbAddrRsToTs[a]
                IN  /\ x(a) \in tile.start[1] .. tile.end[1]
                    /\ y(a) \in tile.start[2] .. tile.end[2]
                    /\ ts = Cardinality({b \in ctbs : before(b, a)})
                    /\ t.CtbAddrTsToRs[ts] = a
            /\ \A i \in DOMAIN t.TilePosInfo :
                LET tile == t.TilePosInfo[i]
                IN  /\ t.TilePositionRs[i] =
                            tile.start[2] * w + tile.start[1]
                    /\ SizedAs(pps.bUniformSpacingFlag, pps.nNumTileColums,
                               pps.columns, w, i % pps.nNumTileColums,
                               tile.start[1], tile.end[1])
                    /\ SizedAs(pps.bUniformSpacingFlag, pps.nNumTileRows,
                               pps.rows, hgt, i \div pps.nNumTileColums,
                               tile.start[2], tile.end[2])

\* The slices of a picture of n tiles when those after cuts start one.
CutSlices(n, cuts) ==
    LET starts == SetToSortSeq(cuts \cup {0}, <)
    IN  [k \in DOMAIN starts |->
            [first |-> starts[k],
             last |-> IF k = Len(starts) THEN n - 1 ELSE starts[k + 1] - 1]]

\* Whatever whole tiles each slice of a picture has, the engine finds the
\* first tile of the slice in its registers and each other one, with the
\* length of the one before, at its place in the table, and the slices' tables
\* do not overlap (HevcSetTilesInfoReg).
EntriesReach ==
    \A pps \in {q \in TiledPps(4, 3) :
                    q.nNumTileColums * q.nNumTileRows <= 6} :
      \A t \in {HevcDecodeNalPpsTiles(pps, SpsSize(4, 3))} :
        LET n == pps.nNumTileColums * pps.nNumTileRows
        IN  \A cuts \in SUBSET (1 .. n - 1) :
            LET slices == CutSlices(n, cuts)
                header(s) == [nSliceSegmentAddr |-> t.TilePositionRs[s.first],
                              bEntropyCodingSyncEnabledFlag |-> FALSE,
                              EntryPointOffset |->
                                [j \in 1 .. s.last - s.first |->
                                    100 + s.first + j]]
                add(r, o) == [m |-> o.m, out |-> Append(r.out, o)]
            IN  \A run \in {FoldLeft(
                    LAMBDA r, s :
                        add(r, HevcSetTilesInfoReg(r.m, t, header(s))),
                    [m |-> NoEntries, out |-> <<>>], slices)} :
                \A k \in DOMAIN slices :
                    /\ run.out[k].first = t.TilePosInfo[slices[k].first]
                    /\ \A j \in 1 .. slices[k].last - slices[k].first :
                        LET at == run.out[k].table + 4 * (j - 1)
                            tile == t.TilePosInfo[slices[k].first + j]
                        IN  [b \in 1..4 |-> run.m.words[at + b - 1]] =
                                <<100 + slices[k].first + j, 0,
                                  tile.start, tile.end>>

----------------------------------------------------------------------------
(* Scaling lists, as the standard codes and uses them (clauses 7.3.4 and     *)
(* 6.5.3): a coefficient is a column and a row, from 0.                      *)

Coefs(k) == (0 .. ListSide(k) - 1) \X (0 .. ListSide(k) - 1)

\* The coefficients of a list in the order of their values: diagonal by
\* diagonal, each from its lower left end.
Diagonal(side) ==
    LET coefs == (0 .. side - 1) \X (0 .. side - 1)
        key(c) == (c[1] + c[2]) * side + c[1]
        place == [c \in coefs |-> Cardinality({b \in coefs : key(b) < key(c)})]
    IN  [i \in 1 .. side * side |-> CHOOSE c \in coefs : place[c] = i - 1]

Diagonals == [side \in {4, 8} |-> Diagonal(side)]

\* A list is the default one, that of d lists before, or sent: seed tells
\* those of two sets apart.
ByDefault == [kind |-> "default"]
Copied(d) == [kind |-> "copied", d |-> d]
Sent(seed) == [kind |-> "sent", seed |-> seed]

LeadsSize(k) == MatrixId(k) = 0

Codings ==
    {[k \in 1..20 |-> ByDefault],
     [k \in 1..20 |-> Sent(1)],
     [k \in 1..20 |-> IF LeadsSize(k) THEN Sent(2) ELSE Copied(1)],
     [k \in 1..20 |-> IF LeadsSize(k) THEN Sent(3) ELSE Copied(MatrixId(k))],
     [k \in 1..20 |-> CASE k % 3 = 0 -> ByDefault [] k % 3 = 1 -> Sent(4)
                        [] OTHER -> IF LeadsSize(k) THEN ByDefault
                                    ELSE Copied(1)],
     [k \in 1..20 |-> IF k = 20 THEN Sent(5) ELSE ByDefault]}

SentValue(seed, k, c) ==
    ((seed * 101 + k * 13 + c[1] * 37 + c[2] * 90) % 255) + 1
SentDc(seed, k) == ((seed * 7 + k * 31) % 255) + 1

\* The list as the standard decodes it.
RECURSIVE ListOf(_, _)
ListOf(coding, k) ==
    LET c == coding[k]
    IN  CASE c.kind = "default" ->
                [of |-> [x \in Coefs(k) |->
                            IF k <= 6 THEN 16
                            ELSE IF k \in {7, 8, 9, 13, 14, 15, 19} THEN 115
                            ELSE 91], dc |-> 16]
          [] c.kind = "copied" -> ListOf(coding, k - c.d)
          [] c.kind = "sent" ->
                [of |-> [x \in Coefs(k) |-> SentValue(c.seed, k, x)],
                 dc |-> SentDc(c.seed, k)]

\* The coding of list k: differences from -128 to 127.
ListSyntax(coding, k) ==
    LET c == coding[k]
        scan == Diagonals[ListSide(k)]
        value(i) == IF i = 0 THEN IF HasDc(k) THEN SentDc(c.seed, k) ELSE 8
                    ELSE SentValue(c.seed, k, scan[i])
    IN  CASE c.kind = "default" -> <<0, 0>>
          [] c.kind = "copied" -> <<0, c.d>>
          [] c.kind = "sent" ->
                <<1>> \o (IF HasDc(k) THEN <<SentDc(c.seed, k) - 8>> ELSE <<>>)
                \o [i \in 1 .. Len(scan) |->
                        ((value(i) - value(i - 1) + 128) % 256) - 128]

SetSyntax(coding) == FlattenSeq([k \in 1..20 |-> ListSyntax(coding, k)])

ParsedSets == [c \in Codings |-> HevcParseScalingListData(SetSyntax(c)).set]

\* Where the engine has list k, and the value it has for coefficient c of it.
ListBase(k) == HEVC_SCALING_MATRIX_ADDR +
    CASE k <= 6 -> 896 + 16 * (k - 1)
      [] k \in 7..12 -> 64 * (k - 7)
      [] k \in 13..18 -> 512 + 64 * (k - 13)
      [] k \in 19..20 -> 384 + 64 * (k - 19)

InSram(sram, k, c) ==
    LET n == c[1] * ListSide(k) + c[2]
    IN  sram[ListBase(k) + 4 * (n \div 4)][(n % 4) + 1]

\* Its register for the first coefficient.
DcOf(dc, k) == CASE k \in 13..14 -> dc[1][k - 12]
                 [] k \in 15..18 -> dc[2][k - 14]
                 [] k \in 19..20 -> dc[1][k - 16]

\* A set that gives lists but sends none of its own is left out: the engine
\* is told to use the default lists.
Scaled(c, present) ==
    [bScalingListEnableFlag |-> TRUE,
     bSpsScalingListDataPresentFlag |-> present,
     bPpsScalingListDataPresentFlag |-> present,
     scaling |-> IF present THEN ParsedSets[c]
                 ELSE HevcScalingListDefaultData]

\* Whatever lists the two parameter sets code, in whatever way, the engine
\* scales with those the standard says, the default ones if told so
\* (HevcParseScalingListData, HevcSetScalingListReg).
ScalingReach ==
    \A s \in Codings, p \in Codings, ofSps, ofPps \in BOOLEAN :
      \A choice \in {ScalingChoice(Scaled(s, ofSps), Scaled(p, ofPps))} :
      \A out \in {HevcSetScalingListReg(EmptySram, choice)} :
        LET none == [k \in 1..20 |-> ByDefault]
            coding == IF ofPps THEN p ELSE IF ofSps THEN s ELSE none
        IN  /\ ~choice.flat
            /\ choice.default => coding = none
            /\ \A k \in 1..20 :
                \A list \in {ListOf(coding, k)} :
                    /\ \A c \in Coefs(k) : InSram(out.sram, k, c) = list.of[c]
                    /\ HasDc(k) => DcOf(out.dc, k) = list.dc

----------------------------------------------------------------------------
(* Slices: their pictures, references and weights. *)

FrameAt(i) == [nIndex |-> i, nPoc |-> 8 * i, mv |-> <<"mv", i>>,
               buffers |-> <<<<"luma", i>>, <<"chroma", i>>>>]

\* Which of the weights of a reference are sent.
Sends(kind, i) ==
    CASE kind = "all" -> <<TRUE, TRUE>>
      [] kind = "none" -> <<FALSE, FALSE>>
      [] kind = "mixed" -> <<i % 2 = 0, i % 3 # 0>>

Delta(l, i, c) == ((37 * l + 53 * i + 71 * c) % 256) - 128
Offset(l, i, c) == IF c = 1 THEN ((29 * i + l) % 256) - 128
                   ELSE ((211 * i + 100 * c + l) % 1024) - 512

WeightSyntax(kind, l, n) ==
    LET flag(i, c) == IF Sends(kind, i)[c] THEN 1 ELSE 0
    IN  [i \in 1..n |-> flag(i, 1)] \o [i \in 1..n |-> flag(i, 2)]
        \o FlattenSeq([i \in 1..n |->
            (IF Sends(kind, i)[1] THEN <<Delta(l, i, 1), Offset(l, i, 1)>>
             ELSE <<>>)
            \o IF Sends(kind, i)[2]
               THEN <<Delta(l, i, 2), Offset(l, i, 2),
                      Delta(l, i, 3), Offset(l, i, 3)>>
               ELSE <<>>])

RefList(l, n) == [i \in 1..n |-> [index |-> (5 * i + l) % 20,
                                  long |-> i % 4 = l]]

Headers ==
    [type : {"I"}, n : {<<>>}, kind : {"none"}, denom : {<<0, 0>>}]
    \cup [type : {"P"}, n : {<<a>> : a \in {1, 2, 5, 16}},
          kind : {"all", "none", "mixed"}, denom : {<<0, 0>>, <<5, 2>>}]
    \cup [type : {"B"}, n : {1, 3, 15} \X {2, 4, 16},
          kind : {"all", "mixed"}, denom : {<<7, -7>>, <<3, 1>>}]

SliceOf(hd) ==
    [type |-> hd.type, frames |-> [i \in 1..20 |-> FrameAt(i - 1)],
     lists |-> [l \in DOMAIN hd.n |-> RefList(l, hd.n[l])],
     in |-> (IF hd.type = "I" THEN <<>> ELSE hd.denom
             \o FlattenSeq([l \in DOMAIN hd.n |->
                                WeightSyntax(hd.kind, l, hd.n[l])]))
            \o <<"rest">>]

\* The offset of a component, as the standard decodes it: that of chroma is
\* coded as its difference from what keeps the middle value.
OffsetOf(l, i, c, denom) ==
    IF c = 1 THEN Offset(l, i, 1)
    ELSE LET o == Offset(l, i, c) - ((128 * Delta(l, i, c)) \div 2^denom)
         IN  IF o < -128 THEN -128 ELSE IF o > 127 THEN 127 ELSE o

WeightBytes(hd, l, i, c) ==
    IF Sends(hd.kind, i)[IF c = 1 THEN 1 ELSE 2]
    THEN <<Delta(l, i, c) % 256,
           OffsetOf(l, i, c, hd.denom[1] + hd.denom[2]) % 256>>
    ELSE <<0, 0>>

\* The two bytes at place a.
HalfWord(sram, a) == LET w == sram[4 * (a \div 4)]
                     IN  IF a % 4 = 0 THEN SubSeq(w, 1, 2) ELSE SubSeq(w, 3, 4)

\* The parameter sets of all these slices: no tiles, scaling lists of a set.
SlicePps == [bTilesEnabledFlag |-> FALSE, bWeightedPredFlag |-> TRUE,
             bWeightedBipredFlag |-> TRUE,
             bPpsScalingListDataPresentFlag |-> FALSE]

\* Whatever the slice, the engine has every picture, every reference and the
\* weights of each where it looks for them, whatever is written after them,
\* and the rest of the slice's header is read from where the weights end
\* (HevcDecodeOneSlice, HevcParseWeightTable2).
SramAsLaid265 ==
    \A hd \in Headers :
        LET s == SliceOf(hd)
            sps == Scaled([k \in 1..20 |-> Sent(1)], TRUE)
        IN  \A out \in {HevcDecodeOneSlice(EmptySram, NoEntries, sps, SlicePps,
                                           s)} :
            /\ out.in = <<"rest">>
            /\ \A i \in 0..19 : [n \in 1..6 |->
                    out.sram[HEVC_FRM_BUF_INFO_ADDR + 32 * i + 4 * (n - 1)]] =
                    <<8 * i, 8 * i, <<"mv", i>>, <<"mv", i>>,
                      <<"luma", i>>, <<"chroma", i>>>>
            /\ \A l \in DOMAIN hd.n : \A i \in 1 .. hd.n[l] :
                /\ out.sram[HEVC_REF_LIST_ADDR + 16 * (l - 1)
                            + 4 * ((i - 1) \div 4)][((i - 1) % 4) + 1] =
                        s.lists[l][i]
                /\ LET at == HEVC_WEIGHT_PRED_PARAM_ADDR + 96 * (l - 1)
                   IN  /\ HalfWord(out.sram, at + 2 * (i - 1)) =
                            WeightBytes(hd, l, i, 1)
                       /\ \A c \in {2, 3} :
                            HalfWord(out.sram,
                                     at + 32 + 4 * (i - 1) + 2 * (c - 2)) =
                                WeightBytes(hd, l, i, c)
            /\ \A k \in 1..20 : \A c \in Coefs(k) :
                    InSram(out.sram, k, c) = SentValue(1, k, c)

\* From the bytes of the parameter sets and slice headers to the tables that
\* the engine reads: every tile, entry point, list, weight and reference is
\* what was coded.  Functions without state: it is enough to look at them
\* when playback starts.
TablesAsCoded ==
    next = 1 =>
        /\ PayloadWhole /\ TilesScanned /\ EntriesReach
        /\ ScalingReach /\ SramAsLaid265

============================================================================
