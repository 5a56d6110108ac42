------------------------------ MODULE MC_H264 ------------------------------
(* Groups of pictures for H264, with the reference lists the H.264 standard *)
(* (clauses 8.2.4 and 8.2.5) gives their slices.                            *)
EXTENDS H264, H264ParamSets, H264Sram

----------------------------------------------------------------------------
(* Coded pictures.  ord is the place in display order within the group. *)

Picture(type, ref, frm, ord, lsb) ==
    [ord |-> ord, idr |-> FALSE, ref |-> ref, type |-> type, frm |-> frm,
     pocType |-> 0, lsb |-> lsb % MaxPocLsb, poc |-> lsb, deltaBottom |-> 0,
     struct |-> PICT_FRAME, mmco |-> <<>>, commands |-> NoLists,
     nRefCount |-> CASE type = "I" -> <<0, 0>> [] type = "P" -> <<2, 0>>
                     [] type = "B" -> <<2, 2>>,
     slices |-> 1, info |-> FALSE]

Idr == [Picture("I", TRUE, 0, 0, 0) EXCEPT !.idr = TRUE]
P(frm, ord, lsb) == Picture("P", TRUE, frm, ord, lsb)
B(frm, ord, lsb) == Picture("B", FALSE, frm, ord, lsb)
RefB(frm, ord, lsb) == Picture("B", TRUE, frm, ord, lsb)

Top(p) == [p EXCEPT !.struct = PICT_TOP_FIELD]
Bottom(p) == [p EXCEPT !.struct = PICT_BOTTOM_FIELD]
Sliced(p) == [p EXCEPT !.slices = 2]
Op(op, picNum, long) == [op |-> op, picNum |-> picNum, long |-> long]
Marking(p, ops) == [p EXCEPT !.mmco = ops]
Commands(p, l0) == [p EXCEPT !.commands[1] = l0]

----------------------------------------------------------------------------
(* The standard's decoded picture buffer: frames with the fields marked as   *)
(* used for short-term and for long-term reference.                          *)

StdPicNum(p) == IF p.struct = PICT_FRAME THEN p.frm ELSE 2 * p.frm + 1

FrameNumWrap(f, p) == IF f.frm > p.frm THEN f.frm - MaxFrmNum ELSE f.frm

\* The frame a picture number means and the fields of it.
Meant(f, p, num) ==
    CASE p.struct = PICT_FRAME -> IF FrameNumWrap(f, p) = num THEN 3 ELSE 0
      [] p.struct # PICT_FRAME /\ num = 2 * FrameNumWrap(f, p) + 1 -> p.struct
      [] p.struct # PICT_FRAME /\ num = 2 * FrameNumWrap(f, p) ->
            3 - p.struct
      [] OTHER -> 0

Less(mask, fields) == mask - And(mask, fields)

StdOp(S, p, op) ==
    LET num == StdPicNum(p) - op.picNum IN
    CASE op.op = "SHORT_TO_UNUSED" ->
            {[f EXCEPT !.short = Less(@, Meant(f, p, num))] : f \in S}
      [] op.op = "SHORT_TO_LONG" ->
            {IF Meant(f, p, num) # 0
             THEN [f EXCEPT !.long = Or(@, Meant(f, p, num)), !.lt = op.long,
                            !.short = Less(@, Meant(f, p, num))]
             ELSE IF f.lt = op.long THEN [f EXCEPT !.long = 0, !.lt = -1]
             ELSE f : f \in S}
      [] op.op = "LONG_TO_UNUSED" ->
            {IF p.struct = PICT_FRAME /\ f.lt = op.long
             THEN [f EXCEPT !.long = 0, !.lt = -1] ELSE f : f \in S}
      [] op.op = "SET_MAX_LONG" ->
            {IF f.lt >= op.long THEN [f EXCEPT !.long = 0, !.lt = -1]
             ELSE f : f \in S}
      [] OTHER -> S

IsRef(f) == f.short # 0 \/ f.long # 0

\* Marking of p itself after S has been marked: a second field joins the
\* frame of the first.
StdCurrent(S, p, lt) ==
    LET first == {f \in S : f.ord = p.ord}
        old == IF first = {}
               THEN [ord |-> p.ord, frm |-> p.frm, poc |-> p.poc,
                     short |-> 0, long |-> 0, lt |-> lt]
               ELSE CHOOSE f \in first : TRUE
    IN  (S \ first) \cup
        {IF lt = -1 THEN [old EXCEPT !.short = Or(@, p.struct)]
         ELSE [old EXCEPT !.long = Or(@, p.struct)]}

StdMark(S, p) ==
    LET adaptive == FoldLeft(LAMBDA T, op : StdOp(T, p, op), S, p.mmco)
        second == \E f \in S : f.ord = p.ord
        shorts == {f \in S : f.short # 0}
        oldest == CHOOSE f \in shorts : \A g \in shorts :
                     FrameNumWrap(f, p) <= FrameNumWrap(g, p)
        slid == IF ~second /\ Cardinality({f \in S : IsRef(f)}) >= nRefFrmCount
                THEN {IF f = oldest THEN [f EXCEPT !.short = 0] ELSE f :
                         f \in S}
                ELSE S
        longs == {op \in Range(p.mmco) : op.op = "LONG"}
        lt == IF longs = {} THEN -1 ELSE (CHOOSE op \in longs : TRUE).long
        T == CASE ~p.ref -> S
               [] p.idr -> StdCurrent({}, p, IF p.mmco = <<>> THEN -1 ELSE 0)
               [] OTHER -> StdCurrent(IF p.mmco = <<>> THEN slid ELSE adaptive,
                                      p, lt)
    IN  {f \in T : IsRef(f)}

----------------------------------------------------------------------------
(* The standard's lists, sequences of <<ord, fields>>. *)

\* Frames of F in the order of by, as frames or as fields in turns.
Laid(F, p, mask(_), by(_, _)) ==
    LET frames == SetToSortSeq(
                     {f \in F : IF p.struct = PICT_FRAME THEN mask(f) = 3
                                ELSE mask(f) # 0}, by)
        of(fields) == LET has(f) == And(mask(f), fields) # 0
                          s == SelectSeq(frames, has)
                      IN  [k \in DOMAIN s |-> <<s[k].ord, fields>>]
    IN  IF p.struct = PICT_FRAME
        THEN [k \in DOMAIN frames |-> <<frames[k].ord, 3>>]
        ELSE LET a == of(p.struct)
                 b == of(3 - p.struct)
                 m == IF Len(a) < Len(b) THEN Len(a) ELSE Len(b)
             IN  [k \in 1..Len(a) + Len(b) |->
                     IF k <= 2 * m
                     THEN IF k % 2 = 1 THEN a[(k + 1) \div 2] ELSE b[k \div 2]
                     ELSE IF Len(a) > m THEN a[k - m] ELSE b[k - m]]

StdInit(S, p) ==
    LET short(f) == f.short
        long(f) == f.long
        none(f, g) == FALSE
        later(f, g) == FrameNumWrap(f, p) > FrameNumWrap(g, p)
        down(f, g) == f.poc > g.poc
        up(f, g) == f.poc < g.poc
        byLong(f, g) == f.lt < g.lt
        longs == Laid(S, p, long, byLong)
        \* For fields the frames are put in order before the fields are.
        rank(f, list) == CHOOSE k \in DOMAIN list : list[k] = f
        F == {f \in S : f.short # 0}
        before == SetToSortSeq({f \in F : f.poc <= p.poc}, down)
        after == SetToSortSeq({f \in F : f.poc > p.poc}, up)
        list(s) == Laid(F, p, short,
                        LAMBDA f, g : rank(f, s) < rank(g, s)) \o longs
        apart(l0, l1) ==
            <<l0, IF l1 = l0 /\ Len(l1) > 1
                  THEN <<l1[2], l1[1]>> \o SubSeq(l1, 3, Len(l1)) ELSE l1>>
    IN  CASE p.type = "I" -> NoLists
          [] p.type = "P" -> <<Laid(S, p, short, later) \o longs, <<>>>>
          [] p.type = "B" -> apart(list(before \o after),
                                   list(after \o before))

\* Modification: the picture a command means goes to its place, and is taken
\* out of the places after it.
StdModify(S, p, init) ==
    LET size == p.nRefCount[1]
        maxNum == IF p.struct = PICT_FRAME THEN MaxFrmNum ELSE 2 * MaxFrmNum
        wrap(n) == IF n > StdPicNum(p) THEN n - maxNum ELSE n
        step(a, op) ==
            LET pred == CASE op.op = "sub" -> (a.pred - op.num) % maxNum
                          [] op.op = "add" -> (a.pred + op.num) % maxNum
                          [] OTHER -> a.pred
                meant == {<<f.ord, Meant(f, p, wrap(pred))>> :
                             f \in {g \in S : g.short # 0
                                       /\ Meant(g, p, wrap(pred)) # 0}}
                long == {<<f.ord, 3>> : f \in {g \in S : g.lt = op.num}}
                e == CHOOSE x \in (IF op.op = "long" THEN long ELSE meant) :
                        TRUE
                other(x) == x # e
                rest == SelectSeq(SubSeq(a.list, a.at, Len(a.list)), other)
            IN  [pred |-> pred, at |-> a.at + 1,
                 list |-> SubSeq(a.list, 1, a.at - 1) \o <<e>> \o rest]
    IN  FoldLeft(step, [pred |-> StdPicNum(p), at |-> 1, list |-> init],
                 p.commands[1]).list

StdLists(S, p) ==
    LET init == StdInit(S, p)
        cut(list, n) == [k \in 1..n |-> IF k \in DOMAIN list THEN list[k]
                                        ELSE <<0, 0>>]
    IN  [l \in 1..2 |-> cut(IF l = 1 THEN StdModify(S, p, init[1]) ELSE init[2],
                            p.nRefCount[l])]

\* A group with the lists its slices are coded with.
WithLists(gop) ==
    FoldLeft(LAMBDA a, p :
                [S |-> StdMark(IF p.idr THEN {} ELSE a.S, p),
                 out |-> Append(a.out, p @@ [lists |-> StdLists(a.S, p)])],
             [S |-> {}, out |-> <<>>], gop).out

----------------------------------------------------------------------------
(* The groups, for two reference frames. *)

Sliding == <<Sliced(Idr), Sliced(P(1, 1, 2)), P(2, 2, 4), P(3, 3, 6)>>

Reordered == <<[Idr EXCEPT !.info = TRUE], P(1, 3, 6), B(2, 1, 2),
               Sliced(B(2, 2, 4)), P(2, 4, 8)>>

Pyramid == <<Idr, P(1, 4, 8), RefB(2, 2, 4), B(3, 1, 2), B(3, 3, 6),
             P(3, 5, 10)>>

Fields == <<Top(Idr), Bottom(P(0, 0, 1)), Top(P(1, 2, 4)),
            Bottom(P(1, 2, 5)), Top(B(2, 1, 2)), Bottom(B(2, 1, 3))>>

PFields == <<Top(Idr), Bottom(P(0, 0, 1)), Top(P(1, 1, 2)),
             Bottom(P(1, 1, 3)), Top(P(2, 2, 4)), Bottom(P(2, 2, 5)),
             Top(P(3, 3, 6)), Bottom(P(3, 3, 7)), Top(P(4, 4, 8)),
             Bottom(P(4, 4, 9))>>

\* Picture order count of type 2, and a picture nothing refers to.
Counted ==
    LET type2(p, poc) == [p EXCEPT !.pocType = 2, !.poc = poc] IN
    <<type2(Idr, 0), type2(P(1, 1, 0), 2),
      [type2(P(2, 2, 0), 3) EXCEPT !.ref = FALSE], type2(P(2, 3, 0), 4)>>

LongTerm == <<Marking(Idr, <<Op("LONG", 0, 0)>>), P(1, 1, 2), P(2, 2, 4),
              Commands(P(3, 3, 6), <<[op |-> "long", num |-> 0]>>)>>

Adaptive == <<Idr,
              Marking(P(1, 1, 2), <<Op("SET_MAX_LONG", 0, 2),
                                    Op("SHORT_TO_LONG", 1, 0)>>),
              P(2, 2, 4),
              Marking(P(3, 3, 6), <<Op("LONG_TO_UNUSED", 0, 0)>>),
              Commands(P(4, 4, 8), <<[op |-> "sub", num |-> 2]>>)>>

\* The first field of a frame takes back the marking of one field.
FieldMarking == <<Top(Idr), Bottom(P(0, 0, 1)),
                  Marking(Top(P(1, 1, 2)), <<Op("SHORT_TO_UNUSED", 3, 0)>>),
                  Bottom(P(1, 1, 3)), Top(P(2, 2, 4)), Bottom(P(2, 2, 5))>>

McStreams ==
    {[n \in 1..2 |-> WithLists(gops[n])] : gops \in
        {<<g, Sliding>> : g \in {Reordered, Pyramid, Fields, PFields, Counted,
                                LongTerm, Adaptive, FieldMarking}}
        \cup {<<Sliding, Reordered>>}}

----------------------------------------------------------------------------
(* Scaling lists.  A coded list is "absent", "preset" or its values in the   *)
(* order of the standard's zig-zag scan with the number that is sent, the    *)
(* last of which is repeated.                                                *)

\* The place of column x and row y in the scan: along the diagonals.
ZigZag(side, x, y) ==
    Cardinality({p \in (0 .. side - 1) \X (0 .. side - 1) :
        \/ p[1] + p[2] < x + y
        \/ p[1] + p[2] = x + y /\ IF (x + y) % 2 = 1 THEN p[2] < y
                                  ELSE p[1] < x}) + 1

ZigZags == [side \in {4, 8} |->
    [n \in 0 .. side * side - 1 |-> ZigZag(side, n % side, n \div side)]]

Signed(d) == ((d + 128) % 256) - 128

ListBits(coded) ==
    CASE coded = <<"absent">> -> <<0>>
      [] coded = <<"preset">> -> <<1, -8>>
      [] OTHER ->
            LET v == coded[1]
                n == coded[2]
            IN  <<1>> \o [k \in 1..n |-> IF k = 1 THEN Signed(v[1] - 8)
                                         ELSE Signed(v[k] - v[k - 1])]
                     \o IF n < Len(v) THEN <<Signed(-v[n])>> ELSE <<>>

Raster(k, v) == [n \in 0 .. ListSize(k) - 1 |-> v[ZigZags[Side(k)][n]]]

Values(k, first, step, n) ==
    <<[m \in 1..ListSize(k) |->
         ((first + step * (IF m <= n THEN m ELSE n)) % 255) + 1], n>>

SentLists(k) ==
    {Values(k, first, step, n) : first \in {0, 7, 200}, step \in {0, 1, 77, 254},
                                 n \in {1, 2, 9, ListSize(k)}}

\* Every list that is sent arrives, each factor in its place, and the syntax
\* elements behind it are left (H264DecodeScalingList).
ListsArrive ==
    \A k \in {1, 4, 7, 8} : \A coded \in SentLists(k) \cup
                                {<<"absent">>, <<"preset">>} :
        LET read == H264DecodeScalingList(ListBits(coded) \o <<7>>, k,
                                          Constant(k, 3))
        IN  /\ read.in = <<7>>
            /\ read.list = CASE coded = <<"absent">> -> Constant(k, 3)
                             [] coded = <<"preset">> -> DefaultList(k)
                             [] OTHER -> Raster(k, coded[1])

\* What follows the part of a picture parameter set that is always there is
\* read exactly when it was sent, whatever byte the set ends in
\* (H264DecodePps, H264CheckMoreRbspData, H264DecodeRbspTraiLing).
ExtensionSeen ==
    \A offset \in 8..24, bit \in {0, 1}, zeros \in {0, 8} :
    \A sent \in {<<>>, <<0, 0, 1>>, <<1, 0, 1>>, <<0, 0, 0, 1, 0>>,
                 <<1, 0, 0, 0, 1, 0, 1>>,
                 <<1, 1, 0, 0, 0, 0, 0, 0, 0, 0, 0, 0, 1>>} :
        LET coded == [n \in 1..offset |-> bit] \o sent \o <<1>>
            pad == [n \in 1 .. ((-Len(coded)) % 8) + zeros |-> 0]
        IN  MoreInPps([profile |-> 100, bConstraintSetFlags |-> 0],
                      coded \o pad, offset) <=> sent # <<>>

----------------------------------------------------------------------------
(* The lists of parameter sets, as the standard derives them (7.4.2.1.1 and  *)
(* 7.4.2.2): a set has no lists, <<>>, or eight coded lists.                *)

StdList(k, coded, lists, fall) ==
    CASE coded = <<"preset">> -> DefaultList(k)
      [] coded = <<"absent">> -> IF k \in {1, 4, 7, 8} THEN fall[k]
                                 ELSE lists[k - 1]
      [] OTHER -> Raster(k, coded[1])

StdScaling(codeds, fall) ==
    FoldLeft(LAMBDA lists, k : Append(lists, StdList(k, codeds[k], lists, fall)),
             <<>>, [k \in 1..8 |-> k])

Defaults == [k \in 1..8 |-> DefaultList(k)]

StdSps(sps) == IF sps.codeds = <<>> THEN Sixteens
               ELSE StdScaling(sps.codeds, Defaults)
StdPps(sps, pps) ==
    IF pps.codeds = <<>> THEN StdSps(sps)
    ELSE StdScaling(pps.codeds, IF sps.codeds = <<>> THEN Defaults
                              ELSE StdSps(sps))

AllAbsent == [k \in 1..8 |-> <<"absent">>]
OneSent(k) == [AllAbsent EXCEPT ![k] = Values(k, 7, 3, 5)]
MixSent == [AllAbsent EXCEPT ![2] = Values(2, 20, 9, 16), ![4] = <<"preset">>,
                             ![5] = Values(5, 3, 1, 1), ![8] = Values(8, 9, 2, 3)]
Codeds == {<<>>, AllAbsent, OneSent(1), OneSent(7), MixSent}

SetBits(codeds, count) ==
    IF codeds = <<>> THEN <<0>>
    ELSE <<1>> \o FlattenSeq([k \in 1..count |-> ListBits(codeds[k])])

SpsBits == [codeds \in Codeds |-> SetBits(codeds, 8)]
PpsBits == [codeds \in Codeds |-> [t \in BOOLEAN |->
                SetBits(codeds, IF t THEN 8 ELSE 6)]]

SpsOf(codeds) ==
    [id |-> 0, profile |-> 100, bConstraintSetFlags |-> 0, chroma |-> 1,
     codeds |-> codeds, scaling |-> SpsBits[codeds]]

\* ext: whether there is anything behind the part that is always there.
PpsOf(id, codeds, t, ext) ==
    LET coded == <<1, 0, 1, 1, 0, 1, 1, 0, 1>> \o
                 (IF ext THEN <<IF t THEN 1 ELSE 0, 0, 1>> ELSE <<>>) \o <<1>>
    IN  [id |-> id, sps |-> 0, nSliceGroupCount |-> 1, nRefCount |-> <<1, 1>>,
         codeds |-> codeds, bTransform8x8Mode |-> t, offset |-> 9,
         scaling |-> PpsBits[codeds][t],
         buf |-> coded \o [n \in 1 .. (-Len(coded)) % 8 |-> 0]]

AnyPps(id) == {PpsOf(id, codeds, t, TRUE) : codeds \in Codeds, t \in BOOLEAN}
              \cup {PpsOf(id, <<>>, FALSE, FALSE)}

\* The slices of a stream: with what the engine has and what it should have.
SliceScales(c, sps, pps) ==
    LET d == ScalingRegisters(SliceSets(c, pps.id))
        used == IF pps.bTransform8x8Mode THEN 1..8 ELSE 1..6
        got == IF d.flat THEN Sixteens ELSE d.lists
    IN  [c |-> d, right |-> \A k \in used : got[k] = StdPps(sps, pps)[k]]

RECURSIVE SlicesScale(_, _, _)
SlicesScale(c, sps, ppss) ==
    ppss = <<>> \/ LET s == SliceScales(c, sps, Head(ppss))
                   IN  s.right /\ SlicesScale(s.c, sps, Tail(ppss))

\* Whatever scaling lists the parameter sets have, and while slices change
\* between them and sets are sent again, the engine scales every slice with
\* the lists the standard gives it (H264DecodeSps, H264DecodePps and the
\* flag that has lists converted at the next slice).  A set that replaces one
\* with lists has lists itself.
SlicesScaled ==
    \A sps \in {SpsOf(codeds) : codeds \in Codeds} :
    \A pps0 \in AnyPps(0),
       pps1 \in {PpsOf(1, <<>>, FALSE, FALSE), PpsOf(1, MixSent, TRUE, TRUE)},
       later \in {SpsOf(<<>>), SpsOf(OneSent(7))} :
        \A c1s \in {H264DecodePps(H264DecodePps(H264DecodeSps(NoSets, sps),
                                               pps0), pps1)} :
        LET again == [pps0 EXCEPT !.id = 1]
            c2s == H264DecodePps(SliceScales(c1s, sps, pps0).c, again)
            c3s == H264DecodePps(H264DecodePps(H264DecodeSps(
                        SliceScales(c1s, sps, pps0).c, later), pps0), pps1)
        IN  /\ SlicesScale(c1s, sps, <<pps0, pps0, pps1, pps0, pps1>>)
            /\ (pps1.codeds = <<>> \/ pps0.codeds # <<>>) =>
                    SlicesScale(c2s, sps, <<pps0, again, pps0>>)
            /\ SlicesScale(c3s, later, <<pps0, pps1>>)


----------------------------------------------------------------------------
(* The engine's memory: slots with what tells them apart, lists that name    *)
(* them in some order, and slice headers with every other weight.            *)

Slots264 ==
    [i \in 0..17 |->
        [i |-> i, buffers |-> <<<<"luma", i>>, <<"chroma", i>>,
                                <<"top", i>>, <<"bottom", i>>>>,
         poc |-> <<10 * i + 1, 10 * i + 2>>, isRef |-> <<TRUE, i % 2 = 0>>,
         bCodedFrame |-> i % 3 # 0, bMbAffFrame |-> i % 3 = 1]]

\* n entries; slot 17 is the picture itself.
Naming(n, step, frame) ==
    [j \in 1..n |->
        LET field == IF frame THEN FRAME ELSE IF j % 2 = 1 THEN TOP ELSE BOTTOM
        IN  [i |-> (step * (j \div 2) + 3 * j) % 17, fields |-> field,
             struct |-> field]]

LumaSent(l, i) == IF i % 2 = 1 THEN <<1, i, -l>> ELSE <<0>>
ChromaSent(l, i) == IF i % 3 = 0 THEN <<1, -i, l, 40 + i, -2>> ELSE <<0>>

HeaderWeights(count) ==
    FlattenSeq([l \in 1..2 |-> FlattenSeq([i \in 1..count[l] |->
        LumaSent(l, i) \o ChromaSent(l, i)])])

SentSlice(type, struct, idc, n, step) ==
    LET count == IF type = "I" THEN <<0, 0>>
                 ELSE IF type = "P" THEN <<n, 0>> ELSE <<n, n>>
        table == (type = "P" /\ idc = 1) \/ (type = "B" /\ idc = 1)
    IN  [type |-> type, nPicStructure |-> struct, bWeightedPred |-> idc = 1,
         nWeightedBIpredIdc |-> idc, nRefCount |-> count,
         in |-> (IF table THEN <<6, 7>> \o HeaderWeights(count) ELSE <<>>)
                \o <<"rest">>,
         flat |-> FALSE, scaling |-> [Sixteens EXCEPT
            ![3] = [m \in 0..15 |-> m], ![8] = [m \in 0..63 |-> 100 + m]],
         slots |-> Slots264, current |-> 17, nMaxValidFrmBufNum |-> 18,
         nNalRefIdc |-> n % 2 = 1, bMbAffFrame |-> FALSE, nCurSliceNum |-> 1,
         refList |-> [l \in 1..2 |-> Naming(count[l], step + l,
                                            struct = FRAME)]]

SentSlices == {SentSlice(type, struct, idc, n, step) :
                    type \in {"I", "P", "B"}, struct \in {TOP, BOTTOM, FRAME},
                    idc \in 0..2, n \in {1, 3, 4, 6, 32}, step \in {0, 5}}

RefsLaid(sram, s) ==
    \A l \in 1..2 : \A j \in 1..s.nRefCount[l] :
        LET e == s.refList[l][j]
            base == FRMBUF_INFO_ADDR + 32 * e.i
        IN  /\ sram[REFLIST_ADDR + 36 * (l - 1) + 4 * ((j - 1) \div 4)]
                   [((j - 1) % 4) + 1] = <<e.i, e.struct = BOTTOM>>
            /\ \A f \in 1..2 : e.fields \in {f, FRAME} =>
                    sram[base + 4 * (f - 1)] = s.slots[e.i].poc[f]
            /\ e.fields \in {TOP, FRAME} =>
                    sram[base + 8].top = RefType(s.slots[e.i].isRef[1])
            /\ e.fields \in {BOTTOM, FRAME} =>
                    sram[base + 8].bottom = RefType(s.slots[e.i].isRef[2])

WeightsLaid(sram, s) ==
    \A l \in 1..2 : \A i \in 1..s.nRefCount[l] :
        LET explicit == s.nWeightedBIpredIdc = 1
            denom == IF explicit THEN <<64, 128>> ELSE <<32, 32>>
            luma == LumaSent(l, i)
            chroma == ChromaSent(l, i)
            base == 384 * (l - 1)
        IN  /\ sram[base + 4 * (i - 1)] =
                    IF explicit /\ Len(luma) > 1 THEN <<luma[2], luma[3]>>
                    ELSE <<denom[1], 0>>
            /\ <<sram[base + 128 + 8 * (i - 1)],
                 sram[base + 132 + 8 * (i - 1)]>> =
                    IF explicit /\ Len(chroma) > 1
                    THEN <<<<chroma[2], chroma[3]>>, <<chroma[4], chroma[5]>>>>
                    ELSE <<<<denom[2], 0>>, <<denom[2], 0>>>>

QuantLaid(sram, s) ==
    \A k \in 1..8 : \A m \in 0 .. ListSize(k) - 1 :
        sram[QUANT_MATRIX_ADDR + (IF k <= 6 THEN 128 + 16 * (k - 1)
                                  ELSE 64 * (k - 7)) + 4 * (m \div 4)]
            [(m % 4) + 1] = s.scaling[k][m]

\* Whatever the lists, weights and fields of a slice, when the engine is
\* started every table is where it looks for it, none over another, and the
\* header has been read up to what follows the weights (H264ConfigureSlice-
\* Register, H264ConfigureRefListRegister, H264CongigureWeightTableRegisters).
SramAsLaid ==
    \A s \in SentSlices : \A out \in {ConfigureSlice(EmptySram, s)} :
        LET base == FRMBUF_INFO_ADDR + 32 * s.current
        IN  /\ out.in = <<"rest">>
            /\ RefsLaid(out.sram, s) /\ QuantLaid(out.sram, s)
            /\ HasWeights(s) => WeightsLaid(out.sram, s)
            /\ \A f \in 1..2 : s.nPicStructure \in {f, FRAME} =>
                    out.sram[base + 4 * (f - 1)] = s.slots[s.current].poc[f]
            /\ \A i \in 0..17 : [n \in 1..4 |->
                    out.sram[FRMBUF_INFO_ADDR + 32 * i + 8 + 4 * n]] =
                        s.slots[i].buffers

\* From the bits of the parameter sets and slice headers to the tables that
\* the engine reads: every list, weight and reference is what was coded.
\* Functions without state: it is enough to look at them when playback starts.
TablesAsCoded ==
    next = 1 => ListsArrive /\ ExtensionSeen /\ SlicesScaled /\ SramAsLaid

============================================================================
