------------------------------- MODULE MC_Vp9 -------------------------------
(***************************************************************************)
(* Streams for Vp9, as encoders write them: two reference slots, two       *)
(* entropy contexts; and bounded inputs for Vp9Entropy and Vp9Tiles.       *)
(***************************************************************************)
EXTENDS Vp9, Vp9Entropy, Vp9Tiles

Key == [kind |-> "key", show |-> TRUE, resilient |-> FALSE, refresh |-> {},
        refs |-> <<>>, reset |-> 0, save |-> TRUE, context |-> 0,
        segment |-> "off", features |-> FALSE, filter |-> "off", index |-> 0]

\* A frame predicted from the slots refs, kept in the slots refresh.
Predicted(refs, refresh) == [Key EXCEPT !.kind = "inter", !.refs = refs,
                                     !.refresh = refresh]

Hidden(f) == [f EXCEPT !.show = FALSE]

IntraOnlyFrame(reset, context, refresh) ==
    [Key EXCEPT !.kind = "intra", !.show = FALSE, !.reset = reset,
                !.context = context, !.refresh = refresh]

Again(slot) == [Key EXCEPT !.kind = "existing", !.index = slot]

Unit(at, frames) == [pts |-> at, frames |-> frames]

\* Segment maps and contexts, a frame no other refers to, two key frames.
Segments ==
    <<Unit(0, <<[Key EXCEPT !.segment = "update", !.features = TRUE]>>),
      Unit(1, <<[Predicted(<<0>>, {1}) EXCEPT !.segment = "keep", !.context = 1,
                                              !.filter = "update"]>>),
      Unit(2, <<[Predicted(<<0, 1>>, {}) EXCEPT !.segment = "update",
                                                 !.filter = "keep"]>>),
      Unit(3, <<[Predicted(<<1, 0>>, {0}) EXCEPT !.segment = "keep",
                                              !.save = FALSE, !.features = TRUE]>>),
      Unit(4, <<Key>>),
      Unit(5, <<[Predicted(<<0>>, {0}) EXCEPT !.segment = "keep",
                                              !.filter = "keep"]>>)>>

\* Frames hidden in superframes and predicted from later.
Superframes ==
    <<Unit(0, <<Key>>),
      Unit(1, <<[Hidden(Predicted(<<0>>, {1})) EXCEPT !.context = 1],
                Predicted(<<1, 0>>, {0})>>),
      Unit(2, <<[Predicted(<<1, 0>>, {}) EXCEPT !.context = 1]>>),
      Unit(3, <<Predicted(<<1, 0>>, {1})>>),
      Unit(4, <<Hidden(Key), Predicted(<<1>>, {0})>>),
      Unit(5, <<Predicted(<<0, 1>>, {1})>>)>>

\* Intra-only frames that reset one context, or all, and resilient frames.
IntraOnlys ==
    <<Unit(0, <<Key>>),
      Unit(1, <<[Predicted(<<0>>, {0}) EXCEPT !.context = 1,
                                              !.filter = "update"]>>),
      Unit(2, <<[IntraOnlyFrame(2, 1, {1}) EXCEPT !.filter = "keep"],
                [Predicted(<<1, 0>>, {0}) EXCEPT !.context = 1]>>),
      Unit(3, <<[Predicted(<<0>>, {1}) EXCEPT !.resilient = TRUE,
                                              !.filter = "update"]>>),
      Unit(4, <<IntraOnlyFrame(3, 0, {0}), Predicted(<<0, 1>>, {})>>),
      Unit(5, <<[Predicted(<<0>>, {0}) EXCEPT !.filter = "keep"]>>)>>

\* A hidden frame that is shown again by its slot.
Repeats ==
    <<Unit(0, <<Key>>),
      Unit(1, <<Hidden(Predicted(<<0>>, {1})), Predicted(<<0>>, {0})>>),
      Unit(2, <<Again(1)>>),
      Unit(3, <<Predicted(<<0>>, {0})>>),
      Unit(4, <<Key>>)>>

MCStreams == <<Segments, Superframes, IntraOnlys, Repeats>>

\* Frames that are predicted after one was shown again.
MCRepeats == <<Repeats>>

\* Their units come at the frame rate.
ASSUME MCStampsSpaced == StampsSpaced

----------------------------------------------------------------------------
(* The format's own codes, trees and tables, to measure Vp9Entropy by. *)

\* The code of a sequence of <<probability, bit>> after the marker: the number
\* low has 8 + bits binary digits, range says how much may be added to it.
Encoded(symbols) ==
    LET all == <<<<128, 0>>>> \o symbols
        after[n \in 0 .. Len(all)] ==
            IF n = 0 THEN [low |-> 0, range |-> 255, bits |-> 0]
            ELSE LET e == after[n - 1]
                     split == 1 + ((e.range - 1) * all[n][1]) \div 256
                     low == e.low + split * all[n][2]
                     range == IF all[n][2] = 1 THEN e.range - split ELSE split
                     k == CHOOSE i \in 0 .. 7 : range * 2 ^ i \in 128 .. 255
                 IN  [low |-> low * 2 ^ k, range |-> range * 2 ^ k,
                      bits |-> e.bits + k]
    IN  after[Len(all)]

\* The bytes of a code, its last byte filled up with zeros.
CodeBytes(low, bits) ==
    [k \in 1 .. (bits + 15) \div 8 |->
        LET below == 8 + bits - 8 * k
        IN  IF below >= 0 THEN (low \div 2 ^ below) % 256
            ELSE ((low % 256) * 2 ^ (-below)) % 256]

\* The bits read with the probabilities ps, one after the other.
Decoded(bc, ps) ==
    LET after[n \in 0 .. Len(ps)] ==
            IF n = 0 THEN [bits |-> <<>>, bc |-> bc]
            ELSE LET d == DecodeBool(after[n - 1].bc, ps[n])
                 IN  [bits |-> Append(after[n - 1].bits, d.bit), bc |-> d.bc]
    IN  after[Len(ps)]

\* The bits of VP9's code for a value 0 .. 254 with k = 4.
SubExpBits(v) ==
    LET Bits(x, n) == [i \in 1 .. n |-> (x \div 2 ^ (n - i)) % 2]
    IN  IF v < 16 THEN <<0>> \o Bits(v, 4)
        ELSE IF v < 32 THEN <<1, 0>> \o Bits(v - 16, 4)
        ELSE IF v < 64 THEN <<1, 1, 0>> \o Bits(v - 32, 5)
        ELSE IF v < 129 THEN <<1, 1, 1>> \o Bits(v - 64, 7)
        ELSE <<1, 1, 1>> \o Bits(v + 1, 8)

\* The tokens below place i of a tree.
Tokens(tree, i) ==
    LET below[n \in 0 .. Len(tree) - 1] ==
            IF tree[n + 1] <= 0 THEN {-tree[n + 1]}
            ELSE below[tree[n + 1]] \cup below[tree[n + 1] + 1]
    IN  below[i]

\* The tables whose probabilities the blocks of a frame are decoded with, other
\* than those given by the format: of transforms and of what blocks consist of.
UsedTables(d) ==
    {"mbskip"}
    \cup {<<"coeffs", "coeffs8x8", "coeffs16x16", "coeffs32x32">>[n + 1] :
             n \in 0 .. Min({d.transform_mode, ALLOW_32X32})}
    \cup (IF d.transform_mode = TX_MODE_SELECT THEN TransformTables ELSE {})
    \cup (IF d.intra THEN {}
          ELSE {"inter_mode", "intra_inter", "ymode", "uv_mode", "partition"}
               \cup MvTables
               \cup (IF d.high_precision THEN HighPrecisionTables ELSE {})
               \cup (IF d.switchable THEN {"switchable_interp"} ELSE {})
               \cup CASE d.comp_pred_mode = SINGLE_PREDICTION_ONLY ->
                           {"single_ref"}
                      [] d.comp_pred_mode = COMP_PREDICTION_ONLY ->
                           {"comp_ref"}
                      [] d.comp_pred_mode = HYBRID_PREDICTION ->
                           {"single_ref", "comp_ref", "comp_inter"})

----------------------------------------------------------------------------
(* The arithmetic of Vp9Entropy and Vp9Tiles, for all inputs of these       *)
(* bounds.                                                                  *)

Symbols == {1, 20, 100, 128, 252} \X {0, 1}

\* Up to three symbols: their code has no more than 29 binary digits, so that
\* TLC can hold its number, and reaches into the fourth byte.
SymbolSequences == UNION {[1 .. n -> Symbols] : n \in 1 .. 3}

\* What follows a header's code: the data of the tiles.
Behind == <<255>>

\* The bool decoder reads back what was coded, at both ends of the interval a
\* code may lie in, and whatever follows the code; it does not report an end of
\* the stream as long as one byte does.
BoolDecoded ==
    \A s \in SymbolSequences :
        LET e == Encoded(s)
        IN  \A tail \in {0, e.range - 1} :
                LET bytes == CodeBytes(e.low + tail, e.bits) \o Behind
                    d == Decoded(BoolStart(bytes, Len(bytes)),
                                 [n \in DOMAIN s |-> s[n][1]])
                IN  d.bits = [n \in DOMAIN s |-> s[n][2]] /\ ~d.bc.error

Coders(range, value) ==
    {[value |-> value, range |-> range, count |-> n, pos |-> 2,
      buffer |-> <<0, 0, 255>>, end |-> 3, error |-> FALSE] : n \in {1, 8}}

\* The shorter decoder for even chances gives what the general one gives, and
\* leaves the same state, for every range and on both sides of the split.
Bool128Agrees ==
    \A range \in 128 .. 255 :
        LET split == (range + 1) \div 2
        IN  \A value \in {0, split * Top - 1, split * Top, range * Top - 1} :
                \A bc \in Coders(range, value) :
                    DecodeBool128(bc) = DecodeBool(bc, 128)

\* Every distance that the format has a code for is read back.
SubExpDecoded ==
    \A v \in 0 .. 254 :
        LET bits == SubExpBits(v)
            e == Encoded([n \in DOMAIN bits |-> <<128, bits[n]>>])
            bytes == CodeBytes(e.low, e.bits) \o Behind
        IN  \A d \in {DecodeSubExp(BoolStart(bytes, Len(bytes)), 4, 255)} :
                d.value = v /\ ~d.bc.error

\* A distance turns an old probability into every other one, each by one code:
\* no probability is out of reach, none becomes 0, and none is coded twice.
RemapBijective ==
    \A old \in 1 .. 255 :
        {InvRemapProb(v, old) : v \in 0 .. 253} = (1 .. 255) \ {old}

Headers == [intra : BOOLEAN, transform_mode : 0 .. 4, switchable : BOOLEAN,
            comp_pred_mode : 0 .. 2, high_precision : BOOLEAN]

\* A header changes the probabilities its frame's blocks use, and those only;
\* of a frame that is predicted they are all adapted, of the others the
\* coefficients' and no table of predicted frames.
TablesUsed ==
    \A d \in Headers :
        /\ HeaderTables(d) = UsedTables(d) \ {"uv_mode"}
        /\ UsedTables(d) \cap CoefTables \subseteq AdaptedTables(d)
        /\ IF d.intra THEN AdaptedTables(d) \subseteq CoefTables
           ELSE UsedTables(d) \subseteq AdaptedTables(d)

Counts == {0, 1, 2, 11, 19, 20, 21, 24, 3000, 8000000}

\* Adapted probabilities stay between the old and the observed one, go half of
\* the way at most, stay where they are if nothing was observed, and come out
\* the same from the arithmetic of modes and that of motion vectors.
AdaptedBetween ==
    \A pre \in {1, 2, 127, 128, 254, 255} : \A n0, n1 \in Counts :
        LET seen == GetBinaryProb(n0, n1)
            new == UpdateModeCt(pre, <<n0, n1>>, 20, 128)
        IN  /\ new \in Min({pre, seen}) .. Max({pre, seen})
            /\ 2 * new - pre - seen \in
                  (IF seen < pre THEN 0 .. 255 ELSE -255 .. 1)
            /\ n0 + n1 = 0 => new = pre
            /\ AdaptProb(pre, <<n0, n1>>) = new
            /\ \A most \in {112, 128} :
                  UpdateModeCt(pre, <<n0, n1>>, 24, most) \in
                      Min({pre, seen}) .. Max({pre, seen})

\* Token t of each tree was met 2^t times: any two sets of tokens differ.
Events == [t \in 0 .. 10 |-> 2 ^ t]
Met(tokens) == FoldFunctionOnSet(+, 0, Events, tokens)

\* The trees that the sizes of transforms would have, up to each largest one.
SizeTrees == [largest \in 1 .. 3 |-> <<<<0, -1>>, <<0, 2, -1, -2>>,
                                       <<0, 2, -1, 4, -2, -3>>>>[largest]]

\* A node's branches are counted once for every token below them, and for no
\* other; every token has its place in the tree; and sizes of transforms, which
\* have no tree, are counted as if they had one.
TreesCounted ==
    \A tree \in Trees :
        LET ct == BranchCounts(tree, Events)
        IN  /\ \A n \in DOMAIN ct :
                  ct[n] = <<Met(Tokens(tree, 2 * n)), Met(Tokens(tree, 2 * n + 1))>>
            /\ Tokens(tree, 0) \cup Tokens(tree, 1) = 0 .. Len(tree) \div 2
            /\ \A largest \in DOMAIN SizeTrees :
                  TxBranchCounts(Events, largest) =
                      BranchCounts(SizeTrees[largest], Events)

\* Pictures up to 8192 pixels wide, about the widths where the number of columns
\* changes, and from three superblocks, the video engine's least height, up.
Widths == {64 * n + d : n \in {1, 3, 4, 7, 8, 9, 16, 63, 64, 128}, d \in {0, 1}}
Heights == {64 * n : n \in {3, 4, 5, 16}}

Sum(s) == FoldFunction(+, 0, s)

\* Whatever number of columns the header may ask for, and however low the
\* picture, the tiles the video engine is told of cover the picture, are of the
\* format's sizes and as many as the registers say; and those it is not told of
\* are just those the stream's address is moved past.
TilesCover ==
    \A width \in Widths : \A height \in Heights : \A r \in 0 .. 2 :
        LET bits == GetTileNBits(width)
        IN  /\ bits.delta >= 0
            /\ \A c \in bits.min .. bits.min + bits.delta :
                LET info == TileInfo(width, height, c, r)
                    cols == info.NUM_TILE_COLS
                    rows == info.NUM_TILE_ROWS
                IN  /\ Len(info.tiles) = cols * rows
                    /\ Sum([i \in 1 .. cols |-> info.tiles[i][1]]) = Sbs(width)
                    /\ Sum([i \in 1 .. rows |-> info.tiles[cols * i][2]]) =
                           Sbs(height)
                    /\ \A k \in DOMAIN info.tiles :
                          /\ info.tiles[k][1] <= MAX_TILE_WIDTH_SBS
                          /\ cols > 1 =>
                                info.tiles[k][1] >= MIN_TILE_WIDTH_SBS
                          /\ info.tiles[k][2] > 0
                    /\ Len(info.tiles) + TilesSkipped(height, c, r) =
                           2 ^ (c + r)

\* The arithmetic of headers, probabilities and tiles is the format's, for
\* every input up to these bounds: what is read, adapted, counted and skipped.
\* Functions without state: it is enough to look at them when playback starts.
ArithmeticExact ==
    next = 1 =>
        /\ BoolDecoded /\ Bool128Agrees /\ SubExpDecoded /\ RemapBijective
        /\ TablesUsed /\ AdaptedBetween /\ TreesCounted /\ TilesCover

=============================================================================
