----------------------------- MODULE Vp9Entropy -----------------------------
(***************************************************************************)
(* The arithmetic of the VP9 core: the bool decoder (vp9hwd_bool.c), the   *)
(* probabilities a compressed header changes (vp9hwd_probs.c and           *)
(* vp9hwd_headers.c), and their adaptation to what the video engine        *)
(* counted (vp9hwd_probs.c, vp9hwd_entropymv.c, vp9hwd_asic.c).            *)
(*                                                                         *)
(* Probabilities are 1 .. 255, of 256.  A tree is the array of the source: *)
(* node n has its two branches at places 2n and 2n+1, each another place,  *)
(* or minus a token.                                                       *)
(***************************************************************************)
EXTENDS Integers, Sequences, FiniteSets, FiniteSetsExt, Functions

CONSTANT ValueBytes   \* bytes of a bool decoder's value, 4 in the code

ASSUME EntropyAssumption == ValueBytes \in Nat \ {0}

Top == 256 ^ (ValueBytes - 1)

----------------------------------------------------------------------------
(* The bool decoder.  Its value and its range are a number of the code and *)
(* the interval it lies in; count is how many bits are left of the byte    *)
(* that was read last.                                                     *)

Byte(buffer, pos) == IF pos < Len(buffer) THEN buffer[pos + 1] ELSE 0

\* Mutant: a byte lasts for seven bits.
ShiftSeven(bc) ==
    LET twice == [bc EXCEPT !.range = 2 * @, !.value = 2 * @, !.count = @ - 1]
    IN  IF twice.count # 1 THEN twice
        ELSE IF bc.pos >= bc.end THEN [twice EXCEPT !.error = TRUE]
        ELSE [twice EXCEPT !.count = 8, !.pos = @ + 1,
                           !.value = @ + Byte(bc.buffer, bc.pos)]

\* One turn of the loop that doubles the range.
Shift(bc) ==
    LET twice == [bc EXCEPT !.range = 2 * @, !.value = 2 * @, !.count = @ - 1]
    IN  IF twice.count # 0 THEN twice
        ELSE IF bc.pos >= bc.end THEN [twice EXCEPT !.error = TRUE]
        ELSE [twice EXCEPT !.count = 8, !.pos = @ + 1,
                           !.value = @ + Byte(bc.buffer, bc.pos)]

\* The bit, and the decoder before its range is made large again.
Split(bc, split) ==
    IF bc.value >= split * Top
    THEN [bit |-> 1, bc |-> [bc EXCEPT !.range = @ - split,
                                       !.value = @ - split * Top]]
    ELSE [bit |-> 0, bc |-> [bc EXCEPT !.range = split]]

\* Vp9DecodeBool.  The loop ends early where the stream ends.
DecodeBool(bc, probability) ==
    LET s == Split(bc, 1 + ((bc.range - 1) * probability) \div 256)
        turn[n \in 0 .. 7] ==
            IF n = 0 THEN s.bc
            ELSE LET b == turn[n - 1]
                 IN  IF b.range >= 128 \/ (n > 1 /\ b.count = 0) THEN b
                     ELSE Shift(b)
    IN  [bit |-> s.bit, bc |-> turn[7]]

\* Vp9DecodeBool128.  Where the stream ends, the decoder stays as it was.
DecodeBool128(bc) ==
    LET s == Split(bc, (bc.range + 1) \div 2)
        b == Shift(s.bc)
    IN  IF s.bc.range >= 128 THEN s
        ELSE IF b.count = 0
             THEN [bit |-> 0, bc |-> [bc EXCEPT !.error = TRUE]]
             ELSE [bit |-> s.bit, bc |-> b]

\* Vp9BoolStart: the first bytes, and a marker that must be 0.
BoolStart(buffer, len) ==
    LET value[n \in 0 .. ValueBytes] ==
            IF n = 0 THEN 0 ELSE 256 * value[n - 1] + Byte(buffer, n - 1)
        d == DecodeBool128([value |-> value[ValueBytes], range |-> 255,
                            count |-> 8, pos |-> ValueBytes, buffer |-> buffer,
                            end |-> len, error |-> ValueBytes > len])
    IN  [d.bc EXCEPT !.error = @ \/ d.bit # 0]

\* Vp9ReadBits: a number of n bits, the first one highest.
ReadBits(bc, n) ==
    LET read[k \in 0 .. n] ==
            IF k = 0 THEN [value |-> 0, bc |-> bc]
            ELSE LET d == DecodeBool128(read[k - 1].bc)
                 IN  [value |-> 2 * read[k - 1].value + d.bit, bc |-> d.bc]
    IN  read[n]

\* GetUnsignedBits: how many bits number the values.
GetUnsignedBits(values) == CHOOSE n \in 0 .. 8 :
    /\ values <= 2 ^ n
    /\ n > 0 => 2 ^ (n - 1) < values

\* BoolDecodeUniform: the first m of n values have one bit less.
BoolDecodeUniform(bc, n) ==
    LET l == GetUnsignedBits(n)
        m == 2 ^ l - n
        first == ReadBits(bc, l - 1)
        bit == ReadBits(first.bc, 1)
    IN  IF l = 0 THEN [value |-> 0, bc |-> bc]
        ELSE IF first.value < m THEN first
        ELSE [value |-> 2 * first.value - m + bit.value, bc |-> bit.bc]

\* Whether the values from mk on are coded as a whole, where a group has a.
LastGroup(values, mk, a) == values <= mk + 3 * a

\* Vp9DecodeSubExp: groups of values that double in size, one bit each to say
\* that the value is in a later one, and the rest as a whole.
DecodeSubExp(bc, k, values) ==
    LET turn[i \in 0 .. 8] ==
            [bc |-> IF i = 0 THEN bc ELSE ReadBits(turn[i - 1].bc, 1).bc,
             b |-> IF i = 0 THEN k ELSE k + i - 1,
             mk |-> IF i = 0 THEN 0 ELSE turn[i - 1].mk + 2 ^ turn[i - 1].b]
        last(i) == LastGroup(values, turn[i].mk, 2 ^ turn[i].b)
        end == CHOOSE i \in 0 .. 8 :
            /\ last(i) \/ ReadBits(turn[i].bc, 1).value = 0
            /\ \A j \in 0 .. i - 1 :
                  ~last(j) /\ ReadBits(turn[j].bc, 1).value = 1
        rest == IF last(end)
                THEN BoolDecodeUniform(turn[end].bc, values - turn[end].mk)
                ELSE ReadBits(ReadBits(turn[end].bc, 1).bc, turn[end].b)
    IN  [value |-> rest.value + turn[end].mk, bc |-> rest.bc]

----------------------------------------------------------------------------
(* A probability that the header changes: a distance from the old one. *)

MODULUS_PARAM == 13

\* MergeIndex: the first codes are for every 13th of n values, the others for
\* those between.
MergeIndex(v, n) ==
    LET half == MODULUS_PARAM \div 2
        coarse == (n - 1 - half) \div MODULUS_PARAM + 1
        w == v - coarse
        Before(x) == (x + MODULUS_PARAM - half) \div MODULUS_PARAM
    IN  IF v < coarse THEN v * MODULUS_PARAM + half
        ELSE Min({x \in w + Before(w) .. w + Before(w) + n :
                     x % MODULUS_PARAM # half /\ w = x - Before(x)})

\* Vp9InvRecenterNonneg: even codes lie above m, odd ones below, as long as
\* there is a value below.
Vp9InvRecenterNonneg(v, m) ==
    IF v > 2 * m THEN v
    ELSE IF v % 2 = 0 THEN v \div 2 + m
    ELSE m - (v + 1) \div 2

\* InvRemapProb: the nearer end of 1 .. 255 is the one counted from.
InvRemapProb(v, old) ==
    LET d == MergeIndex(v, 254) + 1
    IN  IF 2 * (old - 1) <= 255
        THEN 1 + Vp9InvRecenterNonneg(d, old - 1)
        ELSE 255 - Vp9InvRecenterNonneg(d, 255 - old)

----------------------------------------------------------------------------
(* Which probabilities a frame changes.  d has the fields of the header    *)
(* that tell: intra (key_frame or intra_only), transform_mode, switchable  *)
(* (mcomp_filter_type), comp_pred_mode and high_precision.                 *)

ONLY_4X4 == 0
ALLOW_8X8 == 1
ALLOW_16X16 == 2
ALLOW_32X32 == 3
TX_MODE_SELECT == 4
SINGLE_PREDICTION_ONLY == 0
COMP_PREDICTION_ONLY == 1
HYBRID_PREDICTION == 2

TransformTables == {"tx8x8", "tx16x16", "tx32x32"}
MvTables == {"joints", "sign", "classes", "class0", "bits", "class0_fp", "fp"}
HighPrecisionTables == {"class0_hp", "hp"}
CoefTables == {"coeffs", "coeffs8x8", "coeffs16x16", "coeffs32x32"}

Tables(condition, tables) == IF condition THEN tables ELSE {}

\* Vp9DecodeFrameHeader up to the skip flags: the tables of every frame.
FrameTables(d) ==
    Tables(d.transform_mode = TX_MODE_SELECT, TransformTables)
    \cup {"coeffs", "mbskip"}
    \cup Tables(d.transform_mode > ONLY_4X4, {"coeffs8x8"})
    \cup Tables(d.transform_mode > ALLOW_8X8, {"coeffs16x16"})
    \cup Tables(d.transform_mode > ALLOW_16X16, {"coeffs32x32"})

\* Vp9DecodeMvUpdate.
MvUpdateTables(d) == MvTables \cup Tables(d.high_precision, HighPrecisionTables)

\* Vp9DecodeFrameHeader from there on: those of frames predicted from others.
InterTables(d) ==
    {"inter_mode", "intra_inter", "ymode", "partition"}
    \cup Tables(d.switchable, {"switchable_interp"})
    \cup Tables(d.comp_pred_mode = HYBRID_PREDICTION, {"comp_inter"})
    \cup Tables(d.comp_pred_mode # COMP_PREDICTION_ONLY, {"single_ref"})
    \cup Tables(d.comp_pred_mode # SINGLE_PREDICTION_ONLY, {"comp_ref"})
    \cup MvUpdateTables(d)

HeaderTables(d) == FrameTables(d) \cup Tables(~d.intra, InterTables(d))

\* Vp9AdaptModeProbs and Vp9AdaptModeContext.
AdaptedModes(d) ==
    {"intra_inter", "comp_inter", "comp_ref", "single_ref", "ymode", "uv_mode",
     "partition", "mbskip", "inter_mode"}
    \cup Tables(d.switchable, {"switchable_interp"})
    \cup Tables(d.transform_mode = TX_MODE_SELECT, TransformTables)

\* Vp9AdaptNmvProbs.
AdaptedMvs(d) == MvTables \cup Tables(d.high_precision, HighPrecisionTables)

\* Vp9UpdateProbabilities, of a frame that adapts its probabilities.
AdaptedTables(d) ==
    CoefTables \cup Tables(~d.intra, AdaptedModes(d) \cup AdaptedMvs(d))

----------------------------------------------------------------------------
(* Adaptation. *)

ClipProb(p) == IF p > 255 THEN 255 ELSE IF p < 1 THEN 1 ELSE p

GetProb(num, den) ==
    IF den = 0 THEN 128 ELSE ClipProb((num * 256 + den \div 2) \div den)

GetBinaryProb(n0, n1) == GetProb(n0, n0 + n1)

WeightedProb(p1, p2, factor) == (p1 * (256 - factor) + p2 * factor + 128) \div 256

\* UpdateModeCt, and the same arithmetic in UpdateModeProbs, UpdateCoefProbs,
\* Vp9AdaptModeProbs and Vp9AdaptModeContext: the old probability moves to the
\* observed one, the further the more often the branch was met.
UpdateModeCt(pre, ct, sat, most) ==
    LET count == IF ct[1] + ct[2] > sat THEN sat ELSE ct[1] + ct[2]
    IN  WeightedProb(pre, GetBinaryProb(ct[1], ct[2]), (most * count) \div sat)

\* AdaptProb and AdaptProbs, for motion vectors: not at all if it was not met.
AdaptProb(pre, ct) ==
    LET count == Min({ct[1] + ct[2], 20})
    IN  IF count = 0 THEN pre
        ELSE WeightedProb(pre, GetBinaryProb(ct[1], ct[2]), (128 * count) \div 20)

\* ConvertDistribution: how often each node's two branches were taken, where
\* events[t] counts the token t.
BranchCounts(tree, events) ==
    LET Side(total, i) ==
            IF tree[i + 1] <= 0 THEN events[-tree[i + 1]] ELSE total[tree[i + 1]]
        total[i \in {2 * n : n \in 0 .. Len(tree) \div 2 - 1}] ==
            Side(total, i) + Side(total, i + 1)
    IN  [n \in 0 .. Len(tree) \div 2 - 1 |->
            <<Side(total, 2 * n), Side(total, 2 * n + 1)>>]

\* UpdateCoefProbs: whether a block ends is not asked after every token, so the
\* first node's second branch is what is left of the times it was asked.
CoefBranchCounts(tree, events, eobs) ==
    LET ct == BranchCounts(tree, events)
    IN  [ct EXCEPT ![0] = <<@[1], eobs - @[1]>>]

\* vp9_tx_counts_to_branch_counts_8x8, _16x16, _32x32: count[s] is that of the
\* transforms of size s, of which largest is the largest.
TxBranchCounts(count, largest) ==
    [t \in 0 .. largest - 1 |->
        <<count[t], FoldFunctionOnSet(+, 0, count, t + 1 .. largest)>>]

\* The trees.  The tokens of intra modes are DC 0, V 1, H 2, D45 3, D135 4,
\* D117 5, D153 6, D27 7, D63 8, TM 9.
vp9hwd_intra_mode_tree ==
    <<0, 2, -9, 4, -1, 6, 8, 12, -2, 10, -4, -5, -3, 14, -8, 16, -6, -7>>
vp9hwd_partition_tree == <<0, 2, -1, 4, -2, -3>>
vp9hwd_switchable_interp_tree == <<0, 2, -1, -2>>
vp9hwd_mv_joint_tree == <<0, 2, -1, 4, -2, -3>>
vp9hwd_mv_class_tree ==
    <<0, 2, -1, 4, 6, 8, -2, -3, 10, 12, -4, -5, -6, 14, 16, 18, -7, -8, -9, -10>>
vp9hwd_mv_class0_tree == <<0, -1>>
vp9hwd_mv_fp_tree == <<0, 2, -1, 4, -2, -3>>
vp9_coefmodel_tree == <<-3, 2, 0, 4, -1, -2>>

Trees == {vp9hwd_intra_mode_tree, vp9hwd_partition_tree,
          vp9hwd_switchable_interp_tree, vp9hwd_mv_joint_tree,
          vp9hwd_mv_class_tree, vp9hwd_mv_class0_tree, vp9hwd_mv_fp_tree,
          vp9_coefmodel_tree}

=============================================================================
