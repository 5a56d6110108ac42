--------------------------- MODULE H264ParamSets ---------------------------
(* The parameter sets of the H.264 decoder (h264_nalu.c) and the scaling    *)
(* lists they carry, up to the registers of the video engine (h264_hal.c).  *)
(*                                                                          *)
(* A parameter set is read from a sequence of syntax elements.  The eight   *)
(* scaling lists of a set, nScalingMatrix4[0..5] and nScalingMatrix8[0..1], *)
(* are the members 1..8 of one tuple; a list is a function of the place, in *)
(* raster order.  The default lists are told apart by their first element.  *)
EXTENDS Integers, Sequences, SequencesExt

Side(k) == IF k <= 6 THEN 4 ELSE 8
ListSize(k) == Side(k) * Side(k)
Constant(k, v) == [n \in 0 .. ListSize(k) - 1 |-> v]

DefaultList(k) ==
    Constant(k, CASE k \in 1..3 -> 6 [] k \in 4..6 -> 10
                  [] k = 7 -> 6 [] k = 8 -> 9)

Zeroes == [k \in 1..8 |-> Constant(k, 0)]
Sixteens == [k \in 1..8 |-> Constant(k, 16)]

----------------------------------------------------------------------------
(* Reading the lists. *)

zigzag_scan == <<0, 1, 4, 8, 5, 2, 3, 6, 9, 12, 13, 10, 7, 11, 14, 15>>

zigzag_scan8x8 ==
    <<  0,  1,  8, 16,  9,  2,  3, 10, 17, 24, 32, 25, 18, 11,  4,  5,
       12, 19, 26, 33, 40, 48, 41, 34, 27, 20, 13,  6,  7, 14, 21, 28,
       35, 42, 49, 56, 57, 50, 43, 36, 29, 22, 15, 23, 30, 37, 44, 51,
       58, 59, 52, 45, 38, 31, 39, 46, 53, 60, 61, 54, 47, 55, 62, 63>>

Scan(k) == IF Side(k) = 4 THEN zigzag_scan ELSE zigzag_scan8x8

\* The list when its n-th factor is due: once nx is 0 the last factor is
\* repeated, and a 0 in the first place means the preset list.
ListStep(s, k, n) ==
    LET nx == IF s.nx = 0 THEN 0 ELSE (s.last + Head(s.in)) % 256
        in == IF s.nx = 0 THEN s.in ELSE Tail(s.in)
        v  == IF nx = 0 THEN s.last ELSE nx
    IN  CASE s.preset -> s
          [] ~s.preset /\ n = 1 /\ nx = 0 ->
                [s EXCEPT !.in = in, !.preset = TRUE, !.list = DefaultList(k)]
          [] OTHER -> [s EXCEPT !.in = in, !.nx = nx, !.last = v,
                                !.list[Scan(k)[n]] = v]

\* What is left of the syntax elements and the list.
H264DecodeScalingList(in, k, fallback) ==
    IF Head(in) = 0 THEN [in |-> Tail(in), list |-> fallback]
    ELSE LET read == FoldLeft(LAMBDA s, n : ListStep(s, k, n),
                              [in |-> Tail(in), last |-> 8, nx |-> 8,
                               preset |-> FALSE, list |-> Constant(k, 0)],
                              [n \in 1..ListSize(k) |-> n])
         IN  [in |-> read.in, list |-> read.list]

\* The list a list that is not sent is predicted from: the one before, or,
\* for the first of its kind, the sequence's if there are any, or the default.
Fallback(k, lists, sps, fallbackSps) ==
    CASE k \notin {1, 4, 7, 8} -> lists[k - 1]
      [] k \in {1, 4, 7, 8} /\ fallbackSps -> sps.lists[k]
      [] OTHER -> DefaultList(k)

\* The lists of set, which is sps itself or a picture parameter set of it.
H264DecodeScalingMatrices(in, sps, set, isSps) ==
    LET fallbackSps == ~isSps /\ sps.present
        count == IF isSps \/ set.bTransform8x8Mode THEN 8 ELSE 6
        one(s, k) ==
            LET read == H264DecodeScalingList(
                            s.in, k, Fallback(k, s.set.lists, sps, fallbackSps))
            IN  [in |-> read.in, set |-> [s.set EXCEPT !.lists[k] = read.list]]
    IN  CASE Head(in) = 1 ->
                FoldLeft(one, [in |-> Tail(in),
                               set |-> [set EXCEPT !.present = TRUE]],
                         [k \in 1..count |-> k])
          [] Head(in) = 0 /\ fallbackSps ->
                [in |-> Tail(in), set |-> [set EXCEPT !.lists = sps.lists]]
          [] OTHER -> [in |-> Tail(in), set |-> set]

----------------------------------------------------------------------------
(* Is there more in a picture parameter set?  buf is its bytes, as bits. *)

\* The place, from the end, of the last bit of the last byte that is set.
H264DecodeRbspTraiLing(buf) ==
    LET ones == {r \in 1..8 : buf[Len(buf) + 1 - r] = 1}
    IN  IF ones = {} THEN 8 ELSE CHOOSE r \in ones : \A o \in ones : r <= o

H264JudgeMoreRbspData(sps) ==
    ~(sps.profile \in {66, 77, 88} /\ sps.bConstraintSetFlags % 8 # 0)

H264CheckMoreRbspData(buf, offset, trailing) ==
    LET bytes == (Len(buf) \div 8) - (trailing \div 8)
        byte == offset \div 8
        rest == SubSeq(buf, offset + 1, 8 * (byte + 1))
    IN  CASE byte >= bytes -> FALSE
          [] byte < bytes - 1 -> TRUE
          [] byte = bytes - 1 -> \/ Head(rest) = 0
                                 \/ \E n \in 2..Len(rest) : rest[n] = 1

\* The byte before a four byte start code is not the set's.
Trimmed(buf) ==
    IF SubSeq(buf, Len(buf) - 7, Len(buf)) = [n \in 1..8 |-> 0]
    THEN SubSeq(buf, 1, Len(buf) - 8) ELSE buf

\* Is what follows the first offset bits of buf read?
MoreInPps(sps, buf, offset) ==
    LET trailing == H264DecodeRbspTraiLing(Trimmed(buf))
    IN  /\ offset + trailing < Len(Trimmed(buf))
        /\ H264JudgeMoreRbspData(sps)
        /\ H264CheckMoreRbspData(Trimmed(buf), offset, trailing)

----------------------------------------------------------------------------
(* The parameter sets of a context: c.sps and c.pps by their number, the     *)
(* current ones, whether the lists are to be converted, and the converted.   *)

MAX_SPS_COUNT == 32
MAX_PPS_COUNT == 256

Empty == [n \in {} |-> 0]
NoSets == [sps |-> Empty, pps |-> Empty, curPps |-> -1, curSps |-> -1,
           bScalingMatrixPresent |-> FALSE, lists |-> Zeroes, flat |-> TRUE]

Store(sets, id, set) ==
    [n \in DOMAIN sets \cup {id} |-> IF n = id THEN set ELSE sets[n]]

\* A sequence parameter set: 4:2:0 only, with lists from profile 100 on.
H264DecodeSps(c, e) ==
    LET high == e.profile >= 100
        empty == [profile |-> e.profile, present |-> FALSE, lists |-> Zeroes,
                  bConstraintSetFlags |-> e.bConstraintSetFlags]
        set == IF high
               THEN H264DecodeScalingMatrices(e.scaling, empty, empty, TRUE).set
               ELSE empty
    IN  CASE e.id >= MAX_SPS_COUNT -> c
          [] e.id < MAX_SPS_COUNT /\ high /\ e.chroma # 1 -> c
          [] OTHER -> [c EXCEPT !.sps = Store(c.sps, e.id, set),
                                !.bScalingMatrixPresent = @ \/ high]

\* A picture parameter set: with e.buf its bits from the first one after the
\* identifiers, of which e.offset are always sent, and e.scaling the lists.
H264DecodePps(c, e) ==
    LET more == MoreInPps(c.sps[e.sps], e.buf, e.offset)
        empty == [nSpsId |-> e.sps, present |-> FALSE, lists |-> Sixteens,
                  bTransform8x8Mode |-> more /\ e.bTransform8x8Mode]
        set == IF more
               THEN H264DecodeScalingMatrices(e.scaling, c.sps[e.sps], empty,
                                              FALSE).set
               ELSE empty
    IN  CASE \/ e.id >= MAX_PPS_COUNT \/ e.sps \notin DOMAIN c.sps
             \/ e.nSliceGroupCount > 1
             \/ \E l \in 1..2 : e.nRefCount[l] > 32 -> c
          [] OTHER -> [c EXCEPT !.pps = Store(c.pps, e.id, set),
                                !.bScalingMatrixPresent = @ \/ more]

\* The sets of a slice: another picture or sequence parameter set than the
\* last slice's has the lists converted.
SliceSets(c, id) ==
    LET sps == c.pps[id].nSpsId
        other == /\ c.curPps # -1 /\ c.curSps # -1
                 /\ c.curPps # id \/ c.curSps # sps
    IN  IF id \notin DOMAIN c.pps THEN c
        ELSE [c EXCEPT !.curPps = id, !.curSps = sps,
                       !.bScalingMatrixPresent = @ \/ other]

\* H264ConfigureQuantMatrixRegister: what the engine scales with.
Converted264(c) ==
    LET sps == c.sps[c.curSps]
        pps == c.pps[c.curPps]
    IN  CASE ~c.bScalingMatrixPresent -> c.lists
          [] c.bScalingMatrixPresent /\ pps.present -> pps.lists
          [] c.bScalingMatrixPresent /\ ~pps.present /\ sps.present -> sps.lists
          [] OTHER -> c.lists

\* H264ConfigureSliceRegister: the quantiser part of the slice's registers.
ScalingRegisters(c) ==
    LET sps == c.sps[c.curSps]
        used == /\ sps.profile \in {100, 118, 128}
                /\ sps.present \/ c.pps[c.curPps].present
    IN  IF ~used THEN [c EXCEPT !.flat = TRUE]
        ELSE [c EXCEPT !.flat = FALSE, !.lists = Converted264(c),
                       !.bScalingMatrixPresent = FALSE]
============================================================================
