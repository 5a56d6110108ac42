----------------------------- MODULE H265Slice -----------------------------
(***************************************************************************)
(* What the slice header says of a picture's place and of its references   *)
(* (h265_parser.c): NAL unit types, the picture order count, the short-    *)
(* and the long-term reference picture set.  A header is a record of its   *)
(* syntax elements; the operators here give what the decoder keeps.        *)
(***************************************************************************)
EXTENDS H265Dpb

CONSTANTS StRps  \* pSps->StRps: the short-term sets of the sequence

HEVC_IS_IDR(type) == type \in {"IDR_W_RADL", "IDR_N_LP"}
HEVC_IS_BLA(type) == type \in {"BLA_W_LP", "BLA_W_RADL", "BLA_N_LP"}
HEVC_IS_KEYFRAME(type) ==
    HEVC_IS_IDR(type) \/ HEVC_IS_BLA(type) \/ type = "CRA_NUT"

Rasl == {"RASL_N", "RASL_R"}
Radl == {"RADL_N", "RADL_R"}

\* Types HevcDecDecodeOneFrame takes for a key frame.
FoundKeyFrame == {"IDR_W_RADL", "IDR_N_LP", "CRA_NUT"}

\* Pictures nothing refers to: those HevcSetNewRef drops when it is late.
Droppable == {"TRAIL_N", "TSA_N", "STSA_N", "RADL_N", "RASL_N"}

\* Pictures whose order count is not the base of the next one's.
NotTid0 == {"TRAIL_N", "TSA_N", "STSA_N"} \cup Radl \cup Rasl

----------------------------------------------------------------------------
(* HevcComputePoc. *)

\* a % n in C: the sign is that of a.
Remainder(a, n) == IF a >= 0 THEN a % n ELSE -((-a) % n)

HevcComputePoc(nPocTid0, lsb, type) ==
    LET prev == Remainder(nPocTid0, MaxPocLsb)
        msb == nPocTid0 - prev
        half == MaxPocLsb \div 2
    IN  lsb + (CASE HEVC_IS_BLA(type) -> 0
                 [] ~HEVC_IS_BLA(type) /\ lsb < prev /\ prev - lsb >= half ->
                       msb + MaxPocLsb
                 [] ~HEVC_IS_BLA(type) /\ lsb > prev /\ lsb - prev > half ->
                       msb - MaxPocLsb
                 [] OTHER -> msb)

----------------------------------------------------------------------------
(* HevcParseShortTermRefSet: [delta, used] of every picture of the set, the  *)
(* earlier ones first, each group from the nearest on.                       *)

\* The sums of s, each with those before it.
Sums(s) == [k \in DOMAIN s |-> FoldLeft(+, 0, SubSeq(s, 1, k))]

\* A set that is coded: the distances from one picture to the next.
CodedRps(neg, pos) ==
    LET gaps(s) == [k \in DOMAIN s |-> s[k].minus1 + 1]
        n == Sums(gaps(neg))
        p == Sums(gaps(pos))
    IN  [k \in DOMAIN neg |-> [delta |-> -n[k], used |-> neg[k].used]]
        \o [k \in DOMAIN pos |-> [delta |-> p[k], used |-> pos[k].used]]

\* The earlier ones in descending and the others in ascending order.
NearestFirst(set) ==
    LET up == SortSeq(set, LAMBDA a, b : a.delta < b.delta)
        neg == SelectSeq(up, LAMBDA e : e.delta < 0)
    IN  Reverse(neg) \o SubSeq(up, Len(neg) + 1, Len(up))

\* A set that is predicted from another: each picture of it, and the picture
\* it belongs to itself, shifted by nDeltaRps.  bUseDeltaFlag is read for a
\* picture that is not used and keeps its value for the others.
PredictedRps(from, nDeltaRps, flags) ==
    LET delta(k) == IF k <= Len(from) THEN nDeltaRps + from[k].delta
                    ELSE nDeltaRps
        kept == SelectSeq([k \in DOMAIN flags |-> k],
                          LAMBDA k : flags[k].used \/ flags[k].useDelta)
    IN  NearestFirst([k \in DOMAIN kept |->
            [delta |-> delta(kept[k]), used |-> flags[kept[k]].used]])

\* The set of a slice header: one of the sequence's, predicted or coded.
ShortTermRefSet(s) ==
    CASE s.kind = "sps" -> StRps[s.idx]
      [] s.kind = "predicted" ->
            PredictedRps(StRps[Len(StRps) + 1 - s.idx], s.delta, s.flags)
      [] s.kind = "coded" -> CodedRps(s.neg, s.pos)

----------------------------------------------------------------------------
(* HevcParseLongTermRefSet: [poc, used] of every long-term picture, by its   *)
(* least significant bits alone or with the distance in units of MaxPocLsb,  *)
(* counted from the picture before it in the list.                           *)

\* Mutant: each distance is counted from the current picture.
CycleAlone(lt, k) == lt[k].cycle

\* nDeltaPocMsbCycleLt at the k-th picture.
Cycle(lt, k) == FoldLeft(+, 0, [j \in 1..k |-> lt[j].cycle])

LongTermRefSet(lt, nPoc, lsb) ==
    [k \in DOMAIN lt |->
        [poc |-> lt[k].lsb + (IF lt[k].msb
                              THEN nPoc - Cycle(lt, k) * MaxPocLsb - lsb
                              ELSE 0),
         used |-> lt[k].used]]

============================================================================
