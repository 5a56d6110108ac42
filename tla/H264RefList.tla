---------------------------- MODULE H264RefList ----------------------------
(***************************************************************************)
(* The reference lists of a slice (h264_mmco.c): the default list of the   *)
(* short-term and long-term references, H264FillDefaultRefList, and its    *)
(* rearrangement by the slice header, H264DecodeRefPicListReordering.      *)
(***************************************************************************)
EXTENDS H264Dpb

\* An entry of defaultRefList and refList: the slot i of the picture and the
\* fields of it that are the reference.  NoEntry is what memset leaves.
Entry(i, fields, nPicId, bLongRef) ==
    [i |-> i, fields |-> fields, nPicId |-> nPicId, bLongRef |-> bLongRef]

NoEntry == Entry(0, 0, 0, FALSE)

NoLists == <<<<>>, <<>>>>

\* a[1], b[1], a[2], b[2], ..., and the rest of the longer of the two.
Alternate(a, b) ==
    LET at(s, k) == IF k \in DOMAIN s THEN <<s[k]>> ELSE <<>>
    IN  FlattenSeq([k \in 1..Len(a) + Len(b) |-> at(a, k) \o at(b, k)])

\* H264BuildDefList and H264SplitFieldCopy: for a field the fields of its own
\* parity and of the other take turns.  id[k] is the number of in[k].
H264BuildDefList(d, in, id, bLongRef, sel) ==
    LET is(k, fields) == /\ in[k] # 0
                         /\ And(d.picture[in[k]].nReference, fields) # 0
        ks(fields) == SelectSeq([k \in DOMAIN in |-> k],
                                LAMBDA k : is(k, fields))
        picId(k, idAdd) == IF sel = PICT_FRAME THEN id[k]
                           ELSE 2 * id[k] + idAdd
        copy(fields, idAdd) ==
            [k \in DOMAIN ks(fields) |->
                LET n == ks(fields)[k]
                IN  Entry(in[n], fields, picId(n, idAdd), bLongRef)]
    IN  IF sel = PICT_FRAME THEN copy(PICT_FRAME, 0)
        ELSE Alternate(copy(sel, 1), copy(PICT_FRAME - sel, 0))

\* H264AddSorted: the pictures up to limit from the highest order count down,
\* or those above it from the lowest up; of equal ones only one.
H264AddSorted(d, limit, downwards) ==
    LET n == d.pShortRef
        poc(k) == d.picture[n[k]].nPoc
        on(k) == IF downwards THEN poc(k) <= limit ELSE poc(k) > limit
        first(k) == \A m \in DOMAIN n : poc(m) = poc(k) =>
                        IF downwards THEN m <= k ELSE k <= m
        ks == {k \in DOMAIN n : on(k) /\ first(k)}
        sorted == SetToSortSeq(ks, LAMBDA k, m :
                      IF downwards THEN poc(k) > poc(m) ELSE poc(k) < poc(m))
    IN  [j \in DOMAIN sorted |-> n[sorted[j]]]

LongList(d, sel) ==
    H264BuildDefList(d, [k \in 1..nLongSlots |-> d.pLongRef[k - 1]],
                     [k \in 1..nLongSlots |-> k - 1], TRUE, sel)

ShortList(d, short, sel) ==
    H264BuildDefList(d, short,
                     [k \in DOMAIN short |-> d.picture[short[k]].nFrmNum],
                     FALSE, sel)

\* Lists of the same pictures differ in the first two.
Apart(l0, l1) ==
    LET same == /\ Len(l0) = Len(l1) /\ Len(l1) > 1
                /\ \A k \in DOMAIN l0 : l0[k].i = l1[k].i
    IN  <<l0, IF same THEN [l1 EXCEPT ![1] = l1[2], ![2] = l1[1]] ELSE l1>>

\* The lists of an I slice stay empty; nCurPoc is the order count of the
\* frame or field that is decoded.
H264FillDefaultRefList(d, type, sel, nCurPoc) ==
    LET list(towardsPast) ==
            ShortList(d, H264AddSorted(d, nCurPoc, towardsPast)
                         \o H264AddSorted(d, nCurPoc, ~towardsPast), sel)
            \o LongList(d, sel)
    IN  CASE type = "B" -> Apart(list(TRUE), list(FALSE))
          [] type = "P" -> <<ShortList(d, d.pShortRef, sel)
                             \o LongList(d, sel), <<>>>>
          [] type = "I" -> NoLists

----------------------------------------------------------------------------

\* memcpy of the first nRefCount entries.
Truncate(list, nRefCount) ==
    [k \in 1..nRefCount |-> IF k \in DOMAIN list THEN list[k] ELSE NoEntry]

\* The entry a command means: a short-term reference by the difference of its
\* number to the last one (pred), a long-term one by its number.
Reference(d, op, pred, sel) ==
    LET num == IF op.op = "long" THEN op.num ELSE pred
        frame == IF sel = PICT_FRAME THEN num ELSE num \div 2
        fields == CASE sel = PICT_FRAME -> PICT_FRAME
                    [] sel # PICT_FRAME /\ num % 2 = 1 -> sel
                    [] OTHER -> PICT_FRAME - sel
        marked(i) == And(d.picture[i].nReference, fields) # 0
        short == {k \in DOMAIN d.pShortRef :
                     LET i == d.pShortRef[k]
                     IN  /\ d.picture[i].pVPicture # 0 /\ marked(i)
                         /\ d.picture[i].nFrmNum = frame}
    IN  CASE op.op # "long" /\ short # {} ->
                Entry(d.pShortRef[Max(short)], fields, num, FALSE)
          [] op.op = "long" /\ frame \in LongIndexes
                /\ d.pLongRef[frame] # 0 /\ marked(d.pLongRef[frame]) ->
                Entry(d.pLongRef[frame], fields, num, TRUE)
          [] OTHER -> NoEntry

\* e moves to place index; what stood there and behind it moves up, as far as
\* the place e was found at, or off the end.
MoveTo(list, e, index) ==
    LET same == {k \in index..Len(list) - 1 :
                    /\ list[k].bLongRef = e.bLongRef
                    /\ list[k].nPicId = e.nPicId}
        from == IF same = {} THEN Len(list) ELSE Min(same)
    IN  [k \in DOMAIN list |->
            CASE k = index -> e
              [] k \in index + 1..from -> list[k - 1]
              [] OTHER -> list[k]]

\* One command "sub", "add" or "long"; a reference that is not there leaves
\* a hole and ends the reordering.
Reorder(d, a, op, sel, nMaxPicNum) ==
    LET pred == CASE op.op = "sub" -> (a.pred - op.num) % nMaxPicNum
                  [] op.op = "add" -> (a.pred + op.num) % nMaxPicNum
                  [] OTHER -> a.pred
        e == Reference(d, op, pred, sel)
    IN  CASE a.failed \/ a.index > Len(a.list) -> [a EXCEPT !.failed = TRUE]
          [] ~a.failed /\ a.index <= Len(a.list) /\ e = NoEntry ->
                [a EXCEPT !.failed = TRUE, !.list[a.index] = NoEntry]
          [] OTHER -> [a EXCEPT !.list = MoveTo(@, e, a.index),
                                !.pred = pred, !.index = @ + 1]

\* commands[l] are the commands of list l, counts[l] its length, nums what
\* pictures are numbered by.  After a failed command the rest of the lists is
\* left alone.
H264DecodeRefPicListReordering(d, default, commands, counts, nums, refList) ==
    LET run(l) ==
            FoldLeft(LAMBDA a, op : Reorder(d, a, op, nums.sel, nums.max),
                     [list |-> Truncate(default[l], counts[l]),
                      pred |-> nums.cur, index |-> 1, failed |-> FALSE],
                     commands[l])
    IN  IF run(1).failed THEN <<run(1).list, refList[2]>>
        ELSE <<run(1).list, run(2).list>>
============================================================================
