----------------------------- MODULE H265Proofs ----------------------------
(***************************************************************************)
(* BuffersKept of H265, for every stream whose pictures fit (SetFits), all *)
(* faults, any number of buffers, resets and late pictures: the types of   *)
(* the variables, every buffer the decoder holds belongs to one picture,   *)
(* and a decoder that waits for a buffer gets one.                         *)
(*                                                                         *)
(* The proof follows the code.  First what a change of the pictures may do *)
(* (After: only give up or output them), then each function of h265_ref.c, *)
(* of the slice header and of a slice, then the loop over the NAL units of *)
(* an access unit (UnitGood), then the calls of the decoder (Kept, the     *)
(* inductive invariant), and last that the stream is made of access units  *)
(* the argument is about (StreamOK), whatever fault it has.                *)
(***************************************************************************)
EXTENDS H265, FiniteSetTheorems, SequenceTheorems, WellFoundedInduction, TLAPS

DpbFields == {"DPB", "pCurrDPB", "Rps", "nSeqDecode", "nSeqOutput",
              "bIsFirstPicture", "nLastDispPoc", "PtsList", "held", "display",
              "shown"}
FrameFields == {"pFbmBuffer", "nPoc", "nSequence", "output", "ref",
                "bErrorFrameFlag", "bDropFlag", "ord"}

\* The values of the sequence counters.
Sequences == 0 .. SeqModulus - 1

SoundFrame(f) ==
    /\ DOMAIN f = FrameFields
    /\ f.pFbmBuffer \in {0} \cup Buffers
    /\ f.nPoc \in Int /\ f.nSequence \in Sequences
    /\ f.output \in BOOLEAN
    /\ f.output => f.pFbmBuffer # 0
    /\ f.ref \in {"", "short", "long"}

UsedSlots(d) == {i \in Slots : d.DPB[i].pFbmBuffer # 0}
WaitingSlots(d) == {i \in Slots : d.DPB[i].output}
Flagged(d) == {i \in Slots : d.DPB[i].ref # ""}
BuffersOf(d, S) == {d.DPB[i].pFbmBuffer : i \in S}

SoundShape(d) ==
    /\ DOMAIN d = DpbFields /\ DOMAIN d.DPB = Slots
    /\ d.pCurrDPB \in {0} \cup Slots
    /\ d.nSeqDecode \in Sequences /\ d.nSeqOutput \in Sequences
    /\ DOMAIN d.Rps = RpsLists /\ \A l \in RpsLists : d.Rps[l] \in Seq(Slots)
    /\ d.display \in Seq(Buffers)

OneOwner(d) ==
    \A i, j \in Slots :
        i # j /\ d.DPB[i].pFbmBuffer = d.DPB[j].pFbmBuffer
            => d.DPB[i].pFbmBuffer = 0

Sound(d) ==
    /\ SoundShape(d)
    /\ \A i \in Slots : SoundFrame(d.DPB[i])
    /\ d.held = BuffersOf(d, UsedSlots(d))
    /\ OneOwner(d)

\* The sequence decoded is the u-th after the one that is output, and no
\* picture of any other waits.
LagsBy(d, u) ==
    /\ d.nSeqDecode = (d.nSeqOutput + u) % SeqModulus
    /\ \A i \in Slots : d.DPB[i].output =>
          \E w \in 0 .. u :
              d.DPB[i].nSequence = (d.nSeqOutput + w) % SeqModulus

Lags(d, n) == \E u \in 0 .. n : LagsBy(d, u)

After(d, e) ==
    /\ Sound(e)
    /\ \A n \in 0 .. 4 : Lags(d, n) => Lags(e, n)
    /\ \A i \in Slots :
          /\ e.DPB[i].pFbmBuffer \in {0, d.DPB[i].pFbmBuffer}
          /\ e.DPB[i].output => d.DPB[i].output
    /\ Range(e.display) \subseteq
          Range(d.display) \cup BuffersOf(d, WaitingSlots(d))

\* Every change may be none...
LEMMA AfterSelf == ASSUME NEW d, Sound(d) PROVE After(d, d)
BY DEF After, Sound, SoundFrame

\* ... and two changes are one.
LEMMA AfterAfter ==
    ASSUME NEW d, NEW e, NEW f, Sound(d), After(d, e), After(e, f)
    PROVE  After(d, f)
<1>1. BuffersOf(e, WaitingSlots(e)) \subseteq BuffersOf(d, WaitingSlots(d))
  <2> SUFFICES ASSUME NEW i \in Slots, e.DPB[i].output
               PROVE  e.DPB[i].pFbmBuffer \in BuffersOf(d, WaitingSlots(d))
    BY DEF BuffersOf, WaitingSlots
  <2>1. e.DPB[i].pFbmBuffer # 0 /\ d.DPB[i].output
        /\ e.DPB[i].pFbmBuffer = d.DPB[i].pFbmBuffer
    BY DEF After, Sound, SoundFrame
  <2> QED
    BY <2>1 DEF BuffersOf, WaitingSlots
<1>2. Range(f.display) \subseteq
          Range(d.display) \cup BuffersOf(d, WaitingSlots(d))
  BY <1>1 DEF After
<1>3. \A i \in Slots :
          /\ f.DPB[i].pFbmBuffer \in {0, d.DPB[i].pFbmBuffer}
          /\ f.DPB[i].output => d.DPB[i].output
  BY DEF After
<1>4. \A n \in 0 .. 4 : Lags(d, n) => Lags(f, n)
  BY DEF After
<1> QED
  BY <1>2, <1>3, <1>4 DEF After

\* One field of the pictures is set, or one field of the picture in a slot.
Put(d, x, v) == [d EXCEPT ![x] = v]
PutSlot(d, i, x, v) == [d EXCEPT !.DPB[i][x] = v]

\* d and e are the same but for the fields X.
Same(d, e, X) ==
    /\ DOMAIN e = DpbFields
    /\ \A y \in DpbFields \ X : e[y] = d[y]

SlotsDiffer(d, e, i, x) ==
    /\ DOMAIN e.DPB = Slots /\ DOMAIN e.DPB[i] = FrameFields
    /\ \A j \in Slots \ {i} : e.DPB[j] = d.DPB[j]
    /\ \A y \in FrameFields \ {x} : e.DPB[i][y] = d.DPB[i][y]

\* d and e have the shape that lets fields be set.
Shaped(d) ==
    /\ DOMAIN d = DpbFields /\ DOMAIN d.DPB = Slots
    /\ \A i \in Slots : DOMAIN d.DPB[i] = FrameFields

\* One field of the pictures is set...
LEMMA PutIs ==
    ASSUME NEW d, Shaped(d), NEW x \in DpbFields \ {"DPB"}, NEW v,
           NEW e, e = Put(d, x, v)
    PROVE  Same(d, e, {x}) /\ e[x] = v /\ Shaped(e) /\ e.DPB = d.DPB
<1>1. Same(d, e, {x}) /\ e[x] = v
  BY DEF Put, Same, Shaped
<1>2. e.DPB = d.DPB
  BY <1>1 DEF Same, DpbFields
<1> QED
  BY <1>1, <1>2 DEF Same, Shaped

\* ... and one of a picture.
LEMMA PutSlotIs ==
    ASSUME NEW d, Shaped(d), NEW i \in Slots, NEW x \in FrameFields, NEW v
    PROVE  /\ Shaped(PutSlot(d, i, x, v))
           /\ Same(d, PutSlot(d, i, x, v), {"DPB"})
           /\ SlotsDiffer(d, PutSlot(d, i, x, v), i, x)
           /\ PutSlot(d, i, x, v).DPB[i][x] = v
<1> DEFINE e == PutSlot(d, i, x, v)
<1>1. /\ DOMAIN e = DpbFields /\ DOMAIN e.DPB = Slots
      /\ \A y \in DpbFields \ {"DPB"} : e[y] = d[y]
      /\ \A j \in Slots \ {i} : e.DPB[j] = d.DPB[j]
  BY DEF DpbFields, PutSlot, Shaped
<1>2. e.DPB[i] = [d.DPB[i] EXCEPT ![x] = v]
  BY DEF DpbFields, PutSlot, Shaped
<1> HIDE DEF e
<1>3. /\ DOMAIN e.DPB[i] = FrameFields /\ e.DPB[i][x] = v
      /\ \A y \in FrameFields \ {x} : e.DPB[i][y] = d.DPB[i][y]
  BY <1>2 DEF Shaped
<1>4. Shaped(e)
  BY <1>1, <1>3 DEF Shaped
<1>5. Same(d, e, {"DPB"}) /\ SlotsDiffer(d, e, i, x) /\ e.DPB[i][x] = v
  BY <1>1, <1>3 DEF Same, SlotsDiffer
<1> QED
  BY <1>4, <1>5 DEF e

\* The shape stays sound when only pictures and what is held change.
LEMMA SoundShapeKept ==
    ASSUME NEW d, SoundShape(d), NEW e, Same(d, e, {"DPB", "held"}),
           DOMAIN e.DPB = Slots
    PROVE  SoundShape(e)
<1>1. {"pCurrDPB", "nSeqDecode", "nSeqOutput", "Rps", "display"}
          \subseteq DpbFields \ {"DPB", "held"}
  BY DEF DpbFields
<1>2. /\ e.pCurrDPB = d.pCurrDPB /\ e.nSeqDecode = d.nSeqDecode
      /\ e.nSeqOutput = d.nSeqOutput /\ e.Rps = d.Rps
      /\ e.display = d.display
  BY <1>1 DEF Same
<1> QED
  BY <1>2 DEF SoundShape, Same

\* What HevcUnrefFrame does to a slot.
Unreffed(d, e, i, all) ==
    /\ SoundShape(e) /\ Same(d, e, {"DPB", "held"})
    /\ \A j \in Slots \ {i} : e.DPB[j] = d.DPB[j]
    /\ SoundFrame(e.DPB[i])
    /\ e.DPB[i].nSequence = d.DPB[i].nSequence
    /\ e.DPB[i].pFbmBuffer \in {0, d.DPB[i].pFbmBuffer}
    /\ e.DPB[i].pFbmBuffer # 0 => e.DPB[i].output
    /\ e.DPB[i].output => d.DPB[i].output /\ ~all
    /\ e.DPB[i].ref \in {"", d.DPB[i].ref}
    /\ e.held = IF e.DPB[i].pFbmBuffer = d.DPB[i].pFbmBuffer THEN d.held
                ELSE d.held \ {d.DPB[i].pFbmBuffer}

\* HevcUnrefFrame (h265_ref.c:92), field by field.
LEMMA UnrefIs ==
    ASSUME NEW d, Sound(d), NEW i \in Slots, NEW all \in BOOLEAN,
           NEW e, e = HevcUnrefFrame(d, i, all)
    PROVE  Unreffed(d, e, i, all)
<1> DEFINE f == d.DPB[i]
           r == PutSlot(d, i, "ref", "")
           w == r.DPB[i].output /\ ~all
           q == PutSlot(r, i, "output", w)
           v == q.held \ {q.DPB[i].pFbmBuffer}
           p == Put(q, "held", v)
           o == PutSlot(p, i, "pFbmBuffer", 0)
<1>1. e = CASE f.pFbmBuffer = 0 -> d
            [] f.pFbmBuffer # 0 /\ q.DPB[i].output -> q
            [] OTHER -> o
  <2>1. q = [d EXCEPT !.DPB[i].ref = "", !.DPB[i].output = @ /\ ~all]
    BY DEF PutSlot
  <2> HIDE DEF q
  <2>2. o = [FbmReturnBuffer(q, i) EXCEPT !.DPB[i].pFbmBuffer = 0]
    BY DEF FbmReturnBuffer, Put, PutSlot
  <2> HIDE DEF o
  <2> QED
    BY <2>1, <2>2 DEF HevcUnrefFrame
<1>2. Shaped(d) /\ SoundFrame(f) /\ SoundShape(d)
  BY DEF Sound, SoundShape, SoundFrame, Shaped
<1>3. /\ "ref" \in FrameFields /\ "output" \in FrameFields
      /\ "pFbmBuffer" \in FrameFields /\ "held" \in DpbFields
  BY DEF FrameFields, DpbFields
<1> HIDE DEF r, w, q, v, p, o, f
<1>a. PICK blank : blank = ""
  OBVIOUS
<1>b. PICK ref : ref = "ref"
  OBVIOUS
<1>c. r = PutSlot(d, i, ref, blank) /\ ref \in FrameFields
  BY <1>a, <1>b, <1>3 DEF r
<1>4. /\ Shaped(r) /\ Same(d, r, {"DPB"}) /\ SlotsDiffer(d, r, i, "ref")
      /\ r.DPB[i].ref = ""
  <2>1. /\ Shaped(r) /\ Same(d, r, {"DPB"}) /\ SlotsDiffer(d, r, i, ref)
        /\ r.DPB[i][ref] = blank
    BY <1>2, <1>c, PutSlotIs
  <2> QED
    BY <2>1, <1>a, <1>b
<1>d. PICK out : out = "output"
  OBVIOUS
<1>e. PICK wait : wait = w
  OBVIOUS
<1>f. q = PutSlot(r, i, out, wait) /\ out \in FrameFields
  BY <1>d, <1>e, <1>3, Zenon DEF q
<1>5. /\ Shaped(q) /\ Same(r, q, {"DPB"}) /\ SlotsDiffer(r, q, i, "output")
      /\ q.DPB[i].output = w
  <2>1. /\ Shaped(q) /\ Same(r, q, {"DPB"}) /\ SlotsDiffer(r, q, i, out)
        /\ q.DPB[i][out] = wait
    <3>1. Shaped(r)
      BY <1>4
    <3> QED
      BY <3>1, <1>f, PutSlotIs
  <2> QED
    BY <2>1, <1>d, <1>e, Zenon
<1>6. /\ Shaped(p) /\ Same(q, p, {"held"}) /\ p.held = v /\ p.DPB = q.DPB
  <2>1. Shaped(q) /\ "held" \in DpbFields \ {"DPB"}
    BY <1>5 DEF DpbFields
  <2>2. PICK held : held = "held"
    OBVIOUS
  <2>3. held \in DpbFields \ {"DPB"} /\ p = Put(q, held, v)
    BY <2>1, <2>2 DEF p
  <2>4. /\ Shaped(p) /\ Same(q, p, {held}) /\ p[held] = v
        /\ p.DPB = q.DPB
    BY <2>1, <2>3, PutIs
  <2> QED
    BY <2>2, <2>4
<1>7. /\ Shaped(o) /\ Same(p, o, {"DPB"}) /\ SlotsDiffer(p, o, i, "pFbmBuffer")
      /\ o.DPB[i].pFbmBuffer = 0
  BY <1>3, <1>6, PutSlotIs DEF o
<1>8. /\ q.DPB[i].pFbmBuffer = f.pFbmBuffer /\ q.DPB[i].nPoc = f.nPoc
      /\ q.DPB[i].nSequence = f.nSequence /\ q.DPB[i].ref = ""
      /\ q.held = d.held
  <2>1. /\ "pFbmBuffer" \in FrameFields \ {"ref"}
        /\ "pFbmBuffer" \in FrameFields \ {"output"}
        /\ "nPoc" \in FrameFields \ {"ref"}
        /\ "nPoc" \in FrameFields \ {"output"}
        /\ "nSequence" \in FrameFields \ {"ref"}
        /\ "nSequence" \in FrameFields \ {"output"}
        /\ "ref" \in FrameFields \ {"output"}
        /\ "held" \in DpbFields \ {"DPB"}
    BY DEF FrameFields, DpbFields
  <2> QED
    BY <2>1, <1>4, <1>5, Zenon DEF SlotsDiffer, Same, f
<1>9. w <=> f.output /\ ~all
  <2>1. "output" \in FrameFields \ {"ref"}
    BY DEF FrameFields
  <2> QED
    BY <2>1, <1>4, Zenon DEF SlotsDiffer, w, f
<1>10. /\ Same(d, q, {"DPB"}) /\ \A j \in Slots \ {i} : q.DPB[j] = d.DPB[j]
       /\ DOMAIN q.DPB = Slots
  BY <1>4, <1>5, Zenon DEF Same, SlotsDiffer
<1>11. CASE e = d /\ f.pFbmBuffer = 0
  BY <1>11, <1>2 DEF Same, SoundShape, f, SoundFrame, Sound, Unreffed
<1>12. CASE e = q /\ f.pFbmBuffer # 0 /\ w
  <2>1. DOMAIN q.DPB[i] = FrameFields
    BY <1>5 DEF Shaped
  <2>2. q.DPB[i].output = TRUE /\ f.output = TRUE /\ all = FALSE
    BY <1>5, <1>9, <1>12, <1>2, Zenon DEF SoundFrame, w
  <2>3. SoundFrame(q.DPB[i])
    BY <2>1, <2>2, <1>2, <1>8, <1>12 DEF SoundFrame
  <2>4. SoundShape(q)
    <3>1. Same(d, q, {"DPB", "held"})
      BY <1>10 DEF Same
    <3> QED
      BY <1>2, <1>10, <3>1, SoundShapeKept
  <2>5. /\ Same(d, q, {"DPB", "held"}) /\ q.DPB[i].ref \in {"", d.DPB[i].ref}
    BY <1>8, <1>10 DEF Same
  <2>6. /\ q.DPB[i].output => d.DPB[i].output /\ ~all
        /\ q.DPB[i].pFbmBuffer # 0 => q.DPB[i].output
    BY <2>2, Zenon DEF f
  <2> QED
    BY <2>3, <2>4, <2>5, <2>6, <1>8, <1>10, <1>12 DEF f, Unreffed
<1>13. CASE e = o /\ f.pFbmBuffer # 0 /\ ~w
  <2>1. /\ o.DPB[i].pFbmBuffer = 0 /\ o.DPB[i].nPoc = f.nPoc
        /\ o.DPB[i].nSequence = f.nSequence /\ o.DPB[i].ref = ""
        /\ o.DPB[i].output = FALSE /\ DOMAIN o.DPB[i] = FrameFields
    <3>1. {"nPoc", "nSequence", "ref", "output"}
              \subseteq FrameFields \ {"pFbmBuffer"}
      BY DEF FrameFields
    <3>2. DOMAIN o.DPB[i] = FrameFields
      BY <1>7 DEF Shaped
    <3>3. o.DPB[i].output = q.DPB[i].output
      BY <3>1, <1>6, <1>7, Zenon DEF SlotsDiffer
    <3>4. q.DPB[i].output = FALSE
      BY <1>5, <1>9, <1>13, Zenon DEF w
    <3>5. /\ o.DPB[i].nPoc = f.nPoc /\ o.DPB[i].nSequence = f.nSequence
          /\ o.DPB[i].ref = ""
      BY <3>1, <1>6, <1>7, <1>8 DEF SlotsDiffer
    <3> QED
      BY <3>2, <3>3, <3>4, <3>5, <1>7, Zenon
  <2>2. SoundFrame(o.DPB[i])
    BY <2>1, <1>2 DEF SoundFrame
  <2>3. /\ \A j \in Slots \ {i} : o.DPB[j] = d.DPB[j]
        /\ DOMAIN o.DPB = Slots
    BY <1>6, <1>7, <1>10 DEF SlotsDiffer
  <2>4. Same(d, o, {"DPB", "held"})
    BY <1>6, <1>7, <1>10, Zenon DEF Same
  <2>5. SoundShape(o)
    BY <1>2, <2>3, <2>4, SoundShapeKept
  <2>6. o.held = d.held \ {f.pFbmBuffer}
    <3>1. "held" \in DpbFields \ {"DPB"}
      BY DEF DpbFields
    <3>2. o.held = v
      BY <3>1, <1>6, <1>7, Zenon DEF Same
    <3> QED
      BY <3>2, <1>8 DEF v
  <2>7. o.DPB[i].output => d.DPB[i].output /\ ~all
    BY <2>1, Zenon
  <2>8. o.DPB[i].pFbmBuffer # f.pFbmBuffer
    BY <2>1, <1>13
  <2> HIDE DEF o
  <2> QED
    BY <2>1, <2>2, <2>3, <2>4, <2>5, <2>6, <2>7, <2>8, <1>13
       DEF f, Unreffed
<1> QED
  BY <1>1, <1>5, <1>11, <1>12, <1>13 DEF f

\* e has the pictures of d but for some that have been given up.
Trimmed(d, e) ==
    /\ After(d, e) /\ Same(d, e, {"DPB", "held"})
    /\ \A i \in Slots : /\ e.DPB[i].ref \in {"", d.DPB[i].ref}
                        /\ e.DPB[i].nSequence = d.DPB[i].nSequence

\* The sequences that wait stay where they are if no picture waits anew.
LEMMA LagsKept ==
    ASSUME NEW d, NEW e, e.nSeqDecode = d.nSeqDecode,
           e.nSeqOutput = d.nSeqOutput,
           \A i \in Slots : /\ e.DPB[i].nSequence = d.DPB[i].nSequence
                            /\ e.DPB[i].output => d.DPB[i].output,
           NEW n, Lags(d, n)
    PROVE  Lags(e, n)
<1>1. PICK u \in 0 .. n :
          /\ d.nSeqDecode = (d.nSeqOutput + u) % SeqModulus
          /\ \A i \in Slots : d.DPB[i].output =>
                \E w \in 0 .. u :
                    d.DPB[i].nSequence = (d.nSeqOutput + w) % SeqModulus
  BY DEF Lags, LagsBy
<1>2. e.nSeqDecode = (e.nSeqOutput + u) % SeqModulus
  BY <1>1, Zenon
<1>3. ASSUME NEW i \in Slots, e.DPB[i].output
      PROVE  \E w \in 0 .. u :
                e.DPB[i].nSequence = (e.nSeqOutput + w) % SeqModulus
  <2>1. d.DPB[i].output
    BY <1>3, Zenon
  <2> QED
    BY <1>1, <2>1, Zenon
<1> QED
  BY <1>2, <1>3, Zenon DEF Lags, LagsBy

\* Pictures are given up one after the other...
LEMMA TrimmedTrimmed ==
    ASSUME NEW d, NEW e, NEW f, Sound(d), Trimmed(d, e), Trimmed(e, f)
    PROVE  Trimmed(d, f)
<1>1. After(d, f)
  BY AfterAfter DEF Trimmed
<1>2. Same(d, f, {"DPB", "held"})
  BY DEF Trimmed, Same
<1>3. \A i \in Slots : /\ f.DPB[i].ref \in {"", d.DPB[i].ref}
                       /\ f.DPB[i].nSequence = d.DPB[i].nSequence
  BY DEF Trimmed
<1> QED
  BY <1>1, <1>2, <1>3 DEF Trimmed

\* ... or not at all.
LEMMA TrimmedSelf == ASSUME NEW d, Sound(d) PROVE Trimmed(d, d)
<1>1. After(d, d)
  BY AfterSelf
<1>2. Same(d, d, {"DPB", "held"})
  BY DEF Same, Sound, SoundShape
<1> QED
  BY <1>1, <1>2 DEF Trimmed

\* HevcUnrefFrame gives up one picture at most.
LEMMA UnrefTrims ==
    ASSUME NEW d, Sound(d), NEW i \in Slots, NEW all \in BOOLEAN,
           NEW e, e = HevcUnrefFrame(d, i, all)
    PROVE  /\ Trimmed(d, e)
           /\ e.DPB[i].pFbmBuffer # 0 => e.DPB[i].output
           /\ e.DPB[i].output => ~all
           /\ \A j \in Slots \ {i} : e.DPB[j] = d.DPB[j]
<1>0. Unreffed(d, e, i, all)
  BY UnrefIs, Zenon
<1>1. /\ SoundShape(e) /\ Same(d, e, {"DPB", "held"})
      /\ \A j \in Slots \ {i} : e.DPB[j] = d.DPB[j]
      /\ SoundFrame(e.DPB[i])
      /\ e.DPB[i].nSequence = d.DPB[i].nSequence
      /\ e.DPB[i].pFbmBuffer \in {0, d.DPB[i].pFbmBuffer}
      /\ e.DPB[i].pFbmBuffer # 0 => e.DPB[i].output
      /\ e.DPB[i].output => d.DPB[i].output /\ ~all
      /\ e.DPB[i].ref \in {"", d.DPB[i].ref}
      /\ e.held = IF e.DPB[i].pFbmBuffer = d.DPB[i].pFbmBuffer THEN d.held
                  ELSE d.held \ {d.DPB[i].pFbmBuffer}
  BY <1>0, Zenon DEF Unreffed
<1>2. \A j \in Slots : SoundFrame(e.DPB[j])
  BY <1>1 DEF Sound
<1>3. \A j \in Slots : e.DPB[j].pFbmBuffer \in {0, d.DPB[j].pFbmBuffer}
  BY <1>1
<1>4. OneOwner(e)
  BY <1>3 DEF OneOwner, Sound
<1>5. e.held = BuffersOf(e, UsedSlots(e))
  <2>1. CASE e.DPB[i].pFbmBuffer = d.DPB[i].pFbmBuffer
    <3>1. \A j \in Slots : e.DPB[j].pFbmBuffer = d.DPB[j].pFbmBuffer
      BY <1>1, <2>1
    <3>2. e.held = d.held
      BY <1>1, <2>1
    <3>3. UsedSlots(e) = UsedSlots(d)
      BY <3>1 DEF UsedSlots
    <3>4. BuffersOf(e, UsedSlots(e)) = BuffersOf(d, UsedSlots(d))
      BY <3>1, <3>3 DEF UsedSlots, BuffersOf
    <3> QED
      BY <3>2, <3>4 DEF Sound
  <2>2. CASE e.DPB[i].pFbmBuffer # d.DPB[i].pFbmBuffer
    <3>1. e.DPB[i].pFbmBuffer = 0 /\ d.DPB[i].pFbmBuffer # 0
          /\ e.held = d.held \ {d.DPB[i].pFbmBuffer}
      BY <1>1, <2>2
    <3>2. \A j \in Slots \ {i} :
              /\ e.DPB[j].pFbmBuffer = d.DPB[j].pFbmBuffer
              /\ d.DPB[j].pFbmBuffer # d.DPB[i].pFbmBuffer
      BY <1>1, <3>1 DEF Sound, OneOwner
    <3> QED
      BY <3>1, <3>2 DEF BuffersOf, UsedSlots, Sound
  <2> QED
    BY <2>1, <2>2
<1>6. Sound(e)
  BY <1>1, <1>2, <1>4, <1>5 DEF Sound
<1>7. \A j \in Slots : /\ e.DPB[j].nSequence = d.DPB[j].nSequence
                       /\ e.DPB[j].output => d.DPB[j].output
                       /\ e.DPB[j].ref \in {"", d.DPB[j].ref}
  BY <1>1
<1>8. /\ e.nSeqDecode = d.nSeqDecode /\ e.nSeqOutput = d.nSeqOutput
      /\ e.display = d.display
  <2>1. {"nSeqDecode", "nSeqOutput", "display"}
            \subseteq DpbFields \ {"DPB", "held"}
    BY DEF DpbFields
  <2> QED
    BY <1>1, <2>1 DEF Same
<1>9. \A n \in 0 .. 4 : Lags(d, n) => Lags(e, n)
  BY <1>7, <1>8, LagsKept
<1>10. After(d, e)
  <2>1. Range(e.display) \subseteq
            Range(d.display) \cup BuffersOf(d, WaitingSlots(d))
    BY <1>8
  <2> QED
    BY <2>1, <1>3, <1>6, <1>7, <1>9, Zenon DEF After
<1> QED
  BY <1>1, <1>7, <1>10 DEF Trimmed

UnrefStep(all, e, i) == HevcUnrefFrame(e, i, all)

UnrefGood(p, k, e) ==
    /\ Trimmed(p.d, e)
    /\ \A i \in 1 .. k : /\ e.DPB[i].pFbmBuffer # 0 => e.DPB[i].output
                         /\ e.DPB[i].output => ~p.all

UnrefLoop == INSTANCE Loop WITH Step <- UnrefStep, Good <- UnrefGood

ReturnStep(q, e, i) ==
    IF e.DPB[i].ref = "" THEN HevcUnrefFrame(e, i, FALSE) ELSE e

ReturnGood(p, k, e) ==
    /\ Trimmed(p, e)
    /\ \A i \in 1 .. k : e.DPB[i].pFbmBuffer # 0 =>
                            e.DPB[i].output \/ e.DPB[i].ref # ""

ReturnLoop == INSTANCE Loop WITH Step <- ReturnStep, Good <- ReturnGood

\* What HevcClearRefs and HevcResetClearRefs, a loop each, come to.
LEMMA UnrefTurns ==
    ASSUME NEW d, Sound(d), NEW all \in BOOLEAN,
           NEW e, e = UnrefLoop!Turns(all, d, InTurn)
    PROVE  /\ Trimmed(d, e)
           /\ \A i \in Slots : /\ e.DPB[i].pFbmBuffer # 0 => e.DPB[i].output
                               /\ e.DPB[i].output => ~all
<1> DEFINE p == [d |-> d, all |-> all]
<1>1. p.d = d /\ p.all = all
  OBVIOUS
<1>2. UnrefGood(p, 0, d)
  BY <1>1, TrimmedSelf DEF UnrefGood
<1>3. /\ nFrameBuffers \in Nat /\ DOMAIN InTurn = 1 .. nFrameBuffers
      /\ \A k \in Slots : InTurn[k] = k
  BY DpbAssumption DEF InTurn, Slots
<1> HIDE DEF p
<1>4. ASSUME NEW k \in 1 .. nFrameBuffers, NEW a, UnrefGood(p, k - 1, a)
      PROVE  UnrefGood(p, k, UnrefStep(all, a, InTurn[k]))
  <2> DEFINE b == HevcUnrefFrame(a, k, all)
  <2>0. k \in Slots
    BY DEF Slots
  <2>1. Sound(a) /\ Trimmed(d, a)
    BY <1>1, <1>4 DEF UnrefGood, Trimmed, After
  <2>2. /\ Trimmed(a, b)
        /\ b.DPB[k].pFbmBuffer # 0 => b.DPB[k].output
        /\ b.DPB[k].output => ~all
        /\ \A j \in Slots \ {k} : b.DPB[j] = a.DPB[j]
    BY <2>0, <2>1, UnrefTrims
  <2> HIDE DEF b
  <2>3. Trimmed(d, b)
    BY <2>1, <2>2, TrimmedTrimmed
  <2>4. ASSUME NEW i \in 1 .. k
        PROVE  /\ b.DPB[i].pFbmBuffer # 0 => b.DPB[i].output
               /\ b.DPB[i].output => ~all
    <3>1. CASE i = k
      BY <2>2, <3>1
    <3>2. CASE i # k
      <4>1. i \in Slots \ {k} /\ i \in 1 .. k - 1
        BY <3>2, DpbAssumption DEF Slots
      <4>2. b.DPB[i] = a.DPB[i]
        BY <2>2, <4>1
      <4>3. /\ a.DPB[i].pFbmBuffer # 0 => a.DPB[i].output
            /\ a.DPB[i].output => ~all
        BY <1>1, <1>4, <4>1 DEF UnrefGood
      <4> QED
        BY <4>2, <4>3
    <3> QED
      BY <3>1, <3>2
  <2>5. UnrefGood(p, k, b)
    BY <1>1, <2>3, <2>4 DEF UnrefGood
  <2>6. UnrefStep(all, a, InTurn[k]) = b
    BY <2>0, <1>3 DEF UnrefStep, b
  <2> QED
    BY <2>5, <2>6
<1>5. UnrefGood(p, nFrameBuffers, e)
  BY <1>2, <1>3, <1>4, UnrefLoop!TurnsReach
<1> QED
  BY <1>1, <1>5 DEF UnrefGood, Slots

\* The three loops over the pictures are what Loop speaks of: HevcClearRefs,
LEMMA ClearIsTurns ==
    ASSUME NEW d
    PROVE  HevcClearRefs(d) = UnrefLoop!Turns(FALSE, d, InTurn)
BY DEF HevcClearRefs, FoldLeft, MapThenFoldSet, UnrefLoop!Turns,
       UnrefLoop!Last, Max, UnrefStep

\* ... HevcResetClearRefs,
LEMMA ResetIsTurns ==
    ASSUME NEW d
    PROVE  HevcResetClearRefs(d) = UnrefLoop!Turns(TRUE, d, InTurn)
BY DEF HevcResetClearRefs, FoldLeft, MapThenFoldSet, UnrefLoop!Turns,
       UnrefLoop!Last, Max, UnrefStep

\* ... and the return of the pictures no reference set has.
LEMMA ReturnIsTurns ==
    ASSUME NEW d
    PROVE  ReturnUnflagged(d) = ReturnLoop!Turns(0, d, InTurn)
BY DEF ReturnUnflagged, FoldLeft, MapThenFoldSet, ReturnLoop!Turns,
       ReturnLoop!Last, Max, ReturnStep

\* HevcClearRefs leaves the pictures that wait to be displayed.
LEMMA ClearRefsIs ==
    ASSUME NEW d, Sound(d), NEW e, e = HevcClearRefs(d)
    PROVE  /\ Trimmed(d, e)
           /\ \A i \in Slots : e.DPB[i].pFbmBuffer # 0 => e.DPB[i].output
<1>1. e = UnrefLoop!Turns(FALSE, d, InTurn)
  BY ClearIsTurns
<1>2. FALSE \in BOOLEAN
  OBVIOUS
<1> QED
  BY <1>1, <1>2, UnrefTurns

\* HevcResetClearRefs leaves none.
LEMMA ResetClearRefsIs ==
    ASSUME NEW d, Sound(d), NEW e, e = HevcResetClearRefs(d)
    PROVE  /\ Trimmed(d, e) /\ e.held = {}
           /\ \A i \in Slots : e.DPB[i].pFbmBuffer = 0
<1>1. e = UnrefLoop!Turns(TRUE, d, InTurn)
  BY ResetIsTurns
<1>2. /\ Trimmed(d, e)
      /\ \A i \in Slots : /\ e.DPB[i].pFbmBuffer # 0 => e.DPB[i].output
                          /\ e.DPB[i].output => ~TRUE
  <2>1. TRUE \in BOOLEAN
    OBVIOUS
  <2> QED
    BY <1>1, <2>1, UnrefTurns
<1>3. \A i \in Slots : e.DPB[i].pFbmBuffer = 0
  BY <1>2
<1>4. Sound(e) /\ UsedSlots(e) = {}
  BY <1>2, <1>3 DEF Trimmed, After, UsedSlots
<1>5. e.held = {}
  BY <1>4 DEF Sound, BuffersOf
<1> QED
  BY <1>2, <1>3, <1>5

\* The loop of HevcConstuctFrameRps leaves those that wait and those that are
\* marked.
LEMMA ReturnUnflaggedIs ==
    ASSUME NEW d, Sound(d), NEW e, e = ReturnUnflagged(d)
    PROVE  /\ Trimmed(d, e)
           /\ \A i \in Slots : e.DPB[i].pFbmBuffer # 0 =>
                                  e.DPB[i].output \/ e.DPB[i].ref # ""
<1>1. ReturnGood(d, 0, d)
  BY TrimmedSelf DEF ReturnGood
<1>2. /\ nFrameBuffers \in Nat /\ DOMAIN InTurn = 1 .. nFrameBuffers
      /\ \A k \in Slots : InTurn[k] = k
  BY DpbAssumption DEF InTurn, Slots
<1>3. ASSUME NEW k \in 1 .. nFrameBuffers, NEW a, ReturnGood(d, k - 1, a)
      PROVE  ReturnGood(d, k, ReturnStep(0, a, InTurn[k]))
  <2> DEFINE b == ReturnStep(0, a, k)
             u == HevcUnrefFrame(a, k, FALSE)
  <2>0. k \in Slots
    BY DEF Slots
  <2>1. Sound(a) /\ Trimmed(d, a)
    BY <1>3 DEF ReturnGood, Trimmed, After
  <2>2. /\ Trimmed(a, b)
        /\ b.DPB[k].pFbmBuffer # 0 => b.DPB[k].output \/ b.DPB[k].ref # ""
        /\ \A j \in Slots \ {k} : b.DPB[j] = a.DPB[j]
    <3>1. CASE a.DPB[k].ref = ""
      <4>1. PICK no \in BOOLEAN : no = FALSE
        OBVIOUS
      <4>2. /\ Trimmed(a, u)
            /\ u.DPB[k].pFbmBuffer # 0 => u.DPB[k].output
            /\ \A j \in Slots \ {k} : u.DPB[j] = a.DPB[j]
        <5> HIDE DEF u
        <5>1. u = HevcUnrefFrame(a, k, no)
          BY <4>1, Zenon DEF u
        <5> QED
          BY <2>0, <2>1, <5>1, UnrefTrims
      <4>3. b = u
        BY <3>1 DEF ReturnStep
      <4> HIDE DEF u, b
      <4> QED
        BY <4>2, <4>3, Zenon
    <3>2. CASE a.DPB[k].ref # ""
      <4>1. b = a
        BY <3>2 DEF ReturnStep
      <4> HIDE DEF b
      <4> QED
        BY <2>1, <3>2, <4>1, TrimmedSelf
    <3> QED
      BY <3>1, <3>2
  <2> HIDE DEF b
  <2>3. Trimmed(d, b)
    BY <2>1, <2>2, TrimmedTrimmed
  <2>4. ASSUME NEW i \in 1 .. k
        PROVE  b.DPB[i].pFbmBuffer # 0 =>
                  b.DPB[i].output \/ b.DPB[i].ref # ""
    <3>1. CASE i = k
      BY <2>2, <3>1
    <3>2. CASE i # k
      <4>1. i \in Slots \ {k} /\ i \in 1 .. k - 1
        BY <3>2, DpbAssumption DEF Slots
      <4>2. b.DPB[i] = a.DPB[i]
        BY <2>2, <4>1
      <4>3. a.DPB[i].pFbmBuffer # 0 => a.DPB[i].output \/ a.DPB[i].ref # ""
        BY <1>3, <4>1 DEF ReturnGood
      <4> QED
        BY <4>2, <4>3
    <3> QED
      BY <3>1, <3>2
  <2>5. ReturnGood(d, k, b)
    BY <2>3, <2>4 DEF ReturnGood
  <2>6. ReturnStep(0, a, InTurn[k]) = b
    BY <2>0, <1>2 DEF b
  <2> QED
    BY <2>5, <2>6
<1>4. ReturnGood(d, nFrameBuffers, e)
  <2>1. e = ReturnLoop!Turns(0, d, InTurn)
    BY ReturnIsTurns
  <2> QED
    BY <1>1, <1>2, <1>3, <2>1, ReturnLoop!TurnsReach
<1> QED
  BY <1>4 DEF ReturnGood, Slots

----------------------------------------------------------------------------
(* The sequence counters. *)

\* The counter of a number not far out of its range.
LEMMA SeqWrap ==
    ASSUME NEW a \in Int, - SeqModulus <= a, a < 2 * SeqModulus
    PROVE  /\ a % SeqModulus = IF a < 0 THEN a + SeqModulus
                               ELSE IF a < SeqModulus THEN a
                               ELSE a - SeqModulus
           /\ a % SeqModulus \in Sequences
BY DpbAssumption DEF Sequences

\* The sequence counters are taken modulo SeqModulus.
LEMMA SeqAny ==
    ASSUME NEW a \in Int
    PROVE  a % SeqModulus \in Sequences
BY DpbAssumption DEF Sequences

\* The k-th sequence after the j-th after t.
LEMMA SeqAfter ==
    ASSUME NEW t \in Sequences, NEW j \in 0 .. 4, NEW k \in 0 .. 4,
           j + k <= 4
    PROVE  (((t + j) % SeqModulus) + k) % SeqModulus
              = (t + (j + k)) % SeqModulus
<1> DEFINE a == t + j
           x == a % SeqModulus
           b == x + k
           c == t + (j + k)
           y == b % SeqModulus
           z == c % SeqModulus
<1>1. /\ SeqModulus \in Nat /\ SeqModulus > 4
      /\ a \in Int /\ 0 <= a /\ a < 2 * SeqModulus
      /\ c \in Int /\ 0 <= c /\ c < 2 * SeqModulus /\ c = a + k
      /\ c < SeqModulus + 4
  BY DpbAssumption DEF Sequences
<1> HIDE DEF a, c
<1>2. x = IF a < SeqModulus THEN a ELSE a - SeqModulus
  BY <1>1, SeqWrap
<1>3. z = IF c < SeqModulus THEN c ELSE c - SeqModulus
  BY <1>1, SeqWrap
<1> HIDE DEF x, z
<1>4. b \in Int /\ 0 <= b /\ b < 2 * SeqModulus
  BY <1>1, <1>2
<1>5. b = IF a < SeqModulus THEN c ELSE c - SeqModulus
  BY <1>1, <1>2
<1> HIDE DEF b
<1>6. y = IF b < SeqModulus THEN b ELSE b - SeqModulus
  BY <1>1, <1>4, SeqWrap
<1> HIDE DEF y
<1>7. y = z
  BY <1>1, <1>3, <1>4, <1>5, <1>6
<1> QED
  BY <1>7 DEF y, z, b, c, x, a

\* How far the u-th sequence after t is from it.
LEMMA SeqDistance ==
    ASSUME NEW t \in Sequences, NEW u \in 0 .. 4,
           NEW s, s = (t + u) % SeqModulus
    PROVE  /\ (s - t) % SeqModulus = u
           /\ s = t => u = 0
<1> DEFINE a == t + u
           b == s - t
           y == b % SeqModulus
<1>1. /\ SeqModulus \in Nat /\ SeqModulus > 4
      /\ a \in Int /\ 0 <= a /\ a < 2 * SeqModulus /\ a = t + u
      /\ s = a % SeqModulus /\ t \in Int /\ u \in Int /\ u <= 4 /\ 0 <= u
  BY DpbAssumption DEF Sequences
<1> HIDE DEF a
<1>2. s = IF a < SeqModulus THEN a ELSE a - SeqModulus
  BY <1>1, SeqWrap
<1>3. b = (IF a < SeqModulus THEN u ELSE u - SeqModulus) /\ b \in Int
  BY <1>1, <1>2
<1>4. s = t => u = 0
  BY <1>1, <1>2
<1> HIDE DEF b
<1>5. y = IF b < 0 THEN b + SeqModulus
          ELSE IF b < SeqModulus THEN b ELSE b - SeqModulus
  BY <1>1, <1>3, SeqWrap
<1> HIDE DEF y
<1>6. y = u
  BY <1>1, <1>3, <1>5
<1> QED
  BY <1>4, <1>6 DEF y, b

\* A set of numbers that is not empty has a least one.
LEMMA LeastNat ==
    ASSUME NEW S \in SUBSET Nat, S # {}
    PROVE  Min(S) \in S /\ \A y \in S : Min(S) <= y
<1>1. PICK x \in S : \A y \in S : ~ (<<y, x>> \in OpToRel(<, Nat))
  BY WFMin, NatLessThanWellFounded
<1>2. ASSUME NEW y \in S PROVE x <= y
  <2> SUFFICES ASSUME y < x PROVE FALSE
    OBVIOUS
  <2>1. <<y, x>> \in Nat \X Nat /\ y < x
    OBVIOUS
  <2>2. <<y, x>> \in {ss \in Nat \X Nat : ss[1] < ss[2]}
    BY <2>1
  <2>3. <<y, x>> \in OpToRel(<, Nat)
    BY <2>2, Zenon DEF OpToRel
  <2> QED
    BY <1>1, <2>3
<1> QED
  BY <1>2 DEF Min

\* FirstOf is one of the pictures it is given.
LEMMA FirstOfIs ==
    ASSUME NEW d, Sound(d), NEW W \in SUBSET Slots, W # {}
    PROVE  FirstOf(d, W) \in W
<1> DEFINE Least(i, S) == \A j \in S : d.DPB[i].nPoc <= d.DPB[j].nPoc
           Up(m) == W \cap (1 .. m)
           T == {m \in 0 .. nFrameBuffers :
                    Up(m) = {} \/ \E i \in Up(m) : Least(i, Up(m))}
<1>1. nFrameBuffers \in Nat /\ \A i \in Slots : d.DPB[i].nPoc \in Int
  BY DpbAssumption DEF Sound, SoundFrame
<1>2. 0 \in T
  BY <1>1
<1>3. ASSUME NEW m \in 0 .. nFrameBuffers - 1, m \in T PROVE m + 1 \in T
  <2>0. m + 1 \in 0 .. nFrameBuffers
    BY <1>1
  <2>1. CASE m + 1 \notin W
    <3>1. Up(m + 1) = Up(m)
      BY <2>1
    <3> HIDE DEF Up, Least
    <3> QED
      BY <1>3, <2>0, <3>1
  <2>2. CASE m + 1 \in W
    <3>1. Up(m + 1) = Up(m) \cup {m + 1} /\ m + 1 \in Slots
      BY <2>2
    <3>2. Up(m + 1) \subseteq Slots
      OBVIOUS
    <3> HIDE DEF Up
    <3>3. \E i \in Up(m + 1) : Least(i, Up(m + 1))
      <4>1. CASE Up(m) = {}
        BY <1>1, <3>1, <4>1
      <4>2. CASE \E i \in Up(m) : Least(i, Up(m))
        <5>1. PICK i \in Up(m) : Least(i, Up(m))
          BY <4>2
        <5>2. i \in Slots
          BY <3>1, <3>2
        <5>3. CASE d.DPB[i].nPoc <= d.DPB[m + 1].nPoc
          BY <3>1, <5>1, <5>3
        <5>4. CASE ~ (d.DPB[i].nPoc <= d.DPB[m + 1].nPoc)
          <6>1. ASSUME NEW j \in Up(m + 1)
                PROVE  d.DPB[m + 1].nPoc <= d.DPB[j].nPoc
            <7>1. j \in Slots
              BY <3>2
            <7>2. j # m + 1 => d.DPB[i].nPoc <= d.DPB[j].nPoc
              BY <3>1, <5>1
            <7> QED
              BY <1>1, <3>1, <5>2, <5>4, <7>1, <7>2
          <6> QED
            BY <3>1, <6>1
        <5> QED
          BY <5>3, <5>4
      <4> HIDE DEF Least
      <4> QED
        BY <1>3, <4>1, <4>2
    <3> QED
      BY <2>0, <3>3
  <2> QED
    BY <2>1, <2>2
<1>4. nFrameBuffers \in T
  <2> HIDE DEF T
  <2>1. 0 .. nFrameBuffers \subseteq T
    BY <1>1, <1>2, <1>3, UnrefLoop!CountUp
  <2> QED
    BY <1>1, <2>1
<1>5. Up(nFrameBuffers) = W
  BY DEF Slots
<1>6. \E i \in W : \A j \in W : d.DPB[i].nPoc <= d.DPB[j].nPoc
  BY <1>4, <1>5
<1> QED
  BY <1>6 DEF FirstOf

----------------------------------------------------------------------------
(* What goes to the display. *)

\* A value of the pictures with an output sequence and a last order count.
MovedTo(d, q, n) == [d EXCEPT !.nSeqOutput = q, !.nLastDispPoc = n]

\* The shape, the pictures and the owners depend on these fields only.
LEMMA SoundKept ==
    ASSUME NEW d, Sound(d), NEW e,
           Same(d, e, {"nSeqOutput", "nLastDispPoc", "bIsFirstPicture",
                       "PtsList", "shown"}),
           e.nSeqOutput \in Sequences
    PROVE  Sound(e)
<1>1. {"DPB", "pCurrDPB", "Rps", "nSeqDecode", "held", "display"}
          \subseteq DpbFields \ {"nSeqOutput", "nLastDispPoc",
                                 "bIsFirstPicture", "PtsList", "shown"}
  BY DEF DpbFields
<1>2. /\ e.DPB = d.DPB /\ e.pCurrDPB = d.pCurrDPB /\ e.Rps = d.Rps
      /\ e.nSeqDecode = d.nSeqDecode /\ e.held = d.held
      /\ e.display = d.display
  BY <1>1 DEF Same
<1>3. DOMAIN e = DpbFields
  BY DEF Same
<1>4. SoundShape(e)
  BY <1>2, <1>3 DEF Sound, SoundShape
<1> QED
  BY <1>2, <1>4 DEF Sound, OneOwner, BuffersOf, UsedSlots

\* The output goes on to another sequence.
LEMMA MovedToIs ==
    ASSUME NEW d, Sound(d), NEW q, NEW n, NEW e, e = MovedTo(d, q, n)
    PROVE  /\ Same(d, e, {"nSeqOutput", "nLastDispPoc"})
           /\ e.nSeqOutput = q /\ e.nLastDispPoc = n
           /\ e.DPB = d.DPB /\ e.nSeqDecode = d.nSeqDecode
           /\ e.display = d.display /\ e.held = d.held
<1>1. DOMAIN d = DpbFields
  BY DEF Sound, SoundShape
<1>2. /\ Same(d, e, {"nSeqOutput", "nLastDispPoc"})
      /\ e.nSeqOutput = q /\ e.nLastDispPoc = n
  BY <1>1 DEF MovedTo, Same, DpbFields
<1>3. {"DPB", "nSeqDecode", "display", "held"}
          \subseteq DpbFields \ {"nSeqOutput", "nLastDispPoc"}
  BY DEF DpbFields
<1> QED
  BY <1>2, <1>3 DEF Same

\* The sequence the output comes to: it passes no waiting picture by, and
\* stops before the last sequence only where a picture waits.
LEMMA OutputSequenceIs ==
    ASSUME NEW d, Sound(d), NEW q, q = OutputSequence(d)
    PROVE  /\ q \in Sequences
           /\ Waiting(d, q) = {} =>
                 q = (d.nSeqOutput + ((d.nSeqDecode - d.nSeqOutput)
                                      % SeqModulus)) % SeqModulus
           /\ \A u \in 0 .. 4 : LagsBy(d, u) => \E k \in 0 .. u :
                 /\ q = (d.nSeqOutput + k) % SeqModulus
                 /\ \A w \in 0 .. u :
                       Waiting(d, (d.nSeqOutput + w) % SeqModulus) # {}
                           => k <= w
<1> DEFINE dist == (d.nSeqDecode - d.nSeqOutput) % SeqModulus
           seq(k) == (d.nSeqOutput + k) % SeqModulus
           K == {k \in 0 .. dist : k = dist \/ Waiting(d, seq(k)) # {}}
<1>1. /\ d.nSeqDecode \in Sequences /\ d.nSeqOutput \in Sequences
      /\ d.nSeqDecode \in Int /\ d.nSeqOutput \in Int
  BY DEF Sound, SoundShape, Sequences
<1>2. dist \in Nat
  <2> DEFINE a == d.nSeqDecode - d.nSeqOutput
  <2>1. a \in Int
    BY <1>1
  <2> HIDE DEF a
  <2>2. a % SeqModulus \in Sequences
    BY <2>1, SeqAny
  <2> QED
    BY <2>2 DEF a, Sequences
<1>3. q = seq(Min(K))
  BY DEF OutputSequence
<1>4. ASSUME NEW k \in Int PROVE seq(k) \in Sequences
  <2> DEFINE a == d.nSeqOutput + k
  <2>1. a \in Int
    BY <1>1
  <2> HIDE DEF a
  <2>2. a % SeqModulus \in Sequences
    BY <2>1, SeqAny
  <2> QED
    BY <2>2 DEF a
<1>5. \A u \in 0 .. 4 : LagsBy(d, u) => dist = u
  <2> SUFFICES ASSUME NEW u \in 0 .. 4, LagsBy(d, u) PROVE dist = u
    OBVIOUS
  <2>1. d.nSeqDecode = (d.nSeqOutput + u) % SeqModulus
    BY DEF LagsBy
  <2> QED
    BY <1>1, <2>1, SeqDistance
<1> HIDE DEF dist, seq
<1>6. Min(K) \in K /\ \A y \in K : Min(K) <= y
  <2>1. K \in SUBSET Nat /\ dist \in K
    BY <1>2
  <2> HIDE DEF K
  <2> QED
    BY <2>1, LeastNat
<1> DEFINE m == Min(K)
<1>7. m \in 0 .. dist /\ (m = dist \/ Waiting(d, seq(m)) # {})
  BY <1>6
<1> HIDE DEF m
<1>8. q \in Sequences
  BY <1>2, <1>3, <1>4, <1>7 DEF m
<1>9. Waiting(d, q) = {} => q = seq(dist)
  BY <1>3, <1>7 DEF m
<1>10. ASSUME NEW u \in 0 .. 4, LagsBy(d, u)
       PROVE  /\ m \in 0 .. u /\ q = seq(m)
              /\ \A w \in 0 .. u : Waiting(d, seq(w)) # {} => m <= w
  <2>1. dist = u
    BY <1>5, <1>10
  <2>2. \A w \in 0 .. u : Waiting(d, seq(w)) # {} => w \in K
    BY <2>1
  <2> QED
    BY <1>3, <1>6, <1>7, <2>1, <2>2 DEF m
<1> QED
  BY <1>8, <1>9, <1>10 DEF seq, dist

\* The pictures when the output has come to its sequence.
LEMMA AtSequenceIs ==
    ASSUME NEW d, Sound(d), NEW e, e = AtSequence(d)
    PROVE  /\ After(d, e) /\ Same(d, e, {"nSeqOutput", "nLastDispPoc"})
           /\ Lags(d, 4) /\ Waiting(e, e.nSeqOutput) = {}
                  => e.nSeqOutput = e.nSeqDecode
<1> DEFINE q == OutputSequence(d)
<1>1. /\ q \in Sequences
      /\ Waiting(d, q) = {} =>
            q = (d.nSeqOutput + ((d.nSeqDecode - d.nSeqOutput)
                                 % SeqModulus)) % SeqModulus
      /\ \A u \in 0 .. 4 : LagsBy(d, u) => \E k \in 0 .. u :
            /\ q = (d.nSeqOutput + k) % SeqModulus
            /\ \A w \in 0 .. u :
                  Waiting(d, (d.nSeqOutput + w) % SeqModulus) # {} => k <= w
  BY OutputSequenceIs
<1>2. e = IF q = d.nSeqOutput THEN d ELSE MovedTo(d, q, HEVC_INT_MAX)
  BY DEF AtSequence, MovedTo
<1> HIDE DEF q
<1>3. /\ Same(d, e, {"nSeqOutput", "nLastDispPoc"})
      /\ e.nSeqOutput = q /\ e.DPB = d.DPB /\ e.nSeqDecode = d.nSeqDecode
      /\ e.display = d.display
  <2>1. CASE q = d.nSeqOutput
    BY <1>2, <2>1 DEF Same, Sound, SoundShape
  <2>2. CASE q # d.nSeqOutput
    BY <1>2, <2>2, MovedToIs
  <2> QED
    BY <2>1, <2>2
<1>4. Sound(e)
  <2>1. Same(d, e, {"nSeqOutput", "nLastDispPoc", "bIsFirstPicture",
                    "PtsList", "shown"})
    BY <1>3 DEF Same
  <2> QED
    BY <1>1, <1>3, <2>1, SoundKept
<1>5. /\ d.nSeqOutput \in Sequences /\ d.nSeqDecode \in Sequences
  BY DEF Sound, SoundShape
<1>6. ASSUME NEW u \in 0 .. 4, LagsBy(d, u)
      PROVE  \E v \in 0 .. u : LagsBy(e, v)
  <2>1. PICK k \in 0 .. u :
            /\ q = (d.nSeqOutput + k) % SeqModulus
            /\ \A w \in 0 .. u :
                  Waiting(d, (d.nSeqOutput + w) % SeqModulus) # {} => k <= w
    BY <1>1, <1>6
  <2>2. \A w \in 0 .. u : k <= w =>
            (d.nSeqOutput + w) % SeqModulus
                = (q + (w - k)) % SeqModulus
    <3> SUFFICES ASSUME NEW w \in 0 .. u, k <= w
                 PROVE  (d.nSeqOutput + w) % SeqModulus
                            = (q + (w - k)) % SeqModulus
      OBVIOUS
    <3> DEFINE t == d.nSeqOutput
               j == w - k
    <3>1. /\ j \in 0 .. 4 /\ k \in 0 .. 4 /\ k + j <= 4 /\ k + j = w
          /\ t \in Sequences
      BY <1>5
    <3> HIDE DEF j, t
    <3>2. (((t + k) % SeqModulus) + j) % SeqModulus
              = (t + (k + j)) % SeqModulus
      BY <3>1, SeqAfter
    <3>3. q = (t + k) % SeqModulus
      BY <2>1 DEF t
    <3>4. (q + j) % SeqModulus = (t + w) % SeqModulus
      BY <3>1, <3>2, <3>3
    <3> QED
      BY <3>4 DEF j, t
  <2>3. e.nSeqDecode = (e.nSeqOutput + (u - k)) % SeqModulus
    <3>1. u \in 0 .. u /\ k <= u
      OBVIOUS
    <3>2. d.nSeqDecode = (d.nSeqOutput + u) % SeqModulus
      BY <1>6 DEF LagsBy
    <3>3. (d.nSeqOutput + u) % SeqModulus = (q + (u - k)) % SeqModulus
      BY <2>2, <3>1
    <3> QED
      BY <1>3, <3>2, <3>3
  <2>4. ASSUME NEW i \in Slots, e.DPB[i].output
        PROVE  \E w \in 0 .. u - k :
                  e.DPB[i].nSequence = (e.nSeqOutput + w) % SeqModulus
    <3>1. d.DPB[i].output
      BY <1>3, <2>4
    <3>2. PICK w \in 0 .. u :
              d.DPB[i].nSequence = (d.nSeqOutput + w) % SeqModulus
      BY <1>6, <3>1 DEF LagsBy
    <3>3. i \in Waiting(d, (d.nSeqOutput + w) % SeqModulus)
      BY <3>1, <3>2 DEF Waiting
    <3>4. k <= w /\ w - k \in 0 .. u - k
      <4>1. Waiting(d, (d.nSeqOutput + w) % SeqModulus) # {}
        BY <3>3, Zenon
      <4>2. k <= w
        BY <2>1, <4>1, Zenon
      <4> QED
        BY <4>2
    <3>5. (d.nSeqOutput + w) % SeqModulus = (q + (w - k)) % SeqModulus
      BY <2>2, <3>4
    <3>6. e.DPB[i].nSequence = (e.nSeqOutput + (w - k)) % SeqModulus
      BY <1>3, <3>2, <3>5
    <3> QED
      BY <3>4, <3>6
  <2>5. u - k \in 0 .. u
    OBVIOUS
  <2> QED
    BY <2>3, <2>4, <2>5 DEF LagsBy
<1>7. \A n \in 0 .. 4 : Lags(d, n) => Lags(e, n)
  <2> SUFFICES ASSUME NEW n \in 0 .. 4, Lags(d, n) PROVE Lags(e, n)
    OBVIOUS
  <2>1. PICK u \in 0 .. n : LagsBy(d, u)
    BY DEF Lags
  <2>2. PICK v \in 0 .. u : LagsBy(e, v)
    BY <1>6, <2>1
  <2> QED
    BY <2>2 DEF Lags
<1>8. ASSUME Lags(d, 4), Waiting(e, e.nSeqOutput) = {}
      PROVE  e.nSeqOutput = e.nSeqDecode
  <2>1. PICK u \in 0 .. 4 : LagsBy(d, u)
    BY <1>8 DEF Lags
  <2>2. d.nSeqDecode = (d.nSeqOutput + u) % SeqModulus
    BY <2>1 DEF LagsBy
  <2>3. Waiting(d, q) = {}
    BY <1>3, <1>8 DEF Waiting
  <2>4. (d.nSeqDecode - d.nSeqOutput) % SeqModulus = u
    BY <1>5, <2>2, SeqDistance
  <2> QED
    BY <1>1, <1>3, <2>2, <2>3, <2>4
<1>9. After(d, e)
  <2>1. \A i \in Slots :
            /\ e.DPB[i].pFbmBuffer \in {0, d.DPB[i].pFbmBuffer}
            /\ e.DPB[i].output => d.DPB[i].output
    BY <1>3
  <2>2. Range(e.display) \subseteq
            Range(d.display) \cup BuffersOf(d, WaitingSlots(d))
    BY <1>3
  <2> QED
    BY <1>4, <1>7, <2>1, <2>2 DEF After
<1> QED
  BY <1>3, <1>8, <1>9

\* A picture is output: its buffer goes to the display, or to nobody.
LEMMA OutputIs ==
    ASSUME NEW d, Sound(d), NEW i \in Slots, NEW e, e = Output(d, i)
    PROVE  /\ Same(d, e, {"DPB", "bIsFirstPicture", "nLastDispPoc", "PtsList",
                          "display", "shown"})
           /\ SlotsDiffer(d, e, i, "output") /\ e.DPB[i].output = FALSE
           /\ e.display \in {d.display,
                             Append(d.display, d.DPB[i].pFbmBuffer)}
<1> DEFINE nPts == IF d.PtsList = {} THEN 0 ELSE Min(d.PtsList)
           list == d.PtsList \ {nPts}
           nPoc == d.DPB[i].nPoc
<1>1. PICK no : no = FALSE
  OBVIOUS
<1>2. PICK output : output = "output"
  OBVIOUS
<1> DEFINE p == PutSlot(d, i, output, no)
           q == Put(Put(Put(p, "bIsFirstPicture", no), "nLastDispPoc", nPoc),
                    "PtsList", list)
           disp == Append(q.display, q.DPB[i].pFbmBuffer)
           sh == Append(q.shown, [ord |-> q.DPB[i].ord, nPts |-> nPts])
           r == Put(Put(q, "display", disp), "shown", sh)
<1>3. e = IF Displayed(d.DPB[i]) THEN r ELSE q
  <2>1. q = [d EXCEPT !.DPB[i].output = FALSE, !.bIsFirstPicture = FALSE,
                      !.nLastDispPoc = nPoc, !.PtsList = list]
    BY <1>1, <1>2 DEF Put, PutSlot
  <2> HIDE DEF list, nPoc, p, q
  <2>2. r = FbmShareBuffer(q, i, nPts)
    BY DEF FbmShareBuffer, Put
  <2> QED
    BY <2>1, <2>2 DEF Output, list, nPoc
<1>4. Shaped(d)
  BY DEF Shaped, Sound, SoundShape, SoundFrame
<1> HIDE DEF p, q, r, nPts, list, nPoc, disp, sh
<1>5. /\ output \in FrameFields /\ "pFbmBuffer" \in FrameFields \ {output}
      /\ "bIsFirstPicture" \in DpbFields \ {"DPB"}
      /\ "nLastDispPoc" \in DpbFields \ {"DPB"}
      /\ "PtsList" \in DpbFields \ {"DPB"}
      /\ "display" \in DpbFields \ {"DPB"} /\ "shown" \in DpbFields \ {"DPB"}
  BY <1>2 DEF FrameFields, DpbFields
<1>6. /\ Shaped(p) /\ Same(d, p, {"DPB"}) /\ SlotsDiffer(d, p, i, output)
      /\ p.DPB[i][output] = no
  BY <1>4, <1>5, PutSlotIs DEF p
<1>7. /\ Same(p, q, {"bIsFirstPicture", "nLastDispPoc", "PtsList"})
      /\ q.DPB = p.DPB /\ Shaped(q)
  <2> DEFINE u == Put(p, "bIsFirstPicture", no)
             w == Put(u, "nLastDispPoc", nPoc)
  <2>1. q = Put(w, "PtsList", list)
    BY DEF q
  <2>2. Same(p, u, {"bIsFirstPicture"}) /\ Shaped(u)
    BY <1>5, <1>6, PutIs, Zenon
  <2> HIDE DEF u
  <2>3. Same(u, w, {"nLastDispPoc"}) /\ Shaped(w)
    BY <1>5, <2>2, PutIs, Zenon
  <2> HIDE DEF w
  <2>4. Same(w, q, {"PtsList"}) /\ Shaped(q)
    BY <1>5, <2>1, <2>3, PutIs, Zenon
  <2>5. Same(p, q, {"bIsFirstPicture", "nLastDispPoc", "PtsList"})
    BY <2>2, <2>3, <2>4 DEF Same
  <2>6. q.DPB = p.DPB
    BY <2>5 DEF Same, DpbFields
  <2> QED
    BY <2>4, <2>5, <2>6
<1>8. /\ Same(q, r, {"display", "shown"}) /\ r.display = disp
      /\ r.DPB = q.DPB
  <2> DEFINE u == Put(q, "display", disp)
  <2>1. r = Put(u, "shown", sh)
    BY DEF r
  <2>2. Same(q, u, {"display"}) /\ Shaped(u) /\ u.display = disp
    <3>1. PICK display : display = "display"
      OBVIOUS
    <3>2. display \in DpbFields \ {"DPB"} /\ u = Put(q, display, disp)
      BY <1>5, <3>1
    <3> HIDE DEF u
    <3>3. Same(q, u, {display}) /\ Shaped(u) /\ u[display] = disp
      BY <1>7, <3>2, PutIs
    <3> QED
      BY <3>1, <3>3
  <2> HIDE DEF u
  <2>3. Same(u, r, {"shown"}) /\ Shaped(r)
    BY <1>5, <2>1, <2>2, PutIs, Zenon
  <2>4. Same(q, r, {"display", "shown"})
    BY <2>2, <2>3 DEF Same
  <2>5. r.DPB = q.DPB /\ r.display = disp
    BY <2>2, <2>3, <2>4 DEF Same, DpbFields
  <2> QED
    BY <2>2, <2>4, <2>5
<1>9. e.DPB = p.DPB
  BY <1>3, <1>7, <1>8
<1>10. Same(d, e, {"DPB", "bIsFirstPicture", "nLastDispPoc", "PtsList",
                   "display", "shown"})
  BY <1>3, <1>6, <1>7, <1>8 DEF Same
<1>11. SlotsDiffer(d, e, i, "output") /\ e.DPB[i].output = FALSE
  BY <1>1, <1>2, <1>6, <1>9, Zenon DEF SlotsDiffer
<1>12. e.display \in {d.display, Append(d.display, d.DPB[i].pFbmBuffer)}
  <2>1. q.display = d.display
    BY <1>6, <1>7 DEF Same, DpbFields
  <2>2. q.DPB[i].pFbmBuffer = d.DPB[i].pFbmBuffer
    BY <1>5, <1>6, <1>7 DEF SlotsDiffer
  <2> QED
    BY <1>3, <1>8, <2>1, <2>2 DEF disp
<1> QED
  BY <1>10, <1>11, <1>12

\* A picture is output (h265_ref.c:1090).
LEMMA OutputAfter ==
    ASSUME NEW d, Sound(d), NEW i \in Slots, d.DPB[i].output,
           NEW e, e = Output(d, i)
    PROVE  After(d, e)
<1>1. /\ Same(d, e, {"DPB", "bIsFirstPicture", "nLastDispPoc", "PtsList",
                     "display", "shown"})
      /\ SlotsDiffer(d, e, i, "output") /\ e.DPB[i].output = FALSE
      /\ e.display \in {d.display, Append(d.display, d.DPB[i].pFbmBuffer)}
  BY OutputIs
<1>2. /\ e.pCurrDPB = d.pCurrDPB /\ e.nSeqDecode = d.nSeqDecode
      /\ e.nSeqOutput = d.nSeqOutput /\ e.Rps = d.Rps /\ e.held = d.held
  <2>1. {"pCurrDPB", "nSeqDecode", "nSeqOutput", "Rps", "held"}
            \subseteq DpbFields \ {"DPB", "bIsFirstPicture", "nLastDispPoc",
                                   "PtsList", "display", "shown"}
    BY DEF DpbFields
  <2> QED
    BY <1>1, <2>1 DEF Same
<1>3. \A j \in Slots :
          /\ e.DPB[j].pFbmBuffer = d.DPB[j].pFbmBuffer
          /\ e.DPB[j].nPoc = d.DPB[j].nPoc
          /\ e.DPB[j].nSequence = d.DPB[j].nSequence
          /\ e.DPB[j].ref = d.DPB[j].ref
  <2>1. {"pFbmBuffer", "nPoc", "nSequence", "ref"}
            \subseteq FrameFields \ {"output"}
    BY DEF FrameFields
  <2>2. /\ \A j \in Slots \ {i} : e.DPB[j] = d.DPB[j]
        /\ \A y \in FrameFields \ {"output"} : e.DPB[i][y] = d.DPB[i][y]
    BY <1>1, Zenon DEF SlotsDiffer
  <2> QED
    BY <2>1, <2>2
<1>4. \A j \in Slots : /\ e.DPB[j].output => d.DPB[j].output
                       /\ e.DPB[j].output \in BOOLEAN
  <2>1. \A j \in Slots \ {i} : e.DPB[j] = d.DPB[j]
    BY <1>1, Zenon DEF SlotsDiffer
  <2>2. \A j \in Slots : d.DPB[j].output \in BOOLEAN
    BY DEF Sound, SoundFrame
  <2> QED
    BY <1>1, <2>1, <2>2, Zenon
<1>5. \A j \in Slots : SoundFrame(e.DPB[j])
  <2> SUFFICES ASSUME NEW j \in Slots PROVE SoundFrame(e.DPB[j])
    OBVIOUS
  <2>1. SoundFrame(d.DPB[j])
    BY DEF Sound
  <2>2. DOMAIN e.DPB[j] = FrameFields
    BY <1>1, <2>1 DEF SlotsDiffer, SoundFrame
  <2>3. e.DPB[j].output => e.DPB[j].pFbmBuffer # 0
    BY <1>3, <1>4, <2>1, Zenon DEF SoundFrame
  <2>4. e.DPB[j].output \in BOOLEAN
    BY <1>4
  <2> QED
    BY <1>3, <2>1, <2>2, <2>3, <2>4, Zenon DEF SoundFrame
<1>6. d.DPB[i].pFbmBuffer \in Buffers /\ d.display \in Seq(Buffers)
  BY DEF Sound, SoundFrame, SoundShape
<1>7. /\ e.display \in Seq(Buffers)
      /\ Range(e.display) \subseteq
             Range(d.display) \cup {d.DPB[i].pFbmBuffer}
  <2>1. CASE e.display = d.display
    BY <1>6, <2>1
  <2>2. CASE e.display = Append(d.display, d.DPB[i].pFbmBuffer)
    BY <1>6, <2>2 DEF Range
  <2> QED
    BY <1>1, <2>1, <2>2
<1>8. SoundShape(e)
  <2>1. DOMAIN e = DpbFields /\ DOMAIN e.DPB = Slots
    BY <1>1 DEF Same, SlotsDiffer
  <2>2. SoundShape(d)
    BY DEF Sound
  <2> QED
    BY <1>2, <1>7, <2>1, <2>2 DEF SoundShape
<1>9. Sound(e)
  <2>1. UsedSlots(e) = UsedSlots(d)
    BY <1>3 DEF UsedSlots
  <2>2. BuffersOf(e, UsedSlots(e)) = BuffersOf(d, UsedSlots(d))
    BY <1>3, <2>1 DEF BuffersOf, UsedSlots
  <2>3. OneOwner(e)
    BY <1>3 DEF OneOwner, Sound
  <2> QED
    BY <1>2, <1>5, <1>8, <2>2, <2>3 DEF Sound
<1>10. \A n \in 0 .. 4 : Lags(d, n) => Lags(e, n)
  <2>1. \A j \in Slots : /\ e.DPB[j].nSequence = d.DPB[j].nSequence
                         /\ e.DPB[j].output => d.DPB[j].output
    BY <1>3, <1>4
  <2> QED
    BY <1>2, <2>1, LagsKept
<1>11. \A j \in Slots :
           /\ e.DPB[j].pFbmBuffer \in {0, d.DPB[j].pFbmBuffer}
           /\ e.DPB[j].output => d.DPB[j].output
  BY <1>3, <1>4
<1>12. d.DPB[i].pFbmBuffer \in BuffersOf(d, WaitingSlots(d))
  BY DEF BuffersOf, WaitingSlots
<1>13. Range(e.display) \subseteq
           Range(d.display) \cup BuffersOf(d, WaitingSlots(d))
  BY <1>7, <1>12
<1> QED
  BY <1>9, <1>10, <1>11, <1>13, Zenon DEF After

\* The last order count that was displayed is another.
LEMMA LastDispPocAfter ==
    ASSUME NEW d, Sound(d), NEW e, Same(d, e, {"nLastDispPoc"})
    PROVE  After(d, e)
<1>1. {"DPB", "nSeqOutput", "nSeqDecode", "display"}
          \subseteq DpbFields \ {"nLastDispPoc"}
  BY DEF DpbFields
<1>2. /\ e.DPB = d.DPB /\ e.nSeqOutput = d.nSeqOutput
      /\ e.nSeqDecode = d.nSeqDecode /\ e.display = d.display
  BY <1>1 DEF Same
<1>3. Sound(e)
  <2>1. Same(d, e, {"nSeqOutput", "nLastDispPoc", "bIsFirstPicture",
                    "PtsList", "shown"})
    BY DEF Same
  <2>2. e.nSeqOutput \in Sequences
    BY <1>2 DEF Sound, SoundShape
  <2> QED
    BY <2>1, <2>2, SoundKept
<1>4. \A n \in 0 .. 4 : Lags(d, n) => Lags(e, n)
  BY <1>2 DEF Lags, LagsBy
<1>5. Range(e.display) \subseteq
          Range(d.display) \cup BuffersOf(d, WaitingSlots(d))
  BY <1>2
<1> QED
  BY <1>2, <1>3, <1>4, <1>5 DEF After

\* What HevcOutputFrame does, whether it outputs a picture or not.
LEMMA OutputFrameAfter ==
    ASSUME NEW d, Sound(d), NEW bFlush \in BOOLEAN,
           NEW e, e = HevcOutputFrame(d, bFlush)
    PROVE  After(d, e)
<1> DEFINE a == AtSequence(d)
           W == Waiting(a, a.nSeqOutput)
           o == Output(a, FirstOf(a, W))
           m == [a EXCEPT !.nLastDispPoc = HEVC_INT_MAX]
<1>1. After(d, a) /\ Sound(a)
  BY AtSequenceIs DEF After
<1>2. e \in {a, m} \/ (W # {} /\ e = o)
  BY DEF HevcOutputFrame
<1> HIDE DEF a
<1>3. CASE e = a
  BY <1>1, <1>3
<1>4. CASE e = m
  <2>1. DOMAIN a = DpbFields
    BY <1>1 DEF Sound, SoundShape
  <2>2. Same(a, m, {"nLastDispPoc"})
    BY <2>1 DEF Same, DpbFields
  <2> HIDE DEF m
  <2>3. After(a, m)
    BY <1>1, <2>2, LastDispPocAfter
  <2> QED
    BY <1>1, <1>4, <2>3, AfterAfter
<1>5. CASE W # {} /\ e = o
  <2>1. W \in SUBSET Slots /\ \A i \in W : a.DPB[i].output
    BY DEF Waiting
  <2> HIDE DEF W
  <2>2. FirstOf(a, W) \in W
    BY <1>1, <1>5, <2>1, FirstOfIs
  <2> DEFINE i == FirstOf(a, W)
  <2>3. i \in Slots /\ a.DPB[i].output
    BY <2>1, <2>2
  <2> HIDE DEF i
  <2>4. After(a, Output(a, i))
    BY <1>1, <2>3, OutputAfter
  <2> QED
    BY <1>1, <1>5, <2>4, AfterAfter DEF i
<1> QED
  BY <1>2, <1>3, <1>4, <1>5

\* When no picture is due, no other sequence's picture waits, and not more
\* pictures than may be reordered.
LEMMA NotDueIs ==
    ASSUME NEW d, Sound(d), Lags(d, 4), ~ OutputDue(d, FALSE),
           NEW e, e = HevcOutputFrame(d, FALSE)
    PROVE  /\ After(d, e) /\ Lags(e, 0) /\ e.display = d.display
           /\ Same(d, e, {"nSeqOutput", "nLastDispPoc"})
           /\ IsFiniteSet(WaitingSlots(e))
           /\ Cardinality(WaitingSlots(e)) <= nMaxNumReoderPics
<1> DEFINE a == AtSequence(d)
           W == Waiting(a, a.nSeqOutput)
           m == [a EXCEPT !.nLastDispPoc = HEVC_INT_MAX]
<1>1. /\ After(d, a) /\ Sound(a) /\ Lags(a, 4)
      /\ Same(d, a, {"nSeqOutput", "nLastDispPoc"})
      /\ W = {} => a.nSeqOutput = a.nSeqDecode
  BY AtSequenceIs DEF After
<1>2. /\ e = a \/ e = m
      /\ W = {} \/ (a.nSeqOutput = a.nSeqDecode
                    /\ ~ (Cardinality(W) > nMaxNumReoderPics))
  <2>1. ~ (NeedOutput(a, FALSE) /\ W # {})
    BY DEF OutputDue
  <2>2. W # {} => a.nSeqOutput = a.nSeqDecode
                  /\ ~ (Cardinality(W) > nMaxNumReoderPics)
    BY <2>1 DEF NeedOutput
  <2> QED
    BY <2>1, <2>2 DEF HevcOutputFrame
<1> HIDE DEF a
<1>3. a.nSeqOutput = a.nSeqDecode
  BY <1>1, <1>2
<1>4. LagsBy(a, 0)
  <2>1. PICK u \in 0 .. 4 : LagsBy(a, u)
    BY <1>1 DEF Lags
  <2>2. a.nSeqOutput \in Sequences
    BY <1>1 DEF Sound, SoundShape
  <2>3. a.nSeqDecode = (a.nSeqOutput + u) % SeqModulus
    BY <2>1 DEF LagsBy
  <2>4. u = 0
    BY <1>3, <2>2, <2>3, SeqDistance
  <2> QED
    BY <2>1, <2>4
<1>5. Same(a, e, {"nLastDispPoc"}) /\ After(a, e)
  <2>1. DOMAIN a = DpbFields
    BY <1>1 DEF Sound, SoundShape
  <2>2. Same(a, m, {"nLastDispPoc"}) /\ Same(a, a, {"nLastDispPoc"})
    BY <2>1 DEF Same, DpbFields
  <2> HIDE DEF m
  <2> QED
    BY <1>1, <1>2, <2>2, LastDispPocAfter
<1>6. /\ e.DPB = a.DPB /\ e.nSeqOutput = a.nSeqOutput
      /\ e.nSeqDecode = a.nSeqDecode /\ e.display = a.display
  <2>1. {"DPB", "nSeqOutput", "nSeqDecode", "display"}
            \subseteq DpbFields \ {"nLastDispPoc"}
    BY DEF DpbFields
  <2> QED
    BY <1>5, <2>1 DEF Same
<1>7. Same(d, e, {"nSeqOutput", "nLastDispPoc"})
  BY <1>1, <1>5 DEF Same
<1>8. e.display = d.display
  BY <1>7 DEF Same, DpbFields
<1>9. Lags(e, 0)
  <2>1. LagsBy(e, 0)
    BY <1>4, <1>6 DEF LagsBy
  <2>2. 0 \in 0 .. 0
    OBVIOUS
  <2> QED
    BY <2>1, <2>2, Zenon DEF Lags
<1>10. WaitingSlots(e) = W
  <2>1. \A i \in Slots : a.DPB[i].output =>
            a.DPB[i].nSequence = a.nSeqOutput
    <3>1. a.nSeqDecode = (a.nSeqOutput + 0) % SeqModulus
      BY <1>4 DEF LagsBy
    <3> SUFFICES ASSUME NEW i \in Slots, a.DPB[i].output
                 PROVE  a.DPB[i].nSequence = a.nSeqOutput
      OBVIOUS
    <3>2. PICK w \in 0 .. 0 :
              a.DPB[i].nSequence = (a.nSeqOutput + w) % SeqModulus
      BY <1>4 DEF LagsBy
    <3>3. w = 0
      OBVIOUS
    <3> QED
      BY <1>3, <3>1, <3>2, <3>3
  <2> QED
    BY <1>6, <2>1 DEF WaitingSlots, Waiting
<1>11. IsFiniteSet(W) /\ Cardinality(W) <= nMaxNumReoderPics
  <2>1. IsFiniteSet(Slots)
    <3>1. 1 \in Int /\ nFrameBuffers \in Int
      BY DpbAssumption
    <3> QED
      BY <3>1, FS_Interval, Zenon DEF Slots
  <2>2. W \subseteq Slots
    BY DEF Waiting
  <2> HIDE DEF W
  <2>3. IsFiniteSet(W)
    BY <2>1, <2>2, FS_Subset
  <2>4. Cardinality(W) \in Nat
    BY <2>3, FS_CardinalityType
  <2>5. W = {} => Cardinality(W) = 0
    BY FS_EmptySet
  <2> QED
    BY <1>2, <2>3, <2>4, <2>5, DpbAssumption
<1>12. After(d, e)
  BY <1>1, <1>5, AfterAfter
<1> QED
  BY <1>7, <1>8, <1>9, <1>10, <1>11, <1>12

OutputStep(q, e, i) == HevcOutputFrame(e, TRUE)
OutputGood(p, k, e) == After(p, e)

OutputLoop == INSTANCE Loop WITH Step <- OutputStep, Good <- OutputGood

\* All pictures are output.
LEMMA OutputAllAfter ==
    ASSUME NEW d, Sound(d), NEW e, e = HevcDecOutputAllPictures(d)
    PROVE  After(d, e)
<1> DEFINE a == HevcOutputFrame(d, TRUE)
<1>1. PICK yes \in BOOLEAN : yes = TRUE
  OBVIOUS
<1>2. After(d, a)
  <2>1. a = HevcOutputFrame(d, yes)
    BY <1>1, Zenon
  <2> HIDE DEF a
  <2> QED
    BY <1>1, <2>1, OutputFrameAfter
<1>3. e = OutputLoop!Turns(0, a, InTurn)
  BY DEF HevcDecOutputAllPictures, FoldLeft, MapThenFoldSet, OutputStep,
         OutputLoop!Turns, OutputLoop!Last, Max
<1> HIDE DEF a
<1>4. ASSUME NEW k \in 1 .. nFrameBuffers, NEW b, OutputGood(d, k - 1, b)
      PROVE  OutputGood(d, k, OutputStep(0, b, InTurn[k]))
  <2> DEFINE o == HevcOutputFrame(b, TRUE)
  <2>1. After(d, b) /\ Sound(b)
    BY <1>4 DEF OutputGood, After
  <2>2. o = HevcOutputFrame(b, yes)
    BY <1>1, Zenon
  <2>3. OutputStep(0, b, InTurn[k]) = o
    BY DEF OutputStep
  <2> HIDE DEF o
  <2>4. After(b, o)
    BY <1>1, <2>1, <2>2, OutputFrameAfter
  <2>5. After(d, o)
    BY <2>1, <2>4, AfterAfter
  <2> QED
    BY <2>3, <2>5 DEF OutputGood
<1>5. nFrameBuffers \in Nat /\ DOMAIN InTurn = 1 .. nFrameBuffers
  BY DpbAssumption DEF InTurn, Slots
<1>6. OutputGood(d, 0, a)
  BY <1>2 DEF OutputGood
<1>7. OutputGood(d, nFrameBuffers, e)
  BY <1>3, <1>4, <1>5, <1>6, OutputLoop!TurnsReach
<1> QED
  BY <1>7 DEF OutputGood

\* e has no picture left, and of those of d at most some went to the display.
LEMMA FlushOneAndClearIs ==
    ASSUME NEW d, Sound(d), NEW e, e = FlushOneAndClear(d)
    PROVE  /\ After(d, e) /\ e.held = {}
           /\ \A i \in Slots : e.DPB[i].pFbmBuffer = 0
<1> DEFINE a == HevcOutputFrame(d, TRUE)
<1>1. PICK yes \in BOOLEAN : yes = TRUE
  OBVIOUS
<1>2. a = HevcOutputFrame(d, yes) /\ e = HevcResetClearRefs(a)
  BY <1>1, Zenon DEF FlushOneAndClear
<1> HIDE DEF a
<1>3. After(d, a) /\ Sound(a)
  BY <1>1, <1>2, OutputFrameAfter DEF After
<1>4. /\ Trimmed(a, e) /\ e.held = {}
      /\ \A i \in Slots : e.DPB[i].pFbmBuffer = 0
  BY <1>2, <1>3, ResetClearRefsIs
<1> QED
  BY <1>3, <1>4, AfterAfter DEF Trimmed

\* HevcFindRefIdx finds a slot or none.
LEMMA FindRefIdxIs ==
    ASSUME NEW d, NEW nPoc
    PROVE  HevcFindRefIdx(d, nPoc) \in {0} \cup Slots
<1> DEFINE live == {i \in Slots : /\ d.DPB[i].pFbmBuffer # 0
                                  /\ d.DPB[i].nSequence = d.nSeqDecode}
           same == {i \in live : d.DPB[i].nPoc = nPoc}
           lsb == {i \in live : d.DPB[i].nPoc % MaxPocLsb = nPoc}
<1>1. same \subseteq Slots /\ lsb \subseteq Slots /\ Slots \subseteq Nat
  BY DEF Slots
<1>2. HevcFindRefIdx(d, nPoc) = CASE same # {} -> Min(same)
                                  [] same = {} /\ lsb # {} -> Min(lsb)
                                  [] OTHER -> 0
  BY DEF HevcFindRefIdx
<1> HIDE DEF same, lsb
<1>3. same # {} => Min(same) \in same
  BY <1>1, LeastNat
<1>4. lsb # {} => Min(lsb) \in lsb
  BY <1>1, LeastNat
<1> QED
  BY <1>1, <1>2, <1>3, <1>4

----------------------------------------------------------------------------
(* The reference picture set. *)

\* Pictures that are there and marked as references.
Marked(d) == {i \in Slots : d.DPB[i].ref # "" /\ d.DPB[i].pFbmBuffer # 0}

\* Who owns what depends on the buffers of the slots alone.
LEMMA OwnersKept ==
    ASSUME NEW d, NEW e, e.held = d.held,
           \A i \in Slots : e.DPB[i].pFbmBuffer = d.DPB[i].pFbmBuffer,
           OneOwner(d), d.held = BuffersOf(d, UsedSlots(d))
    PROVE  OneOwner(e) /\ e.held = BuffersOf(e, UsedSlots(e))
<1>1. UsedSlots(e) = UsedSlots(d)
  BY DEF UsedSlots
<1>2. BuffersOf(e, UsedSlots(e)) = BuffersOf(d, UsedSlots(d))
  BY <1>1 DEF BuffersOf, UsedSlots
<1> QED
  BY <1>2 DEF OneOwner

\* Marks and lists change, the pictures are the same.
RefsDiffer(d, e) ==
    /\ Same(d, e, {"DPB", "Rps"})
    /\ DOMAIN e.Rps = RpsLists /\ \A l \in RpsLists : e.Rps[l] \in Seq(Slots)
    /\ DOMAIN e.DPB = Slots
    /\ \A i \in Slots : /\ DOMAIN e.DPB[i] = FrameFields
                        /\ e.DPB[i].ref \in {"", "short", "long"}
                        /\ \A x \in FrameFields \ {"ref"} :
                              e.DPB[i][x] = d.DPB[i][x]

\* Only marks of reference change.
LEMMA RefsAfter ==
    ASSUME NEW d, Sound(d), NEW e, RefsDiffer(d, e)
    PROVE  After(d, e)
<1>0. /\ Same(d, e, {"DPB", "Rps"})
      /\ DOMAIN e.Rps = RpsLists /\ \A l \in RpsLists : e.Rps[l] \in Seq(Slots)
      /\ DOMAIN e.DPB = Slots
      /\ \A i \in Slots : /\ DOMAIN e.DPB[i] = FrameFields
                          /\ e.DPB[i].ref \in {"", "short", "long"}
                          /\ \A x \in FrameFields \ {"ref"} :
                                e.DPB[i][x] = d.DPB[i][x]
  BY DEF RefsDiffer
<1>1. /\ e.pCurrDPB = d.pCurrDPB /\ e.nSeqDecode = d.nSeqDecode
      /\ e.nSeqOutput = d.nSeqOutput /\ e.held = d.held
      /\ e.display = d.display
  <2>1. {"pCurrDPB", "nSeqDecode", "nSeqOutput", "held", "display"}
            \subseteq DpbFields \ {"DPB", "Rps"}
    BY DEF DpbFields
  <2> QED
    BY <1>0, <2>1 DEF Same
<1>2. \A i \in Slots :
          /\ e.DPB[i].pFbmBuffer = d.DPB[i].pFbmBuffer
          /\ e.DPB[i].nPoc = d.DPB[i].nPoc
          /\ e.DPB[i].nSequence = d.DPB[i].nSequence
  BY <1>0 DEF FrameFields
<1>3. \A i \in Slots : e.DPB[i].output = d.DPB[i].output
  <2>1. "output" \in FrameFields \ {"ref"}
    BY DEF FrameFields
  <2> QED
    BY <1>0, <2>1, Zenon
<1>4. \A i \in Slots : SoundFrame(e.DPB[i])
  <2> SUFFICES ASSUME NEW i \in Slots PROVE SoundFrame(e.DPB[i])
    OBVIOUS
  <2>1. SoundFrame(d.DPB[i])
    BY DEF Sound
  <2>2. /\ e.DPB[i].output \in BOOLEAN
        /\ e.DPB[i].output => e.DPB[i].pFbmBuffer # 0
    BY <1>2, <1>3, <2>1, Zenon DEF SoundFrame
  <2>3. DOMAIN e.DPB[i] = FrameFields
        /\ e.DPB[i].ref \in {"", "short", "long"}
    BY <1>0
  <2> QED
    BY <1>2, <2>1, <2>2, <2>3, Zenon DEF SoundFrame
<1>5. SoundShape(e)
  <2>1. SoundShape(d) /\ DOMAIN e = DpbFields
    BY <1>0 DEF Sound, Same
  <2> QED
    BY <1>0, <1>1, <2>1 DEF SoundShape
<1>6. Sound(e)
  <2>1. OneOwner(e) /\ e.held = BuffersOf(e, UsedSlots(e))
    BY <1>1, <1>2, OwnersKept DEF Sound
  <2> QED
    BY <1>4, <1>5, <2>1 DEF Sound
<1>7. \A n \in 0 .. 4 : Lags(d, n) => Lags(e, n)
  <2>1. \A i \in Slots : /\ e.DPB[i].nSequence = d.DPB[i].nSequence
                         /\ e.DPB[i].output => d.DPB[i].output
    BY <1>2, <1>3, Zenon
  <2> QED
    BY <1>1, <2>1, LagsKept
<1>8. \A i \in Slots :
          /\ e.DPB[i].pFbmBuffer \in {0, d.DPB[i].pFbmBuffer}
          /\ e.DPB[i].output => d.DPB[i].output
  BY <1>2, <1>3, Zenon
<1>9. Range(e.display) \subseteq
          Range(d.display) \cup BuffersOf(d, WaitingSlots(d))
  BY <1>1
<1> QED
  BY <1>6, <1>7, <1>8, <1>9, Zenon DEF After

\* A picture goes into a list of the set and is marked.
Listing(d, list, i, ref) ==
    [d EXCEPT !.Rps[list] = Append(@, i), !.DPB[i].ref = ref]

\* HevcAddCandidateRef lists a picture and marks it (h265_ref.c:167).
LEMMA ListingAfter ==
    ASSUME NEW d, Sound(d), NEW list \in RpsLists, NEW i \in Slots,
           NEW ref \in {"short", "long"}, NEW e, e = Listing(d, list, i, ref)
    PROVE  /\ After(d, e)
           /\ Marked(e) \subseteq Marked(d) \cup {i}
<1>1. PICK mark : mark = "ref"
  OBVIOUS
<1>2. PICK lists : lists = "Rps"
  OBVIOUS
<1> DEFINE rps == [d.Rps EXCEPT ![list] = Append(@, i)]
           p == Put(d, lists, rps)
<1>3. e = PutSlot(p, i, mark, ref)
  BY <1>1, <1>2 DEF Listing, Put, PutSlot
<1>4. Shaped(d) /\ SoundShape(d)
  BY DEF Shaped, Sound, SoundShape, SoundFrame
<1>5. mark \in FrameFields /\ lists \in DpbFields \ {"DPB"}
  BY <1>1, <1>2 DEF FrameFields, DpbFields
<1>6. DOMAIN rps = RpsLists /\ \A l \in RpsLists : rps[l] \in Seq(Slots)
  BY <1>4 DEF SoundShape
<1> HIDE DEF p, rps
<1>7. Same(d, p, {lists}) /\ p[lists] = rps /\ Shaped(p) /\ p.DPB = d.DPB
  BY <1>4, <1>5, PutIs DEF p
<1>8. /\ Shaped(e) /\ Same(p, e, {"DPB"}) /\ SlotsDiffer(p, e, i, mark)
      /\ e.DPB[i][mark] = ref
  BY <1>3, <1>5, <1>7, PutSlotIs
<1>9. Same(d, e, {"DPB", "Rps"})
  BY <1>2, <1>7, <1>8 DEF Same
<1>10. e.Rps = rps
  <2>1. "Rps" \in DpbFields \ {"DPB"}
    BY DEF DpbFields
  <2> QED
    BY <2>1, <1>2, <1>7, <1>8 DEF Same
<1>11. /\ \A j \in Slots \ {i} : e.DPB[j] = d.DPB[j]
       /\ \A x \in FrameFields \ {"ref"} : e.DPB[i][x] = d.DPB[i][x]
       /\ e.DPB[i].ref = ref
  BY <1>1, <1>7, <1>8 DEF SlotsDiffer
<1>12. \A j \in Slots : /\ DOMAIN e.DPB[j] = FrameFields
                        /\ e.DPB[j].ref \in {"", "short", "long"}
                        /\ \A x \in FrameFields \ {"ref"} :
                              e.DPB[j][x] = d.DPB[j][x]
  <2> SUFFICES ASSUME NEW j \in Slots
               PROVE  /\ DOMAIN e.DPB[j] = FrameFields
                      /\ e.DPB[j].ref \in {"", "short", "long"}
                      /\ \A x \in FrameFields \ {"ref"} :
                            e.DPB[j][x] = d.DPB[j][x]
    OBVIOUS
  <2>1. DOMAIN e.DPB[j] = FrameFields
    BY <1>8 DEF Shaped
  <2>2. e.DPB[j].ref \in {"", "short", "long"}
    BY <1>11 DEF Sound, SoundFrame
  <2>3. \A x \in FrameFields \ {"ref"} : e.DPB[j][x] = d.DPB[j][x]
    BY <1>11
  <2> QED
    BY <2>1, <2>2, <2>3
<1>13. After(d, e)
  <2>1. DOMAIN e.DPB = Slots
    BY <1>8 DEF Shaped
  <2>2. RefsDiffer(d, e)
    BY <1>6, <1>9, <1>10, <1>12, <2>1 DEF RefsDiffer
  <2> QED
    BY <2>2, RefsAfter
<1>14. Marked(e) \subseteq Marked(d) \cup {i}
  BY <1>11 DEF Marked
<1> QED
  BY <1>13, <1>14

\* All marks and lists are cleared.
Unmarked(d) ==
    [d EXCEPT !.DPB = [i \in Slots |-> [@[i] EXCEPT !.ref = ""]],
              !.Rps = NoRps]

\* All marks are taken from the pictures.
LEMMA UnmarkedAfter ==
    ASSUME NEW d, Sound(d), NEW e, e = Unmarked(d)
    PROVE  After(d, e) /\ Marked(e) = {}
<1>1. DOMAIN d = DpbFields /\ DOMAIN d.DPB = Slots
  BY DEF Sound, SoundShape
<1> DEFINE slots == [i \in Slots |-> [d.DPB[i] EXCEPT !.ref = ""]]
<1>2. e = [d EXCEPT !.DPB = slots, !.Rps = NoRps]
  BY DEF Unmarked
<1> HIDE DEF slots
<1>3. Same(d, e, {"DPB", "Rps"}) /\ e.DPB = slots /\ e.Rps = NoRps
  BY <1>1, <1>2 DEF Same, DpbFields
<1>4. DOMAIN slots = Slots
  BY DEF slots
<1>5. ASSUME NEW i \in Slots
      PROVE  /\ DOMAIN slots[i] = FrameFields /\ slots[i].ref = ""
             /\ \A x \in FrameFields \ {"ref"} : slots[i][x] = d.DPB[i][x]
  <2> DEFINE f == d.DPB[i]
  <2>1. slots[i] = [f EXCEPT !.ref = ""]
    BY DEF slots
  <2>2. DOMAIN f = FrameFields
    BY DEF Sound, SoundFrame
  <2> HIDE DEF f
  <2>3. /\ DOMAIN slots[i] = FrameFields /\ slots[i].ref = ""
        /\ \A x \in FrameFields \ {"ref"} : slots[i][x] = f[x]
    BY <2>1, <2>2 DEF FrameFields
  <2> QED
    BY <2>3 DEF f
<1>6. DOMAIN NoRps = RpsLists /\ \A l \in RpsLists : NoRps[l] \in Seq(Slots)
  BY DEF NoRps
<1>7. After(d, e)
  <2>1. \A i \in Slots : slots[i].ref \in {"", "short", "long"}
    BY <1>5
  <2>2. RefsDiffer(d, e)
    BY <1>3, <1>4, <1>5, <1>6, <2>1, ZenonT(30) DEF RefsDiffer
  <2> QED
    BY <2>2, RefsAfter
<1>8. Marked(e) = {}
  BY <1>3, <1>5 DEF Marked
<1> QED
  BY <1>7, <1>8

RefResults == {"OK", "DROP_THE_FRAME", "RESET_INTRA_DECODER"}

\* a has the pictures of d, at most n of them marked.
RefState(d, n, a) ==
    /\ DOMAIN a = {"d", "result"} /\ a.result \in RefResults
    /\ After(d, a.d)
    /\ Cardinality(Marked(a.d)) <= n

\* The pictures that are marked can be counted.
LEMMA MarkedFinite ==
    ASSUME NEW d
    PROVE  IsFiniteSet(Marked(d)) /\ Cardinality(Marked(d)) \in Nat
<1>1. IsFiniteSet(Slots)
  <2>1. 1 \in Int /\ nFrameBuffers \in Int
    BY DpbAssumption
  <2> QED
    BY <2>1, FS_Interval, Zenon DEF Slots
<1>2. Marked(d) \subseteq Slots
  BY DEF Marked
<1>3. IsFiniteSet(Marked(d))
  BY <1>1, <1>2, FS_Subset
<1> QED
  BY <1>3, FS_CardinalityType

\* A candidate marks one picture more, if any.
LEMMA CandidateIs ==
    ASSUME NEW d, NEW n \in Nat, NEW a, Sound(d), RefState(d, n, a),
           NEW list \in RpsLists, NEW nPoc, NEW ref \in {"short", "long"},
           NEW rasl, NEW e, e = HevcAddCandidateRef(a, list, nPoc, ref, rasl)
    PROVE  RefState(d, n + 1, e)
<1> DEFINE i == HevcFindRefIdx(a.d, nPoc)
           error == i # 0 /\ a.d.DPB[i].bErrorFrameFlag /\ ~bDispErrorFrame
           f == FlushOneAndClear(a.d)
           l == Listing(a.d, list, i, ref)
<1>1. /\ DOMAIN a = {"d", "result"} /\ a.result \in RefResults
      /\ After(d, a.d) /\ Sound(a.d)
      /\ Cardinality(Marked(a.d)) <= n
      /\ Cardinality(Marked(a.d)) \in Nat
  BY MarkedFinite DEF RefState, After
<1>2. i \in {0} \cup Slots
  BY FindRefIdxIs
<1>3. \/ e = a
      \/ e = [a EXCEPT !.result = "DROP_THE_FRAME"]
      \/ e = [a EXCEPT !.d = f]
      \/ e = [a EXCEPT !.result = "RESET_INTRA_DECODER"]
      \/ i # 0 /\ e = [a EXCEPT !.d = l]
  <2>1. [a EXCEPT !.d.Rps[list] = Append(@, i), !.d.DPB[i].ref = ref]
            = [a EXCEPT !.d = l]
    BY <1>1 DEF Listing
  <2> HIDE DEF i, f, l
  <2>2. e = CASE a.result # "OK" -> a
              [] a.result = "OK" /\ i = 0 /\ rasl ->
                    [a EXCEPT !.result = "DROP_THE_FRAME"]
              [] a.result = "OK" /\ i = 0 /\ ~rasl ->
                    IF nPoc = 0 THEN [a EXCEPT !.d = f] ELSE a
              [] a.result = "OK" /\ error ->
                    [a EXCEPT !.result = "RESET_INTRA_DECODER"]
              [] OTHER -> [a EXCEPT !.d = l]
    BY <2>1 DEF HevcAddCandidateRef, i, f
  <2> HIDE DEF error
  <2> QED
    BY <2>2, Zenon
<1> HIDE DEF i, f, l, error
<1>4. CASE /\ DOMAIN e = {"d", "result"} /\ e.result \in RefResults
           /\ e.d = a.d
  BY <1>1, <1>4 DEF RefState
<1>5. CASE e = [a EXCEPT !.d = f]
  <2>1. DOMAIN e = {"d", "result"} /\ e.result = a.result /\ e.d = f
    BY <1>1, <1>5
  <2>2. After(a.d, f) /\ \A j \in Slots : f.DPB[j].pFbmBuffer = 0
    BY <1>1, FlushOneAndClearIs DEF f
  <2>3. Marked(f) = {}
    BY <2>2 DEF Marked
  <2>4. Cardinality(Marked(e.d)) <= n + 1
    BY <2>1, <2>3, FS_EmptySet
  <2>5. After(d, e.d)
    BY <1>1, <2>1, <2>2, AfterAfter
  <2> QED
    BY <1>1, <2>1, <2>4, <2>5 DEF RefState
<1>6. CASE i # 0 /\ e = [a EXCEPT !.d = l]
  <2>1. DOMAIN e = {"d", "result"} /\ e.result = a.result /\ e.d = l
    BY <1>1, <1>6
  <2>2. After(a.d, l) /\ Marked(l) \subseteq Marked(a.d) \cup {i}
    BY <1>1, <1>2, <1>6, ListingAfter DEF l
  <2>3. Cardinality(Marked(l)) <= n + 1
    <3>1. IsFiniteSet(Marked(a.d) \cup {i})
          /\ Cardinality(Marked(a.d) \cup {i}) <= Cardinality(Marked(a.d)) + 1
          /\ Cardinality(Marked(a.d) \cup {i}) \in Nat
      <4>1. IsFiniteSet(Marked(a.d))
        BY MarkedFinite
      <4>2. /\ IsFiniteSet(Marked(a.d) \cup {i})
            /\ Cardinality(Marked(a.d) \cup {i}) =
                  IF i \in Marked(a.d) THEN Cardinality(Marked(a.d))
                  ELSE Cardinality(Marked(a.d)) + 1
        BY <4>1, FS_AddElement
      <4> QED
        BY <1>1, <4>2
    <3>2. Cardinality(Marked(l)) <= Cardinality(Marked(a.d) \cup {i})
      BY <2>2, <3>1, FS_Subset
    <3>3. Cardinality(Marked(l)) \in Nat
      BY MarkedFinite
    <3> QED
      BY <1>1, <3>1, <3>2, <3>3
  <2>4. After(d, e.d)
    BY <1>1, <2>1, <2>2, AfterAfter
  <2> QED
    BY <1>1, <2>1, <2>3, <2>4 DEF RefState
<1> QED
  <2>1. CASE e = a
    BY <1>1, <1>4, <2>1
  <2>2. CASE e = [a EXCEPT !.result = "DROP_THE_FRAME"]
    BY <1>1, <1>4, <2>2 DEF RefResults
  <2>3. CASE e = [a EXCEPT !.result = "RESET_INTRA_DECODER"]
    BY <1>1, <1>4, <2>3 DEF RefResults
  <2> QED
    BY <1>3, <1>5, <1>6, <2>1, <2>2, <2>3

RefGood(p, k, a) == RefState(p.d, p.n + k, a)

ShortStep(q, a, e) ==
    HevcAddCandidateRef(a, ShortList(e), q.nPoc + e.delta, "short", q.rasl)
ShortLoop == INSTANCE Loop WITH Step <- ShortStep, Good <- RefGood

LongStep(q, a, e) ==
    HevcAddCandidateRef(a, LongList(e), e.poc, "long", q.rasl)
LongLoop == INSTANCE Loop WITH Step <- LongStep, Good <- RefGood

\* The loop over the short references of the header...
LEMMA ShortTurns ==
    ASSUME NEW d, Sound(d), NEW q, NEW base, RefState(d, 0, base),
           NEW s, NEW n \in Nat, DOMAIN s = 1 .. n
    PROVE  RefState(d, n, ShortLoop!Turns(q, base, s))
<1> DEFINE p == [d |-> d, n |-> 0]
<1>1. p.d = d /\ p.n = 0
  OBVIOUS
<1> HIDE DEF p
<1>2. RefGood(p, 0, base)
  BY <1>1 DEF RefGood
<1>3. ASSUME NEW k \in 1 .. n, NEW a, RefGood(p, k - 1, a)
      PROVE  RefGood(p, k, ShortStep(q, a, s[k]))
  <2> DEFINE list == ShortList(s[k])
             nPoc == q.nPoc + s[k].delta
  <2>1. PICK ref \in {"short", "long"} : ref = "short"
    OBVIOUS
  <2>2. list \in RpsLists
    BY DEF ShortList, RpsLists
  <2> DEFINE e == HevcAddCandidateRef(a, list, nPoc, ref, q.rasl)
  <2>3. ShortStep(q, a, s[k]) = e
    BY <2>1, Zenon DEF ShortStep
  <2> HIDE DEF list, nPoc
  <2>4. k - 1 \in Nat /\ p.n + (k - 1) = k - 1 /\ p.n + k = (k - 1) + 1
    BY <1>1
  <2>5. RefState(d, k - 1, a)
    BY <1>1, <1>3, <2>4 DEF RefGood
  <2>6. RefState(d, (k - 1) + 1, e)
    BY <2>2, <2>4, <2>5, CandidateIs
  <2> HIDE DEF e
  <2> QED
    BY <1>1, <2>3, <2>4, <2>6 DEF RefGood
<1>4. RefGood(p, n, ShortLoop!Turns(q, base, s))
  BY <1>2, <1>3, ShortLoop!TurnsReach
<1> QED
  BY <1>1, <1>4 DEF RefGood

\* ... and the one over the long ones.
LEMMA LongTurns ==
    ASSUME NEW d, Sound(d), NEW q, NEW m \in Nat, NEW base,
           RefState(d, m, base), NEW s, NEW n \in Nat, DOMAIN s = 1 .. n
    PROVE  RefState(d, m + n, LongLoop!Turns(q, base, s))
<1> DEFINE p == [d |-> d, n |-> m]
<1>1. p.d = d /\ p.n = m
  OBVIOUS
<1> HIDE DEF p
<1>2. RefGood(p, 0, base)
  BY <1>1 DEF RefGood
<1>3. ASSUME NEW k \in 1 .. n, NEW a, RefGood(p, k - 1, a)
      PROVE  RefGood(p, k, LongStep(q, a, s[k]))
  <2> DEFINE list == LongList(s[k])
             nPoc == s[k].poc
  <2>1. PICK ref \in {"short", "long"} : ref = "long"
    OBVIOUS
  <2>2. list \in RpsLists
    BY DEF LongList, RpsLists
  <2> DEFINE e == HevcAddCandidateRef(a, list, nPoc, ref, q.rasl)
  <2>3. LongStep(q, a, s[k]) = e
    BY <2>1, Zenon DEF LongStep
  <2> HIDE DEF list, nPoc
  <2>4. /\ m + (k - 1) \in Nat /\ p.n + (k - 1) = m + (k - 1)
        /\ p.n + k = (m + (k - 1)) + 1
    BY <1>1
  <2>5. RefState(d, m + (k - 1), a)
    BY <1>1, <1>3, <2>4 DEF RefGood
  <2>6. RefState(d, (m + (k - 1)) + 1, e)
    BY <2>2, <2>4, <2>5, CandidateIs
  <2> HIDE DEF e
  <2> QED
    BY <1>1, <2>3, <2>4, <2>6 DEF RefGood
<1>4. RefGood(p, n, LongLoop!Turns(q, base, s))
  BY <1>2, <1>3, LongLoop!TurnsReach
<1> QED
  BY <1>1, <1>4 DEF RefGood

\* The reference picture set, its loops written out.
LEMMA ConstructIsTurns ==
    ASSUME NEW d, NEW q, NEW short, NEW long
    PROVE  LET s == ShortLoop!Turns(q, [d |-> Unmarked(d), result |-> "OK"],
                                    IF short.null THEN <<>> ELSE short.list)
               l == LongLoop!Turns(q, s, long)
           IN  HevcConstuctFrameRps(d, q.nPoc, short, long, q.rasl) =
                 CASE short.null /\ long = <<>> ->
                        [d |-> [d EXCEPT !.Rps.HEVC_ST_CURR_BEF = <<>>,
                                         !.Rps.HEVC_ST_CURR_AFT = <<>>],
                         result |-> "OK"]
                   [] ~(short.null /\ long = <<>>) /\ l.result = "OK" ->
                        [l EXCEPT !.d = ReturnUnflagged(@)]
                   [] OTHER -> l
<1> DEFINE base == [d |-> Unmarked(d), result |-> "OK"]
           list == IF short.null THEN <<>> ELSE short.list
           s == FoldLeft(LAMBDA a, e : HevcAddCandidateRef(
                         a, ShortList(e), q.nPoc + e.delta, "short", q.rasl),
                      base, list)
           l == FoldLeft(LAMBDA a, e : HevcAddCandidateRef(
                         a, LongList(e), e.poc, "long", q.rasl), s, long)
<1>1. HevcConstuctFrameRps(d, q.nPoc, short, long, q.rasl) =
         CASE short.null /\ long = <<>> ->
                        [d |-> [d EXCEPT !.Rps.HEVC_ST_CURR_BEF = <<>>,
                                         !.Rps.HEVC_ST_CURR_AFT = <<>>],
                         result |-> "OK"]
                   [] ~(short.null /\ long = <<>>) /\ l.result = "OK" ->
                        [l EXCEPT !.d = ReturnUnflagged(@)]
                   [] OTHER -> l
  BY DEF HevcConstuctFrameRps, Unmarked
<1> HIDE DEF base, list
<1>2. s = ShortLoop!Turns(q, base, list)
  BY DEF FoldLeft, MapThenFoldSet, ShortStep, ShortLoop!Turns,
         ShortLoop!Last, Max
<1> HIDE DEF s
<1>3. l = LongLoop!Turns(q, s, long)
  BY DEF FoldLeft, MapThenFoldSet, LongStep, LongLoop!Turns,
         LongLoop!Last, Max
<1> HIDE DEF l
<1> QED
  BY <1>1, <1>2, <1>3, Zenon DEF base, list

\* An IDR's set: its lists are cleared, the pictures stay as they are.
LEMMA NoSetIs ==
    ASSUME NEW d, Sound(d),
           NEW e, e = [d EXCEPT !.Rps.HEVC_ST_CURR_BEF = <<>>,
                                !.Rps.HEVC_ST_CURR_AFT = <<>>]
    PROVE  /\ After(d, e) /\ e.DPB = d.DPB /\ e.held = d.held
           /\ e.display = d.display
<1>1. /\ DOMAIN d = DpbFields /\ DOMAIN d.DPB = Slots
      /\ DOMAIN d.Rps = RpsLists /\ \A l \in RpsLists : d.Rps[l] \in Seq(Slots)
  BY DEF Sound, SoundShape
<1> DEFINE rps == [d.Rps EXCEPT !.HEVC_ST_CURR_BEF = <<>>,
                                !.HEVC_ST_CURR_AFT = <<>>]
<1>2. e = [d EXCEPT !.Rps = rps]
  BY <1>1 DEF DpbFields
<1>3. DOMAIN rps = RpsLists /\ \A l \in RpsLists : rps[l] \in Seq(Slots)
  <2> DEFINE rs == d.Rps
  <2>1. DOMAIN rs = RpsLists /\ \A l \in RpsLists : rs[l] \in Seq(Slots)
    BY <1>1
  <2> HIDE DEF rs
  <2> DEFINE r1 == [rs EXCEPT !.HEVC_ST_CURR_BEF = <<>>]
             r2 == [r1 EXCEPT !.HEVC_ST_CURR_AFT = <<>>]
  <2>2. DOMAIN r1 = RpsLists /\ \A l \in RpsLists : r1[l] \in {rs[l], <<>>}
    BY <2>1
  <2> HIDE DEF r1
  <2>3. DOMAIN r2 = RpsLists /\ \A l \in RpsLists : r2[l] \in {r1[l], <<>>}
    BY <2>2
  <2>4. <<>> \in Seq(Slots)
    OBVIOUS
  <2>5. rps = r2
    BY DEF r1, rs
  <2> HIDE DEF r2, rps
  <2> QED
    BY <2>1, <2>2, <2>3, <2>4, <2>5
<1> HIDE DEF rps
<1>4. Same(d, e, {"Rps"}) /\ e.Rps = rps
  BY <1>1, <1>2 DEF Same, DpbFields
<1>5. e.DPB = d.DPB /\ e.held = d.held /\ e.display = d.display
  BY <1>4 DEF Same, DpbFields
<1>6. Same(d, e, {"DPB", "Rps"})
  BY <1>4 DEF Same
<1>7. \A i \in Slots : /\ DOMAIN e.DPB[i] = FrameFields
                       /\ e.DPB[i].ref \in {"", "short", "long"}
                       /\ \A x \in FrameFields \ {"ref"} :
                             e.DPB[i][x] = d.DPB[i][x]
  <2>1. \A i \in Slots : /\ DOMAIN d.DPB[i] = FrameFields
                         /\ d.DPB[i].ref \in {"", "short", "long"}
    BY DEF Sound, SoundFrame
  <2> QED
    BY <1>5, <2>1
<1>8. RefsDiffer(d, e)
  BY <1>1, <1>3, <1>4, <1>5, <1>6, <1>7 DEF RefsDiffer
<1> QED
  BY <1>5, <1>8, RefsAfter

\* What HevcConstuctFrameRps gives: without a set the pictures are as they
\* were, else those of at most n references and those that wait are left.
Constructed(d, stale, n, e) ==
    /\ DOMAIN e = {"d", "result"} /\ e.result \in RefResults
    /\ After(d, e.d)
    /\ stale => /\ e.result = "OK" /\ e.d.DPB = d.DPB
                /\ e.d.held = d.held /\ e.d.display = d.display
    /\ ~stale /\ e.result = "OK" =>
          /\ Cardinality(Marked(e.d)) <= n
          /\ UsedSlots(e.d) \subseteq Marked(e.d) \cup WaitingSlots(e.d)

\* HevcConstuctFrameRps keeps the pictures the header lists (h265_ref.c:876).
LEMMA ConstructIs ==
    ASSUME NEW d, Sound(d), NEW nPoc, NEW short, NEW long, NEW rasl,
           NEW m \in Nat, NEW n \in Nat, DOMAIN short.list = 1 .. m,
           DOMAIN long = 1 .. n,
           NEW e, e = HevcConstuctFrameRps(d, nPoc, short, long, rasl)
    PROVE  Constructed(d, short.null /\ long = <<>>, m + n, e)
<1> DEFINE q == [nPoc |-> nPoc, rasl |-> rasl]
           base == [d |-> Unmarked(d), result |-> "OK"]
           list == IF short.null THEN <<>> ELSE short.list
           s == ShortLoop!Turns(q, base, list)
           l == LongLoop!Turns(q, s, long)
           none == [d EXCEPT !.Rps.HEVC_ST_CURR_BEF = <<>>,
                             !.Rps.HEVC_ST_CURR_AFT = <<>>]
           stale == short.null /\ long = <<>>
<1>1. q.nPoc = nPoc /\ q.rasl = rasl
  OBVIOUS
<1> HIDE DEF q
<1>2. HevcConstuctFrameRps(d, q.nPoc, short, long, q.rasl) =
         CASE stale -> [d |-> none, result |-> "OK"]
           [] ~stale /\ l.result = "OK" -> [l EXCEPT !.d = ReturnUnflagged(@)]
           [] OTHER -> l
  BY ConstructIsTurns, ZenonT(30)
<1> HIDE DEF none, base, list
<1>3. \/ stale /\ e = [d |-> none, result |-> "OK"]
      \/ ~stale /\ l.result = "OK" /\ e = [l EXCEPT !.d = ReturnUnflagged(@)]
      \/ ~stale /\ l.result # "OK" /\ e = l
  <2> HIDE DEF l, stale
  <2> QED
    BY <1>1, <1>2
<1> HIDE DEF s, l
<1> SUFFICES Constructed(d, stale, m + n, e)
  OBVIOUS
<1>4. RefState(d, m + n, l)
  <2>1. RefState(d, 0, base)
    <3>1. After(d, Unmarked(d)) /\ Marked(Unmarked(d)) = {}
      BY UnmarkedAfter
    <3>2. Cardinality(Marked(Unmarked(d))) <= 0
      BY <3>1, FS_EmptySet
    <3>3. /\ DOMAIN base = {"d", "result"} /\ base.d = Unmarked(d)
          /\ base.result \in RefResults
      BY DEF base, RefResults
    <3> QED
      BY <3>1, <3>2, <3>3 DEF RefState
  <2>2. PICK j \in Nat : j <= m /\ DOMAIN list = 1 .. j
    <3>1. CASE short.null
      <4>1. list = <<>>
        BY <3>1 DEF list
      <4>2. DOMAIN list = 1 .. 0 /\ 0 <= m
        BY <4>1
      <4> QED
        BY <4>2
    <3>2. CASE ~ short.null
      <4>1. list = short.list
        BY <3>2 DEF list
      <4> QED
        BY <4>1
    <3> QED
      BY <3>1, <3>2
  <2>3. RefState(d, j, s)
    BY <2>1, <2>2, ShortTurns DEF s
  <2>4. RefState(d, j + n, l)
    BY <2>3, LongTurns DEF l
  <2>5. Cardinality(Marked(l.d)) \in Nat
    BY MarkedFinite
  <2> QED
    BY <2>2, <2>4, <2>5 DEF RefState
<1>5. CASE stale /\ e = [d |-> none, result |-> "OK"]
  <2>1. /\ DOMAIN e = {"d", "result"} /\ e.d = none /\ e.result = "OK"
    BY <1>5
  <2>2. /\ After(d, none) /\ none.DPB = d.DPB /\ none.held = d.held
        /\ none.display = d.display
    BY NoSetIs DEF none
  <2>3. e.result \in RefResults
    BY <2>1 DEF RefResults
  <2> QED
    BY <1>5, <2>1, <2>2, <2>3 DEF Constructed
<1>6. CASE ~stale /\ l.result = "OK" /\ e = [l EXCEPT !.d = ReturnUnflagged(@)]
  <2> DEFINE r == ReturnUnflagged(l.d)
  <2>1. /\ DOMAIN l = {"d", "result"} /\ l.result \in RefResults
        /\ After(d, l.d) /\ Sound(l.d)
        /\ Cardinality(Marked(l.d)) <= m + n
    BY <1>4 DEF RefState, After
  <2>2. DOMAIN e = {"d", "result"} /\ e.result = l.result /\ e.d = r
    BY <1>6, <2>1
  <2> HIDE DEF r
  <2>3. /\ Trimmed(l.d, r)
        /\ \A i \in Slots : r.DPB[i].pFbmBuffer # 0 =>
                               r.DPB[i].output \/ r.DPB[i].ref # ""
    BY <2>1, ReturnUnflaggedIs DEF r
  <2>4. Marked(r) \subseteq Marked(l.d)
    BY <2>3 DEF Marked, Trimmed, After
  <2>5. Cardinality(Marked(r)) <= m + n
    <3>1. Cardinality(Marked(r)) <= Cardinality(Marked(l.d))
      BY <2>4, MarkedFinite, FS_Subset
    <3>2. Cardinality(Marked(r)) \in Nat /\ Cardinality(Marked(l.d)) \in Nat
      BY MarkedFinite
    <3> QED
      BY <2>1, <3>1, <3>2
  <2>6. UsedSlots(r) \subseteq Marked(r) \cup WaitingSlots(r)
    <3> SUFFICES ASSUME NEW i \in Slots, r.DPB[i].pFbmBuffer # 0
                 PROVE  i \in Marked(r) \/ i \in WaitingSlots(r)
      BY DEF UsedSlots
    <3>1. r.DPB[i].output \/ r.DPB[i].ref # ""
      BY <2>3, Zenon
    <3> QED
      BY <3>1, Zenon DEF Marked, WaitingSlots
  <2>7. After(d, r)
    BY <2>1, <2>3, AfterAfter DEF Trimmed
  <2> QED
    BY <1>6, <2>1, <2>2, <2>5, <2>6, <2>7 DEF Constructed
<1>7. CASE ~stale /\ l.result # "OK" /\ e = l
  BY <1>4, <1>7 DEF RefState, Constructed
<1> QED
  BY <1>3, <1>5, <1>6, <1>7

----------------------------------------------------------------------------
(* How many buffers there are, and a new picture's. *)

\* A set of buffers is finite and has no more members than the slots or the
\* pool it comes from.
LEMMA SlotsCount ==
    IsFiniteSet(Slots) /\ Cardinality(Slots) = nFrameBuffers
<1>1. /\ 1 \in Int /\ nFrameBuffers \in Int /\ nFrameBuffers >= 1
  BY DpbAssumption
<1>2. /\ IsFiniteSet(1 .. nFrameBuffers)
      /\ Cardinality(1 .. nFrameBuffers) =
            IF 1 > nFrameBuffers THEN 0 ELSE nFrameBuffers - 1 + 1
  BY <1>1, FS_Interval
<1> QED
  BY <1>1, <1>2 DEF Slots

\* There are nFrameBuffers buffers.
LEMMA BuffersCount ==
    IsFiniteSet(Buffers) /\ Cardinality(Buffers) = nFrameBuffers
BY SlotsCount DEF Slots, Buffers

\* Pictures have as many buffers as there are pictures, if none share one.
LEMMA ImageCount ==
    ASSUME NEW d, NEW S \in SUBSET Slots
    PROVE  /\ IsFiniteSet(BuffersOf(d, S)) /\ IsFiniteSet(S)
           /\ Cardinality(BuffersOf(d, S)) \in Nat
           /\ Cardinality(S) \in Nat
           /\ Cardinality(BuffersOf(d, S)) <= Cardinality(S)
           /\ (\A i, j \in S : d.DPB[i].pFbmBuffer = d.DPB[j].pFbmBuffer
                                   => i = j)
                  => Cardinality(BuffersOf(d, S)) = Cardinality(S)
<1> DEFINE f == [i \in S |-> d.DPB[i].pFbmBuffer]
           T == BuffersOf(d, S)
<1>1. /\ f \in [S -> T] /\ DOMAIN f = S
      /\ \A i \in S : f[i] = d.DPB[i].pFbmBuffer
      /\ \A x \in T : \E i \in S : f[i] = x
  BY DEF BuffersOf
<1> HIDE DEF f, T
<1>2. f \in Surjection(S, T)
  BY <1>1, Zenon DEF Surjection
<1>3. IsFiniteSet(S)
  BY SlotsCount, FS_Subset
<1>4. /\ IsFiniteSet(T) /\ Cardinality(T) <= Cardinality(S)
      /\ Cardinality(T) = Cardinality(S) <=> f \in Injection(S, T)
  BY <1>2, <1>3, FS_Surjection
<1>5. ASSUME \A i, j \in S :
                d.DPB[i].pFbmBuffer = d.DPB[j].pFbmBuffer => i = j
      PROVE  Cardinality(T) = Cardinality(S)
  <2>1. \A i, j \in S : f[i] = f[j] => i = j
    BY <1>1, <1>5
  <2>2. f \in Injection(S, T)
    BY <1>1, <2>1, Zenon DEF Injection, IsInjective
  <2> QED
    BY <1>4, <2>2
<1>6. Cardinality(T) \in Nat /\ Cardinality(S) \in Nat
  BY <1>3, <1>4, FS_CardinalityType
<1> QED
  BY <1>3, <1>4, <1>5, <1>6 DEF T

\* While a buffer is empty there is a slot without one.
LEMMA FreeSlot ==
    ASSUME NEW d, Sound(d), EmptyBuffers(d) # {}
    PROVE  \E i \in Slots : d.DPB[i].pFbmBuffer = 0
<1> SUFFICES ASSUME \A i \in Slots : d.DPB[i].pFbmBuffer # 0 PROVE FALSE
  OBVIOUS
<1> DEFINE f == [i \in Slots |-> d.DPB[i].pFbmBuffer]
<1>1. d.held \subseteq Buffers
  BY DEF Sound, BuffersOf, UsedSlots, SoundFrame
<1>2. IsFiniteSet(d.held) /\ Cardinality(d.held) < Cardinality(Slots)
  <2>1. d.held # Buffers
    BY <1>1 DEF EmptyBuffers
  <2>2. /\ IsFiniteSet(d.held) /\ Cardinality(d.held) <= Cardinality(Buffers)
        /\ Cardinality(Buffers) # Cardinality(d.held)
    BY <1>1, <2>1, BuffersCount, FS_Subset
  <2>3. Cardinality(d.held) \in Nat
    BY <2>2, FS_CardinalityType
  <2> QED
    BY <2>2, <2>3, SlotsCount, BuffersCount, DpbAssumption
<1>3. f \in [Slots -> d.held]
  BY DEF Sound, BuffersOf, UsedSlots
<1>4. \E x, y \in Slots : x # y /\ f[x] = f[y]
  <2> HIDE DEF f
  <2> QED
    BY <1>2, <1>3, SlotsCount, FS_PigeonHole
<1> QED
  BY <1>4 DEF Sound, OneOwner

\* The new picture f takes slot i.
Placed(e, i, b, f) ==
    [e EXCEPT !.held = @ \cup {b}, !.pCurrDPB = i, !.DPB[i] = f]

\* A new picture takes a buffer nobody holds.
LEMMA PlacedIs ==
    ASSUME NEW d, Sound(d), NEW i \in Slots, d.DPB[i].pFbmBuffer = 0,
           NEW b \in Buffers, b \notin d.held, NEW f, SoundFrame(f),
           f.pFbmBuffer = b, f.nSequence = d.nSeqDecode,
           NEW e, e = Placed(d, i, b, f)
    PROVE  /\ Sound(e) /\ e.held = d.held \cup {b} /\ e.display = d.display
           /\ \A n \in 0 .. 4 : Lags(d, n) => Lags(e, n)
<1>1. DOMAIN d = DpbFields /\ DOMAIN d.DPB = Slots /\ SoundShape(d)
  BY DEF Sound, SoundShape
<1>2. /\ DOMAIN e = DpbFields /\ DOMAIN e.DPB = Slots
      /\ e.held = d.held \cup {b} /\ e.pCurrDPB = i /\ e.DPB[i] = f
      /\ \A j \in Slots \ {i} : e.DPB[j] = d.DPB[j]
      /\ e.display = d.display /\ e.Rps = d.Rps
      /\ e.nSeqDecode = d.nSeqDecode /\ e.nSeqOutput = d.nSeqOutput
  BY <1>1 DEF Placed, DpbFields
<1>3. SoundShape(e)
  BY <1>1, <1>2 DEF SoundShape
<1>4. \A j \in Slots : SoundFrame(e.DPB[j])
  BY <1>2 DEF Sound
<1>5. b # 0
  BY DEF Buffers
<1>6. UsedSlots(e) = UsedSlots(d) \cup {i} /\ i \notin UsedSlots(d)
  BY <1>2, <1>5 DEF UsedSlots
<1>7. BuffersOf(e, UsedSlots(e)) = BuffersOf(d, UsedSlots(d)) \cup {b}
  BY <1>2, <1>6 DEF BuffersOf, UsedSlots
<1>8. e.held = BuffersOf(e, UsedSlots(e))
  BY <1>2, <1>7 DEF Sound
<1>9. \A j \in Slots \ {i} : d.DPB[j].pFbmBuffer # b
  BY <1>5 DEF Sound, BuffersOf, UsedSlots
<1>10. OneOwner(e)
  BY <1>2, <1>9 DEF OneOwner, Sound
<1>11. ASSUME NEW n \in 0 .. 4, Lags(d, n) PROVE Lags(e, n)
  <2>1. PICK u \in 0 .. n : LagsBy(d, u)
    BY <1>11 DEF Lags
  <2>2. /\ d.nSeqDecode = (d.nSeqOutput + u) % SeqModulus
        /\ \A j \in Slots : d.DPB[j].output =>
              \E w \in 0 .. u :
                  d.DPB[j].nSequence = (d.nSeqOutput + w) % SeqModulus
    BY <2>1 DEF LagsBy
  <2>3. e.nSeqDecode = (e.nSeqOutput + u) % SeqModulus
    BY <1>2, <2>2, Zenon
  <2>4. ASSUME NEW j \in Slots, e.DPB[j].output
        PROVE  \E w \in 0 .. u :
                   e.DPB[j].nSequence = (e.nSeqOutput + w) % SeqModulus
    <3>1. CASE j = i
      <4>1. u \in 0 .. u
        OBVIOUS
      <4>2. e.DPB[j].nSequence = (e.nSeqOutput + u) % SeqModulus
        BY <1>2, <2>2, <3>1, Zenon
      <4> QED
        BY <4>1, <4>2, Zenon
    <3>2. CASE j # i
      <4>1. j \in Slots /\ e.DPB[j] = d.DPB[j]
        BY <1>2, <3>2
      <4>2. d.DPB[j].output
        BY <2>4, <4>1, Zenon
      <4>3. PICK w \in 0 .. u :
                d.DPB[j].nSequence = (d.nSeqOutput + w) % SeqModulus
        BY <2>2, <4>1, <4>2, Zenon
      <4>4. e.DPB[j].nSequence = (e.nSeqOutput + w) % SeqModulus
        BY <1>2, <4>1, <4>3
      <4> QED
        BY <4>4
    <3> QED
      BY <3>1, <3>2
  <2> QED
    BY <2>3, <2>4, Zenon DEF Lags, LagsBy
<1>12. Sound(e)
  BY <1>3, <1>4, <1>8, <1>10 DEF Sound
<1> QED
  BY <1>2, <1>11, <1>12

\* The slot and the buffer of a new picture.  There is one unless all buffers
\* are held or displayed.
LEMMA SetNewRefIs ==
    ASSUME NEW d, Sound(d), NEW nPoc \in Int, NEW output \in BOOLEAN,
           NEW drop, NEW ord, NEW e,
           e = HevcSetNewRef(d, nPoc, output, drop, ord)
    PROVE  /\ DOMAIN e = {"d", "result"}
           /\ e.result \in {"OK", "NO_FRAME_BUFFER"}
           /\ Sound(e.d) /\ \A n \in 0 .. 4 : Lags(d, n) => Lags(e.d, n)
           /\ e.result = "NO_FRAME_BUFFER" => e.d.held \subseteq d.held
           /\ \E b : e.d.held \subseteq d.held \cup {b}
           /\ Cardinality(d.held \cup Range(d.display)
                          \cup BuffersOf(d, WaitingSlots(d))) < nFrameBuffers
                 => e.result = "OK"
<1> DEFINE twice == \E i \in Slots : /\ d.DPB[i].pFbmBuffer # 0
                                     /\ d.DPB[i].nSequence = d.nSeqDecode
                                     /\ d.DPB[i].nPoc = nPoc
           a == IF twice THEN FlushOneAndClear(d) ELSE d
           i == Min({j \in Slots : a.DPB[j].pFbmBuffer = 0})
           b == Min(EmptyBuffers(a))
           f == [pFbmBuffer |-> b, nPoc |-> nPoc,
                 nSequence |-> a.nSeqDecode, output |-> output,
                 ref |-> "short", bErrorFrameFlag |-> twice,
                 bDropFlag |-> drop, ord |-> ord]
           p == Placed(a, i, b, f)
<1>1. e = IF EmptyBuffers(a) = {} THEN [d |-> a, result |-> "NO_FRAME_BUFFER"]
          ELSE [d |-> p, result |-> "OK"]
  BY DEF HevcSetNewRef, Placed
<1>2. After(d, a) /\ Sound(a)
  <2>1. CASE twice
    <3>1. a = FlushOneAndClear(d)
      BY <2>1
    <3> HIDE DEF a
    <3> QED
      BY <3>1, FlushOneAndClearIs DEF After
  <2>2. CASE ~ twice
    BY <2>2, AfterSelf
  <2> QED
    BY <2>1, <2>2
<1> HIDE DEF a, twice
<1>3. a.held \subseteq d.held
  BY <1>2 DEF Sound, After, BuffersOf, UsedSlots
<1>4. CASE EmptyBuffers(a) = {}
  <2>1. /\ DOMAIN e = {"d", "result"} /\ e.d = a
        /\ e.result = "NO_FRAME_BUFFER"
    BY <1>1, <1>4
  <2>2. a.held \cup Range(a.display) \subseteq
            d.held \cup Range(d.display) \cup BuffersOf(d, WaitingSlots(d))
    BY <1>2, <1>3 DEF After
  <2>3. Buffers \subseteq
            d.held \cup Range(d.display) \cup BuffersOf(d, WaitingSlots(d))
    BY <1>4, <2>2 DEF EmptyBuffers
  <2>4. d.held \cup Range(d.display) \cup BuffersOf(d, WaitingSlots(d))
            \subseteq Buffers
    <3>1. d.held \subseteq Buffers
      BY DEF Sound, BuffersOf, UsedSlots, SoundFrame
    <3>2. Range(d.display) \subseteq Buffers
      <4>1. d.display \in Seq(Buffers)
        BY DEF Sound, SoundShape
      <4> QED
        BY <4>1 DEF Range
    <3>3. BuffersOf(d, WaitingSlots(d)) \subseteq Buffers
      BY DEF Sound, BuffersOf, WaitingSlots, SoundFrame
    <3> QED
      BY <3>1, <3>2, <3>3
  <2>5. d.held \cup Range(d.display) \cup BuffersOf(d, WaitingSlots(d))
            = Buffers
    BY <2>3, <2>4
  <2>6. ~ (Cardinality(Buffers) < nFrameBuffers)
    BY BuffersCount, DpbAssumption
  <2>7. e.d.held \subseteq d.held \cup {0}
    BY <1>3, <2>1
  <2>8. \A n \in 0 .. 4 : Lags(d, n) => Lags(e.d, n)
    BY <1>2, <2>1 DEF After
  <2> QED
    BY <1>2, <1>3, <2>1, <2>5, <2>6, <2>7, <2>8, Zenon
<1>5. CASE EmptyBuffers(a) # {}
  <2>1. DOMAIN e = {"d", "result"} /\ e.d = p /\ e.result = "OK"
    BY <1>1, <1>5
  <2>2. b \in Buffers /\ b \notin a.held /\ b # 0
    <3>1. EmptyBuffers(a) \subseteq Nat
      BY DEF EmptyBuffers, Buffers
    <3>2. b \in EmptyBuffers(a)
      BY <1>5, <3>1, LeastNat
    <3> HIDE DEF b
    <3> QED
      BY <3>2 DEF EmptyBuffers, Buffers
  <2>3. i \in Slots /\ a.DPB[i].pFbmBuffer = 0
    <3> DEFINE S == {j \in Slots : a.DPB[j].pFbmBuffer = 0}
    <3>1. S # {} /\ S \subseteq Nat
      BY <1>2, <1>5, FreeSlot DEF Slots
    <3> HIDE DEF S
    <3>2. Min(S) \in S
      BY <3>1, LeastNat
    <3> QED
      BY <3>2 DEF S
  <2> HIDE DEF b, i
  <2>4. SoundFrame(f)
    <3>1. a.nSeqDecode \in Sequences
      BY <1>2 DEF Sound, SoundShape
    <3>2. /\ DOMAIN f = FrameFields /\ f.pFbmBuffer = b /\ f.nPoc = nPoc
          /\ f.nSequence = a.nSeqDecode /\ f.ref = "short"
      BY DEF FrameFields
    <3>3. f.output \in BOOLEAN
      OBVIOUS
    <3> HIDE DEF f
    <3> QED
      BY <2>2, <3>1, <3>2, <3>3 DEF SoundFrame
  <2>5. f.pFbmBuffer = b /\ f.nSequence = a.nSeqDecode
    OBVIOUS
  <2> HIDE DEF f
  <2>6. /\ Sound(p) /\ p.held = a.held \cup {b}
        /\ \A n \in 0 .. 4 : Lags(a, n) => Lags(p, n)
    BY <1>2, <2>2, <2>3, <2>4, <2>5, PlacedIs
  <2> HIDE DEF p
  <2>7. \A n \in 0 .. 4 : Lags(d, n) => Lags(e.d, n)
    BY <1>2, <2>1, <2>6 DEF After
  <2>8. e.d.held \subseteq d.held \cup {b}
    BY <1>3, <2>1, <2>6
  <2> QED
    BY <2>1, <2>6, <2>7, <2>8
<1> QED
  BY <1>4, <1>5

----------------------------------------------------------------------------
(* One NAL unit. *)

\* The pictures of e are pictures of d, and no more of them wait; none has
\* gone to the display.
Fewer(d, e) ==
    /\ Sound(e) /\ e.display = d.display
    /\ \A i \in Slots :
          /\ e.DPB[i].pFbmBuffer \in {0, d.DPB[i].pFbmBuffer}
          /\ e.DPB[i].output => d.DPB[i].output

WaitingBuffers(d) == BuffersOf(d, WaitingSlots(d))

\* No more buffers than for the pictures that wait, and one.
Few(d) == Cardinality(d.held) <= nMaxNumReoderPics + 1
FewWait(d) == Cardinality(WaitingBuffers(d)) <= nMaxNumReoderPics

\* The buffers held can be counted, those that wait are among them.
LEMMA HeldFinite ==
    ASSUME NEW d, Sound(d)
    PROVE  /\ IsFiniteSet(d.held) /\ Cardinality(d.held) \in Nat
           /\ IsFiniteSet(WaitingBuffers(d))
           /\ Cardinality(WaitingBuffers(d)) \in Nat
           /\ WaitingBuffers(d) \subseteq d.held
<1>1. d.held = BuffersOf(d, UsedSlots(d))
  BY DEF Sound
<1>2. UsedSlots(d) \in SUBSET Slots /\ WaitingSlots(d) \in SUBSET Slots
  BY DEF UsedSlots, WaitingSlots
<1>3. WaitingSlots(d) \subseteq UsedSlots(d)
  BY DEF UsedSlots, WaitingSlots, Sound, SoundFrame
<1>4. WaitingBuffers(d) \subseteq d.held
  BY <1>1, <1>3 DEF WaitingBuffers, BuffersOf
<1>5. /\ IsFiniteSet(BuffersOf(d, UsedSlots(d)))
      /\ Cardinality(BuffersOf(d, UsedSlots(d))) \in Nat
      /\ IsFiniteSet(BuffersOf(d, WaitingSlots(d)))
      /\ Cardinality(BuffersOf(d, WaitingSlots(d))) \in Nat
  BY <1>2, ImageCount
<1> QED
  BY <1>1, <1>4, <1>5 DEF WaitingBuffers

\* Where pictures are given up, few buffers stay few.
LEMMA FewerKeeps ==
    ASSUME NEW d, NEW e, Sound(d), Fewer(d, e)
    PROVE  /\ e.held \subseteq d.held
           /\ WaitingBuffers(e) \subseteq WaitingBuffers(d)
           /\ Few(d) => Few(e)
           /\ FewWait(d) => FewWait(e)
<1>1. Sound(e)
  BY DEF Fewer
<1>2. e.held \subseteq d.held
  <2> SUFFICES ASSUME NEW i \in Slots, e.DPB[i].pFbmBuffer # 0
               PROVE  e.DPB[i].pFbmBuffer \in d.held
    BY <1>1 DEF Sound, BuffersOf, UsedSlots
  <2>1. d.DPB[i].pFbmBuffer # 0 /\ e.DPB[i].pFbmBuffer = d.DPB[i].pFbmBuffer
    BY DEF Fewer
  <2> QED
    BY <2>1 DEF Sound, BuffersOf, UsedSlots
<1>3. WaitingBuffers(e) \subseteq WaitingBuffers(d)
  <2> SUFFICES ASSUME NEW i \in Slots, e.DPB[i].output
               PROVE  e.DPB[i].pFbmBuffer \in WaitingBuffers(d)
    BY DEF WaitingBuffers, BuffersOf, WaitingSlots
  <2>1. d.DPB[i].output
    BY DEF Fewer
  <2>2. e.DPB[i].pFbmBuffer # 0
    BY <1>1 DEF Sound, SoundFrame
  <2>3. e.DPB[i].pFbmBuffer = d.DPB[i].pFbmBuffer
    BY <2>2 DEF Fewer
  <2> QED
    BY <2>1, <2>3 DEF WaitingBuffers, BuffersOf, WaitingSlots
<1>4. /\ Cardinality(e.held) <= Cardinality(d.held)
      /\ Cardinality(WaitingBuffers(e)) <= Cardinality(WaitingBuffers(d))
  BY <1>2, <1>3, HeldFinite, FS_Subset
<1>5. /\ Cardinality(e.held) \in Nat /\ Cardinality(d.held) \in Nat
      /\ Cardinality(WaitingBuffers(e)) \in Nat
      /\ Cardinality(WaitingBuffers(d)) \in Nat
  BY <1>1, HeldFinite
<1>6. nMaxNumReoderPics \in Nat
  BY DpbAssumption
<1> QED
  BY <1>2, <1>3, <1>4, <1>5, <1>6 DEF Few, FewWait

\* Pictures are given up twice...
LEMMA FewerFewer ==
    ASSUME NEW d, NEW e, NEW f, Fewer(d, e), Fewer(e, f)
    PROVE  Fewer(d, f)
<1>1. /\ Sound(f) /\ f.display = d.display
  BY DEF Fewer
<1>2. \A i \in Slots : /\ f.DPB[i].pFbmBuffer \in {0, d.DPB[i].pFbmBuffer}
                       /\ f.DPB[i].output => d.DPB[i].output
  BY DEF Fewer
<1> QED
  BY <1>1, <1>2 DEF Fewer

\* ... or never,
LEMMA FewerSelf == ASSUME NEW d, Sound(d) PROVE Fewer(d, d)
BY DEF Fewer

\* What keeps the slots and the display.
LEMMA AfterFewer ==
    ASSUME NEW d, NEW e, After(d, e), e.display = d.display
    PROVE  Fewer(d, e) /\ \A n \in 0 .. 4 : Lags(d, n) => Lags(e, n)
BY DEF Fewer, After

\* ... by what only trims them.
LEMMA TrimmedFewer ==
    ASSUME NEW d, NEW e, Trimmed(d, e)
    PROVE  Fewer(d, e) /\ \A n \in 0 .. 4 : Lags(d, n) => Lags(e, n)
<1>1. "display" \in DpbFields \ {"DPB", "held"}
  BY DEF DpbFields
<1>2. After(d, e) /\ e.display = d.display
  BY <1>1 DEF Trimmed, Same
<1> QED
  BY <1>2, AfterFewer

\* What lags by n lags by no more than m.
LEMMA LagsMore ==
    ASSUME NEW d, NEW n \in Nat, NEW m \in Nat, n <= m, Lags(d, n)
    PROVE  Lags(d, m)
<1>1. PICK u \in 0 .. n : LagsBy(d, u)
  BY DEF Lags
<1>2. u \in 0 .. m
  OBVIOUS
<1> QED
  BY <1>1, <1>2 DEF Lags

\* The next sequence starts.
LEMMA NextSequenceIs ==
    ASSUME NEW d, Sound(d), NEW e, e = NextSequence(d)
    PROVE  /\ Fewer(d, e) /\ e.held = d.held
           /\ \A n \in 0 .. 3 : Lags(d, n) => Lags(e, n + 1)
<1>1. DOMAIN d = DpbFields
  BY DEF Sound, SoundShape
<1> DEFINE t == d.nSeqOutput
           s == d.nSeqDecode
           v == (s + 1) % SeqModulus
<1>2. Same(d, e, {"nSeqDecode"}) /\ e.nSeqDecode = v
  BY <1>1 DEF NextSequence, Same, DpbFields
<1>3. {"DPB", "pCurrDPB", "Rps", "nSeqOutput", "held", "display"}
          \subseteq DpbFields \ {"nSeqDecode"}
  BY DEF DpbFields
<1>4. /\ e.DPB = d.DPB /\ e.pCurrDPB = d.pCurrDPB /\ e.Rps = d.Rps
      /\ e.nSeqOutput = t /\ e.held = d.held /\ e.display = d.display
  BY <1>2, <1>3 DEF Same
<1>5. v \in Sequences
  <2>1. s \in Int
    BY DEF Sound, SoundShape, Sequences
  <2>2. s + 1 \in Int
    BY <2>1
  <2> QED
    BY <2>2, SeqAny
<1>6. SoundShape(e)
  BY <1>2, <1>4, <1>5 DEF Sound, SoundShape, Same
<1>7. Sound(e)
  <2>1. /\ UsedSlots(e) = UsedSlots(d) /\ (OneOwner(d) => OneOwner(e))
        /\ \A S : BuffersOf(e, S) = BuffersOf(d, S)
    BY <1>4 DEF UsedSlots, OneOwner, BuffersOf
  <2> QED
    BY <1>4, <1>6, <2>1 DEF Sound
<1>8. Fewer(d, e)
  BY <1>4, <1>7 DEF Fewer
<1>9. ASSUME NEW n \in 0 .. 3, Lags(d, n) PROVE Lags(e, n + 1)
  <2>1. PICK u \in 0 .. n : LagsBy(d, u)
    BY <1>9 DEF Lags
  <2>2. /\ s = (t + u) % SeqModulus
        /\ \A i \in Slots : d.DPB[i].output =>
              \E w \in 0 .. u : d.DPB[i].nSequence = (t + w) % SeqModulus
    BY <2>1 DEF LagsBy
  <2>3. t \in Sequences /\ u \in 0 .. 4 /\ 1 \in 0 .. 4 /\ u + 1 <= 4
    BY DEF Sound, SoundShape
  <2>4. (((t + u) % SeqModulus) + 1) % SeqModulus = (t + (u + 1)) % SeqModulus
    BY <2>3, SeqAfter, Zenon
  <2>5. v = (t + (u + 1)) % SeqModulus
    BY <2>2, <2>4
  <2>6. e.nSeqDecode = (e.nSeqOutput + (u + 1)) % SeqModulus
    BY <1>2, <1>4, <2>5, Zenon
  <2>7. ASSUME NEW i \in Slots, e.DPB[i].output
        PROVE  \E w \in 0 .. u + 1 :
                   e.DPB[i].nSequence = (e.nSeqOutput + w) % SeqModulus
    <3>1. d.DPB[i].output
      BY <1>4, <2>7
    <3>2. PICK w \in 0 .. u : d.DPB[i].nSequence = (t + w) % SeqModulus
      BY <2>2, <3>1
    <3>3. w \in 0 .. u + 1
      OBVIOUS
    <3>4. e.DPB[i].nSequence = (e.nSeqOutput + w) % SeqModulus
      BY <1>4, <3>2
    <3> QED
      BY <3>3, <3>4
  <2>8. u + 1 \in 0 .. n + 1
    OBVIOUS
  <2> QED
    BY <2>6, <2>7, <2>8, Zenon DEF Lags, LagsBy
<1> QED
  BY <1>4, <1>8, <1>9

----------------------------------------------------------------------------
(* The decoder context, and the state of a call. *)

ContextFields ==
    {"eDecodStep", "bFindKeyFrameOnly", "VpsList", "SpsList", "PpsList",
     "pPps", "pSps", "eNaluType", "eFirstNaluType", "nPoc", "nPocTid0",
     "nMaxRa", "SliceHeader", "nSqueueFramePocList", "bErrorFrameFlag",
     "ctuShort", "bDropFrameAdaptiveEnable", "nLastPts"}

\* The buffers are enough for the references of the header.
HeaderFits(short, long) ==
    \E m, n \in Nat : /\ DOMAIN short.list = 1 .. m /\ DOMAIN long = 1 .. n
                      /\ m + n + nMaxNumReoderPics < nFrameBuffers

SoundHeader(x) ==
    /\ DOMAIN x = {"first", "type", "short", "long"}
    /\ DOMAIN x.short = {"null", "list"} /\ x.short.null \in BOOLEAN
    /\ HeaderFits(x.short, x.long)

SoundContext(c) ==
    /\ DOMAIN c = ContextFields
    /\ c.VpsList \in Nat /\ c.SpsList \in Nat /\ c.PpsList \in Nat
    /\ c.pPps \in Nat /\ c.pSps \in Nat
    /\ c.nPoc \in Int /\ c.nPocTid0 \in Int /\ c.nMaxRa \in Int
    /\ c.bFindKeyFrameOnly \in BOOLEAN /\ c.bErrorFrameFlag \in BOOLEAN
    /\ c.ctuShort \in BOOLEAN /\ c.bDropFrameAdaptiveEnable \in BOOLEAN
    /\ SoundHeader(c.SliceHeader)

\* The header says nothing of the references: there has been none since the
\* decoder was reset, or it was an IDR's.
Stale(c) == c.SliceHeader.short.null /\ c.SliceHeader.long = <<>>

CallFields == {"c", "d", "result", "listed"}

SoundCall(a) ==
    /\ DOMAIN a = CallFields /\ a.c.eDecodStep = "DECODE_FRAME"
    /\ SoundContext(a.c) /\ Sound(a.d)

\* k more sequences than that of the output have started, and the one that
\* starts with the first parameter sets.
Lagging(a, k) == Lags(a.d, k + (IF a.c.pSps = 0 THEN 0 ELSE 1))

SameHeader(a, b) ==
    /\ b.c.SliceHeader.short = a.c.SliceHeader.short
    /\ b.c.SliceHeader.long = a.c.SliceHeader.long

\* The context, but for the fields X, is the same.
SameContext(c, e, X) ==
    /\ DOMAIN e = ContextFields
    /\ \A y \in ContextFields \ X : e[y] = c[y]

\* A NAL unit the encoder wrote.
SoundNalu(n) ==
    /\ n.p.sps \in Nat \ {0} /\ n.p.lsb \in Int /\ n.p.output \in BOOLEAN
    /\ HeaderFits([list |-> ShortTermRefSet(n.p.short)], n.p.long)

\* The limits of the order counts are numbers.
LEMMA IntMax == HEVC_INT_MAX \in Int /\ HEVC_INT_MINI \in Int
BY DEF HEVC_INT_MAX, HEVC_INT_MINI

\* A call of which only the pictures change, but for marks on them.
LEMMA CallFewer ==
    ASSUME NEW a, SoundCall(a), NEW b, DOMAIN b = CallFields, b.c = a.c,
           Fewer(a.d, b.d), \A n \in 0 .. 4 : Lags(a.d, n) => Lags(b.d, n)
    PROVE  /\ SoundCall(b) /\ SameHeader(a, b)
           /\ \A k \in 0 .. 3 : Lagging(a, k) => Lagging(b, k)
<1>1. SoundCall(b) /\ SameHeader(a, b)
  BY DEF SoundCall, SameHeader, Fewer
<1>2. ASSUME NEW k \in 0 .. 3, Lagging(a, k) PROVE Lagging(b, k)
  <2> DEFINE x == k + (IF a.c.pSps = 0 THEN 0 ELSE 1)
  <2>1. x \in 0 .. 4 /\ x = k + (IF b.c.pSps = 0 THEN 0 ELSE 1)
    OBVIOUS
  <2>2. Lags(a.d, x)
    BY <1>2 DEF Lagging
  <2> HIDE DEF x
  <2> QED
    BY <2>1, <2>2 DEF Lagging
<1> QED
  BY <1>1, <1>2

\* A time stamp is taken out of the list (h265_ref.c:1090).
LEMMA DeletePtsIs ==
    ASSUME NEW d, Sound(d), NEW nPts,
           NEW e, e = HevcDecoderDeleteOnePtsFromList(d, nPts)
    PROVE  Fewer(d, e) /\ \A n \in 0 .. 4 : Lags(d, n) => Lags(e, n)
<1>1. DOMAIN d = DpbFields
  BY DEF Sound, SoundShape
<1>2. Same(d, e, {"PtsList"})
  BY <1>1 DEF HevcDecoderDeleteOnePtsFromList, Same, DpbFields
<1>3. /\ e.DPB = d.DPB /\ e.nSeqDecode = d.nSeqDecode
      /\ e.nSeqOutput = d.nSeqOutput /\ e.display = d.display
  <2>1. {"DPB", "nSeqDecode", "nSeqOutput", "display"}
            \subseteq DpbFields \ {"PtsList"}
    BY DEF DpbFields
  <2> QED
    BY <1>2, <2>1 DEF Same
<1>4. Sound(e)
  <2>1. Same(d, e, {"nSeqOutput", "nLastDispPoc", "bIsFirstPicture",
                    "PtsList", "shown"})
    BY <1>2 DEF Same
  <2>2. e.nSeqOutput \in Sequences
    BY <1>3 DEF Sound, SoundShape
  <2> QED
    BY <2>1, <2>2, SoundKept
<1>5. Fewer(d, e)
  BY <1>3, <1>4 DEF Fewer
<1>6. \A n \in 0 .. 4 : Lags(d, n) => Lags(e, n)
  BY <1>3 DEF Lags, LagsBy
<1> QED
  BY <1>5, <1>6

\* Dropping the picture.
LEMMA DroppedIs ==
    ASSUME NEW a, SoundCall(a), NEW b, b = Dropped(a)
    PROVE  /\ SoundCall(b) /\ SameHeader(a, b) /\ Fewer(a.d, b.d)
           /\ b.result = "DROP_THE_FRAME"
           /\ \A k \in 0 .. 3 : Lagging(a, k) => Lagging(b, k)
<1> DEFINE e == HevcDecoderDeleteOnePtsFromList(a.d, a.c.nLastPts)
<1>1. Fewer(a.d, e) /\ \A n \in 0 .. 4 : Lags(a.d, n) => Lags(e, n)
  BY DeletePtsIs DEF SoundCall
<1>2. /\ DOMAIN b = CallFields /\ b.c = a.c /\ b.d = e
      /\ b.result = "DROP_THE_FRAME"
  <2> HIDE DEF e
  <2>1. b = [a EXCEPT !.result = "DROP_THE_FRAME", !.d = e]
    BY DEF e, Dropped, SoundCall, CallFields
  <2> QED
    BY <2>1 DEF SoundCall, CallFields
<1> HIDE DEF e
<1> QED
  BY <1>1, <1>2, CallFewer

\* A call of which some fields of the context change.
LEMMA ContextKept ==
    ASSUME NEW c, SoundContext(c), NEW e,
           SameContext(c, e, {"eNaluType", "eFirstNaluType", "nMaxRa",
                              "nSqueueFramePocList"}),
           e.nMaxRa \in Int
    PROVE  SoundContext(e) /\ e.SliceHeader = c.SliceHeader /\ e.pSps = c.pSps
           /\ e.eDecodStep = c.eDecodStep
<1>1. ContextFields \ {"eNaluType", "eFirstNaluType", "nMaxRa",
                       "nSqueueFramePocList"}
          = {"eDecodStep", "bFindKeyFrameOnly", "VpsList", "SpsList",
             "PpsList", "pPps", "pSps", "nPoc", "nPocTid0", "SliceHeader",
             "bErrorFrameFlag", "ctuShort", "bDropFrameAdaptiveEnable",
             "nLastPts"}
  BY DEF ContextFields
<1>2. /\ e.eDecodStep = c.eDecodStep
      /\ e.bFindKeyFrameOnly = c.bFindKeyFrameOnly
      /\ e.VpsList = c.VpsList /\ e.SpsList = c.SpsList
      /\ e.PpsList = c.PpsList /\ e.pPps = c.pPps /\ e.pSps = c.pSps
      /\ e.nPoc = c.nPoc /\ e.nPocTid0 = c.nPocTid0
      /\ e.SliceHeader = c.SliceHeader
      /\ e.bErrorFrameFlag = c.bErrorFrameFlag /\ e.ctuShort = c.ctuShort
      /\ e.bDropFrameAdaptiveEnable = c.bDropFrameAdaptiveEnable
  BY <1>1, Zenon DEF SameContext
<1>3. DOMAIN e = ContextFields
  BY DEF SameContext
<1>4. /\ e.bFindKeyFrameOnly \in BOOLEAN /\ e.bErrorFrameFlag \in BOOLEAN
      /\ e.ctuShort \in BOOLEAN /\ e.bDropFrameAdaptiveEnable \in BOOLEAN
  BY <1>2, Zenon DEF SoundContext
<1> QED
  BY <1>2, <1>3, <1>4, Zenon DEF SoundContext

----------------------------------------------------------------------------
(* A picture starts. *)

\* Two small sets are no more than the buffers.
LEMMA UnionSmall ==
    ASSUME NEW A, NEW B, NEW T, IsFiniteSet(A), IsFiniteSet(B),
           T \subseteq A \cup B, NEW x \in Nat, NEW y \in Nat,
           Cardinality(A) <= x, Cardinality(B) <= y,
           x + y < nFrameBuffers
    PROVE  Cardinality(T) < nFrameBuffers
<1>1. /\ IsFiniteSet(A \cup B)
      /\ Cardinality(A \cup B) =
            Cardinality(A) + Cardinality(B) - Cardinality(A \cap B)
  BY FS_Union
<1>2. IsFiniteSet(A \cap B)
  BY FS_Intersection
<1>3. IsFiniteSet(T) /\ Cardinality(T) <= Cardinality(A \cup B)
  BY <1>1, FS_Subset
<1>4. /\ Cardinality(A) \in Nat /\ Cardinality(B) \in Nat
      /\ Cardinality(A \cap B) \in Nat /\ Cardinality(T) \in Nat
  BY <1>2, <1>3, FS_CardinalityType
<1> QED
  BY <1>1, <1>3, <1>4, DpbAssumption

\* There is a buffer for the picture once the references are set: what is
\* kept for them and for the display leaves one.
LEMMA RoomAfterRefs ==
    ASSUME NEW d, Sound(d), d.display = <<>>, FewWait(d),
           NEW short, NEW long, HeaderFits(short, long),
           short.null /\ long = <<>> => Few(d),
           NEW twice \in BOOLEAN,
           NEW q, q = IF twice THEN FlushOneAndClear(d) ELSE d,
           NEW nPoc, NEW rasl,
           NEW r, r = HevcConstuctFrameRps(q, nPoc, short, long, rasl),
           r.result = "OK"
    PROVE  Cardinality(r.d.held \cup Range(r.d.display)
                       \cup BuffersOf(r.d, WaitingSlots(r.d))) < nFrameBuffers
<1> DEFINE e == r.d
           T == e.held \cup Range(e.display) \cup BuffersOf(e, WaitingSlots(e))
           stale == short.null /\ long = <<>>
<1>1. PICK m, n \in Nat :
          /\ DOMAIN short.list = 1 .. m /\ DOMAIN long = 1 .. n
          /\ m + n + nMaxNumReoderPics < nFrameBuffers
  BY DEF HeaderFits
<1>2. /\ After(d, q) /\ Sound(q)
      /\ twice => q.held = {} /\ \A i \in Slots : q.DPB[i].pFbmBuffer = 0
      /\ ~twice => q = d
  <2>1. CASE twice
    <3>1. q = FlushOneAndClear(d)
      BY <2>1
    <3>2. /\ After(d, q) /\ q.held = {}
          /\ \A i \in Slots : q.DPB[i].pFbmBuffer = 0
      BY <3>1, FlushOneAndClearIs
    <3> QED
      BY <2>1, <3>2 DEF After
  <2>2. CASE ~twice
    <3>1. q = d
      BY <2>2
    <3> QED
      BY <2>2, <3>1, AfterSelf
  <2> QED
    BY <2>1, <2>2
<1>3. /\ After(q, e)
      /\ stale => e.DPB = q.DPB /\ e.held = q.held /\ e.display = q.display
      /\ ~stale => /\ Cardinality(Marked(e)) <= m + n
                   /\ UsedSlots(e) \subseteq Marked(e) \cup WaitingSlots(e)
  <2>1. Sound(q) /\ m \in Nat /\ n \in Nat
    BY <1>2
  <2>2. Constructed(q, short.null /\ long = <<>>, m + n, r)
    BY <1>1, <2>1, ConstructIs
  <2> QED
    BY <2>2 DEF Constructed
<1>4. After(d, e) /\ Sound(e)
  BY <1>2, <1>3, AfterAfter DEF After
<1>5. Range(e.display) \subseteq WaitingBuffers(d)
  <2>1. Range(d.display) = {}
    BY DEF Range
  <2> QED
    BY <1>4, <2>1 DEF After, WaitingBuffers
<1>6. WaitingBuffers(e) \subseteq WaitingBuffers(d)
  <2> SUFFICES ASSUME NEW i \in Slots, e.DPB[i].output
               PROVE  e.DPB[i].pFbmBuffer \in WaitingBuffers(d)
    BY DEF WaitingBuffers, BuffersOf, WaitingSlots
  <2>1. /\ d.DPB[i].output
        /\ e.DPB[i].pFbmBuffer \in {0, d.DPB[i].pFbmBuffer}
    BY <1>4 DEF After
  <2>2. e.DPB[i].pFbmBuffer # 0
    BY <1>4 DEF Sound, SoundFrame
  <2> QED
    BY <2>1, <2>2 DEF WaitingBuffers, BuffersOf, WaitingSlots
<1>7. /\ IsFiniteSet(WaitingBuffers(d))
      /\ Cardinality(WaitingBuffers(d)) <= nMaxNumReoderPics
      /\ nMaxNumReoderPics \in Nat /\ nMaxNumReoderPics + 1 < nFrameBuffers
      /\ nFrameBuffers \in Nat
  BY HeldFinite, DpbAssumption, StreamsAssumption DEF FewWait
<1>8. T = e.held \cup Range(e.display) \cup WaitingBuffers(e)
  BY DEF WaitingBuffers
<1> SUFFICES Cardinality(T) < nFrameBuffers
  OBVIOUS
<1> HIDE DEF e, T, stale
<1>9. CASE twice
  <2>1. e.held = {}
    <3>1. \A i \in Slots : e.DPB[i].pFbmBuffer = 0
      BY <1>2, <1>3, <1>9 DEF After
    <3> QED
      BY <1>4, <3>1 DEF Sound, BuffersOf, UsedSlots
  <2>2. T \subseteq {} \cup WaitingBuffers(d)
    BY <1>5, <1>6, <1>8, <2>1
  <2>3. IsFiniteSet({}) /\ Cardinality({}) <= 0
    BY FS_EmptySet
  <2>4. 0 + nMaxNumReoderPics < nFrameBuffers /\ 0 \in Nat
    BY <1>7
  <2> QED
    BY <1>7, <2>2, <2>3, <2>4, UnionSmall
<1>10. CASE ~twice /\ stale
  <2>1. e.DPB = d.DPB /\ e.held = d.held /\ e.display = <<>>
    BY <1>2, <1>3, <1>10
  <2>2. T \subseteq {} \cup d.held
    <3>1. Range(e.display) = {}
      BY <2>1 DEF Range
    <3>2. WaitingBuffers(e) \subseteq d.held
      BY <1>6, HeldFinite
    <3> QED
      BY <1>8, <2>1, <3>1, <3>2
  <2>3. IsFiniteSet({}) /\ Cardinality({}) <= 0
    BY FS_EmptySet
  <2>4. /\ IsFiniteSet(d.held)
        /\ Cardinality(d.held) <= nMaxNumReoderPics + 1
    BY <1>10, HeldFinite DEF stale, Few
  <2>5. /\ 0 + (nMaxNumReoderPics + 1) < nFrameBuffers
        /\ nMaxNumReoderPics + 1 \in Nat /\ 0 \in Nat
    BY <1>7
  <2> QED
    BY <2>2, <2>3, <2>4, <2>5, UnionSmall
<1>11. CASE ~twice /\ ~stale
  <2> DEFINE B == BuffersOf(e, Marked(e))
  <2>1. /\ Cardinality(Marked(e)) <= m + n
        /\ UsedSlots(e) \subseteq Marked(e) \cup WaitingSlots(e)
    BY <1>3, <1>11
  <2>2. e.held \subseteq B \cup WaitingBuffers(e)
    BY <1>4, <2>1 DEF Sound, BuffersOf, WaitingBuffers
  <2>3. T \subseteq B \cup WaitingBuffers(d)
    BY <1>5, <1>6, <1>8, <2>2
  <2>4. IsFiniteSet(B) /\ Cardinality(B) <= m + n
    <3>1. Marked(e) \in SUBSET Slots
      BY DEF Marked
    <3>2. /\ IsFiniteSet(B) /\ Cardinality(B) <= Cardinality(Marked(e))
          /\ Cardinality(B) \in Nat /\ Cardinality(Marked(e)) \in Nat
      BY <3>1, ImageCount
    <3> QED
      BY <2>1, <3>2
  <2>5. m + n \in Nat /\ (m + n) + nMaxNumReoderPics < nFrameBuffers
    BY <1>1
  <2> HIDE DEF B
  <2> QED
    BY <1>7, <2>3, <2>4, <2>5, UnionSmall
<1> QED
  BY <1>9, <1>10, <1>11

\* s has the pictures of d and perhaps a new one: that it has none for want
\* of a buffer comes with no more buffers held than before.
Begun(d, s, room) ==
    /\ DOMAIN s = {"d", "result"} /\ Sound(s.d)
    /\ \A n \in 0 .. 4 : Lags(d, n) => Lags(s.d, n)
    /\ s.result = "NO_FRAME_BUFFER" => s.d.held \subseteq d.held
    /\ \E y : s.d.held \subseteq d.held \cup {y}
    /\ room => s.result # "NO_FRAME_BUFFER"

\* HevcSetNewRef and HevcConstuctFrameRps when a picture starts.
LEMMA StartPictureIs ==
    ASSUME NEW d, NEW r, DOMAIN r = {"d", "result"},
           r.result \in RefResults, After(d, r.d), Sound(d),
           NEW c, c.nPoc \in Int, NEW p, p.output \in BOOLEAN,
           NEW room,
           room /\ r.result = "OK" =>
              Cardinality(r.d.held \cup Range(r.d.display)
                          \cup BuffersOf(r.d, WaitingSlots(r.d)))
                 < nFrameBuffers
    PROVE  Begun(d, StartPicture(c, r, p), room)
<1> DEFINE drop == c.bDropFrameAdaptiveEnable /\ c.eNaluType \in Droppable
           failed == [r EXCEPT !.result = "INIT_FBM_FAILED"]
           new == HevcSetNewRef(r.d, c.nPoc, p.output, drop, p.ord)
           s == StartPicture(c, r, p)
<1>1. \/ r.result # "OK" /\ s = r
      \/ r.result = "OK" /\ s = failed
      \/ r.result = "OK" /\ s = new
  BY DEF StartPicture
<1> SUFFICES Begun(d, s, room)
  OBVIOUS
<1> HIDE DEF s, new, drop
<1>2. Sound(r.d) /\ \A n \in 0 .. 4 : Lags(d, n) => Lags(r.d, n)
  BY DEF After
<1>3. r.d.held \subseteq d.held
  BY <1>2 DEF Sound, After, BuffersOf, UsedSlots
<1>4. CASE r.result # "OK" /\ s = r
  <2>1. s.result # "NO_FRAME_BUFFER"
    BY <1>4 DEF RefResults
  <2>2. s.d.held \subseteq d.held \cup {0}
    BY <1>3, <1>4
  <2> QED
    BY <1>2, <1>4, <2>1, <2>2, Zenon DEF Begun
<1>5. CASE r.result = "OK" /\ s = failed
  <2>1. /\ DOMAIN s = {"d", "result"} /\ s.d = r.d
        /\ s.result = "INIT_FBM_FAILED"
    BY <1>5
  <2>2. s.d.held \subseteq d.held \cup {0} /\ s.result # "NO_FRAME_BUFFER"
    BY <1>3, <2>1
  <2> QED
    BY <1>2, <2>1, <2>2, Zenon DEF Begun
<1>6. CASE r.result = "OK" /\ s = new
  <2> DEFINE S == r.d.held \cup Range(r.d.display)
                  \cup BuffersOf(r.d, WaitingSlots(r.d))
             small == Cardinality(S) < nFrameBuffers
  <2>1. /\ DOMAIN new = {"d", "result"}
        /\ new.result \in {"OK", "NO_FRAME_BUFFER"}
        /\ Sound(new.d) /\ \A n \in 0 .. 4 : Lags(r.d, n) => Lags(new.d, n)
        /\ new.result = "NO_FRAME_BUFFER" => new.d.held \subseteq r.d.held
        /\ \E y : new.d.held \subseteq r.d.held \cup {y}
        /\ small => new.result = "OK"
    <3> DEFINE out == p.output
               nPoc == c.nPoc
    <3>1. new = HevcSetNewRef(r.d, nPoc, out, drop, p.ord)
      BY DEF new
    <3>2. out \in BOOLEAN /\ nPoc \in Int
      OBVIOUS
    <3> HIDE DEF out, nPoc
    <3>3. /\ DOMAIN new = {"d", "result"}
          /\ new.result \in {"OK", "NO_FRAME_BUFFER"}
          /\ Sound(new.d) /\ \A n \in 0 .. 4 : Lags(r.d, n) => Lags(new.d, n)
          /\ new.result = "NO_FRAME_BUFFER" => new.d.held \subseteq r.d.held
          /\ \E y : new.d.held \subseteq r.d.held \cup {y}
          /\ Cardinality(r.d.held \cup Range(r.d.display)
                         \cup BuffersOf(r.d, WaitingSlots(r.d)))
                < nFrameBuffers => new.result = "OK"
      BY <1>2, <3>1, <3>2, SetNewRefIs
    <3> QED
      BY <3>3, Zenon
  <2>2. room => small
    BY <1>6
  <2> HIDE DEF small
  <2>3. room => new.result # "NO_FRAME_BUFFER"
    BY <2>1, <2>2
  <2>4. \A n \in 0 .. 4 : Lags(d, n) => Lags(new.d, n)
    BY <1>2, <2>1
  <2>5. new.result = "NO_FRAME_BUFFER" => new.d.held \subseteq d.held
    BY <1>3, <2>1
  <2>6. \E y : new.d.held \subseteq d.held \cup {y}
    <3>1. PICK y : new.d.held \subseteq r.d.held \cup {y}
      BY <2>1
    <3>2. new.d.held \subseteq d.held \cup {y}
      BY <1>3, <3>1
    <3> QED
      BY <3>2
  <2> QED
    BY <1>6, <2>1, <2>3, <2>4, <2>5, <2>6, Zenon DEF Begun
<1> QED
  BY <1>1, <1>4, <1>5, <1>6

\* A slice started a picture, if the call goes on with b.
FrameStarted(a, b) ==
    /\ SoundCall(b) /\ SameHeader(a, b)
    /\ \A k \in 0 .. 3 : Lagging(a, k) => Lagging(b, k)
    /\ b.result = "NO_FRAME_BUFFER" => b.d.held \subseteq a.d.held
    /\ \E y : b.d.held \subseteq a.d.held \cup {y}
    /\ a.d.display = <<>> /\ FewWait(a.d) /\ (Stale(a.c) => Few(a.d)) =>
          b.result # "NO_FRAME_BUFFER"

\* The call with the pictures and the result of s.
LEMMA StartedIs ==
    ASSUME NEW a, SoundCall(a), NEW c,
           SameContext(a.c, c, {"eNaluType", "eFirstNaluType", "nMaxRa",
                                "nSqueueFramePocList"}),
           c.nMaxRa \in Int, NEW s,
           Begun(a.d, s, a.d.display = <<>> /\ FewWait(a.d)
                         /\ (Stale(a.c) => Few(a.d)))
    PROVE  FrameStarted(a, Started(a, c, s))
<1> DEFINE e == [a EXCEPT !.c = c, !.d = s.d, !.result = s.result]
           x == Dropped(e)
           b == Started(a, c, s)
           room == a.d.display = <<>> /\ FewWait(a.d)
                   /\ (Stale(a.c) => Few(a.d))
<1>1. \/ s.result = "DROP_THE_FRAME" /\ b = x
      \/ s.result # "DROP_THE_FRAME" /\ b = e
  BY DEF Started
<1>2. /\ DOMAIN e = CallFields /\ e.c = c /\ e.d = s.d
      /\ e.result = s.result
  BY DEF SoundCall, CallFields
<1>3. /\ Sound(s.d) /\ \A n \in 0 .. 4 : Lags(a.d, n) => Lags(s.d, n)
      /\ s.result = "NO_FRAME_BUFFER" => s.d.held \subseteq a.d.held
      /\ \E y : s.d.held \subseteq a.d.held \cup {y}
      /\ room => s.result # "NO_FRAME_BUFFER"
  BY Zenon DEF Begun
<1> HIDE DEF e, b, room
<1>4. /\ SoundContext(c) /\ c.SliceHeader = a.c.SliceHeader
      /\ c.pSps = a.c.pSps /\ c.eDecodStep = "DECODE_FRAME"
  BY ContextKept DEF SoundCall
<1>5. SoundCall(e) /\ SameHeader(a, e)
  BY <1>2, <1>3, <1>4 DEF SoundCall, SameHeader
<1>6. \A k \in 0 .. 3 : Lagging(a, k) => Lagging(e, k)
  <2> SUFFICES ASSUME NEW k \in 0 .. 3, Lagging(a, k) PROVE Lagging(e, k)
    OBVIOUS
  <2> DEFINE n == k + (IF a.c.pSps = 0 THEN 0 ELSE 1)
  <2>1. n \in 0 .. 4 /\ n = k + (IF e.c.pSps = 0 THEN 0 ELSE 1)
    BY <1>2, <1>4
  <2>2. Lags(a.d, n)
    BY DEF Lagging
  <2> HIDE DEF n
  <2> QED
    BY <1>2, <1>3, <2>1, <2>2 DEF Lagging
<1>7. CASE s.result # "DROP_THE_FRAME" /\ b = e
  BY <1>2, <1>3, <1>5, <1>6, <1>7, Zenon DEF FrameStarted, b, room
<1>8. CASE s.result = "DROP_THE_FRAME" /\ b = x
  <2>1. /\ SoundCall(x) /\ SameHeader(e, x) /\ Fewer(e.d, x.d)
        /\ x.result = "DROP_THE_FRAME"
        /\ \A k \in 0 .. 3 : Lagging(e, k) => Lagging(x, k)
    BY <1>5, DroppedIs
  <2> HIDE DEF x
  <2>2. x.d.held \subseteq s.d.held
    BY <1>2, <1>3, <2>1, FewerKeeps
  <2>3. \E y : x.d.held \subseteq a.d.held \cup {y}
    <3>1. PICK y : s.d.held \subseteq a.d.held \cup {y}
      BY <1>3
    <3>2. x.d.held \subseteq a.d.held \cup {y}
      BY <2>2, <3>1
    <3> QED
      BY <3>2
  <2>4. SameHeader(a, x)
    BY <1>5, <2>1 DEF SameHeader
  <2>5. \A k \in 0 .. 3 : Lagging(a, k) => Lagging(x, k)
    BY <1>6, <2>1
  <2>6. x.result # "NO_FRAME_BUFFER"
    BY <2>1
  <2>7. FrameStarted(a, x)
    BY <2>1, <2>3, <2>4, <2>5, <2>6, Zenon DEF FrameStarted
  <2> QED
    BY <1>8, <2>7 DEF b
<1> QED
  BY <1>1, <1>7, <1>8 DEF b

\* A first slice starts a picture with the references of the header.
LEMMA FrameStartIs ==
    ASSUME NEW a, SoundCall(a), NEW p, p.output \in BOOLEAN,
           NEW b, b = HevcFrameStart(a, p)
    PROVE  FrameStarted(a, b)
<1> DEFINE twice == a.c.nPoc \in a.c.nSqueueFramePocList
           list == IF twice /\ HEVC_IS_KEYFRAME(a.c.eNaluType)
                   THEN {} ELSE a.c.nSqueueFramePocList
           c == [a.c EXCEPT !.eFirstNaluType = a.c.eNaluType,
                            !.nSqueueFramePocList = list]
           q == IF twice THEN FlushOneAndClear(a.d) ELSE a.d
           r == HevcConstuctFrameRps(q, c.nPoc, c.SliceHeader.short,
                    c.SliceHeader.long, c.eNaluType \in Rasl)
           s == StartPicture(c, r, p)
           room == a.d.display = <<>> /\ FewWait(a.d)
                   /\ (Stale(a.c) => Few(a.d))
<1>1. b = Started(a, c, s)
  BY DEF HevcFrameStart
<1>2. twice \in BOOLEAN
  OBVIOUS
<1> HIDE DEF twice, list
<1>3. /\ SameContext(a.c, c, {"eNaluType", "eFirstNaluType", "nMaxRa",
                              "nSqueueFramePocList"})
      /\ c.nMaxRa = a.c.nMaxRa /\ c.nPoc = a.c.nPoc
      /\ c.SliceHeader = a.c.SliceHeader
  BY DEF SoundCall, SoundContext, SameContext, ContextFields
<1>4. c.nMaxRa \in Int /\ c.nPoc \in Int
  BY <1>3 DEF SoundCall, SoundContext
<1> HIDE DEF c, q, r, s, room
<1>5. After(a.d, q) /\ Sound(q) /\ Sound(a.d)
  <2>0. Sound(a.d)
    BY DEF SoundCall
  <2>1. CASE twice
    <3>1. q = FlushOneAndClear(a.d)
      BY <2>1 DEF q
    <3> QED
      BY <2>0, <3>1, FlushOneAndClearIs DEF After
  <2>2. CASE ~twice
    <3>1. q = a.d
      BY <2>2 DEF q
    <3> QED
      BY <2>0, <3>1, AfterSelf
  <2> QED
    BY <2>0, <2>1, <2>2
<1>6. HeaderFits(c.SliceHeader.short, c.SliceHeader.long)
  BY <1>3 DEF SoundCall, SoundContext, SoundHeader
<1>7. /\ DOMAIN r = {"d", "result"} /\ r.result \in RefResults
      /\ After(a.d, r.d)
  <2>1. PICK m, n \in Nat : /\ DOMAIN c.SliceHeader.short.list = 1 .. m
                            /\ DOMAIN c.SliceHeader.long = 1 .. n
    BY <1>6 DEF HeaderFits
  <2>2. Constructed(q, c.SliceHeader.short.null /\ c.SliceHeader.long = <<>>,
                    m + n, r)
    BY <1>5, <2>1, ConstructIs DEF r
  <2>3. /\ DOMAIN r = {"d", "result"} /\ r.result \in RefResults
        /\ After(q, r.d)
    BY <2>2 DEF Constructed
  <2> QED
    BY <1>5, <2>3, AfterAfter
<1>8. ASSUME room, r.result = "OK"
      PROVE  Cardinality(r.d.held \cup Range(r.d.display)
                         \cup BuffersOf(r.d, WaitingSlots(r.d)))
                < nFrameBuffers
  <2>1. /\ a.d.display = <<>> /\ FewWait(a.d)
        /\ c.SliceHeader.short.null /\ c.SliceHeader.long = <<>> => Few(a.d)
    BY <1>3, <1>8, Zenon DEF room, Stale
  <2> QED
    BY <1>2, <1>5, <1>6, <1>8, <2>1, RoomAfterRefs, ZenonT(30) DEF q, r
<1>9. Begun(a.d, s, room)
  BY <1>4, <1>5, <1>7, <1>8, StartPictureIs, SMTT(30) DEF s
<1> QED
  BY <1>1, <1>3, <1>4, <1>9, StartedIs DEF room

----------------------------------------------------------------------------
(* The slice header. *)

\* After HevcClearRefs only the pictures that wait hold buffers.
LEMMA ClearedIs ==
    ASSUME NEW d, Sound(d), NEW e, e = HevcClearRefs(d)
    PROVE  /\ Fewer(d, e) /\ e.held \subseteq WaitingBuffers(d)
           /\ \A n \in 0 .. 4 : Lags(d, n) => Lags(e, n)
<1>1. /\ Trimmed(d, e)
      /\ \A i \in Slots : e.DPB[i].pFbmBuffer # 0 => e.DPB[i].output
  BY ClearRefsIs
<1>2. Fewer(d, e) /\ \A n \in 0 .. 4 : Lags(d, n) => Lags(e, n)
  BY <1>1, TrimmedFewer
<1>3. e.held \subseteq WaitingBuffers(e)
  <2>1. e.held = BuffersOf(e, UsedSlots(e))
    BY <1>2 DEF Fewer, Sound
  <2>2. UsedSlots(e) \subseteq WaitingSlots(e)
    BY <1>1 DEF UsedSlots, WaitingSlots
  <2> QED
    BY <2>1, <2>2 DEF WaitingBuffers, BuffersOf
<1>4. WaitingBuffers(e) \subseteq WaitingBuffers(d)
  BY <1>2, FewerKeeps
<1> QED
  BY <1>2, <1>3, <1>4

\* The pictures at the start of the header.
StartPictures(d, starts, idr) ==
    LET m == IF starts THEN NextSequence(d) ELSE d
    IN  IF starts /\ idr THEN HevcClearRefs(m) ELSE m

\* A new sequence starts with an IDR, or with the first parameter sets.
LEMMA StartPicturesIs ==
    ASSUME NEW d, Sound(d), NEW starts \in BOOLEAN, NEW idr \in BOOLEAN,
           NEW e, e = StartPictures(d, starts, idr)
    PROVE  /\ Fewer(d, e)
           /\ starts /\ idr => e.held \subseteq WaitingBuffers(d)
           /\ \A n \in 0 .. 4 : Lags(d, n) /\ ~starts => Lags(e, n)
           /\ \A n \in 0 .. 3 : Lags(d, n) => Lags(e, n + 1)
<1> DEFINE m == IF starts THEN NextSequence(d) ELSE d
           c == HevcClearRefs(m)
<1>1. /\ Fewer(d, m) /\ Sound(m)
      /\ \A n \in 0 .. 4 : Lags(d, n) /\ ~starts => Lags(m, n)
      /\ \A n \in 0 .. 3 : Lags(d, n) => Lags(m, n + 1)
  <2>1. CASE starts
    <3>1. m = NextSequence(d)
      BY <2>1
    <3> HIDE DEF m
    <3>2. /\ Fewer(d, m)
          /\ \A n \in 0 .. 3 : Lags(d, n) => Lags(m, n + 1)
      BY <3>1, NextSequenceIs
    <3> QED
      BY <2>1, <3>2 DEF Fewer
  <2>2. CASE ~starts
    <3>1. m = d
      BY <2>2
    <3>2. Fewer(d, m)
      BY <3>1, FewerSelf
    <3>3. \A n \in 0 .. 3 : Lags(d, n) => Lags(m, n + 1)
      <4>1. \A n \in 0 .. 3 : Lags(d, n) => Lags(d, n + 1)
        <5> SUFFICES ASSUME NEW n \in 0 .. 3, Lags(d, n) PROVE Lags(d, n + 1)
          OBVIOUS
        <5>1. n \in Nat /\ n + 1 \in Nat /\ n <= n + 1
          OBVIOUS
        <5> QED
          BY <5>1, LagsMore
      <4> QED
        BY <3>1, <4>1
    <3>4. \A n \in 0 .. 4 : Lags(d, n) => Lags(m, n)
      BY <3>1
    <3>5. Sound(m)
      BY <3>1
    <3> QED
      BY <3>2, <3>3, <3>4, <3>5
  <2> QED
    BY <2>1, <2>2
<1>2. \/ starts /\ idr /\ e = c
      \/ ~ (starts /\ idr) /\ e = m
  BY DEF StartPictures
<1> HIDE DEF m
<1>3. CASE starts /\ idr /\ e = c
  <2>1. /\ Fewer(m, c) /\ c.held \subseteq WaitingBuffers(m)
        /\ \A n \in 0 .. 4 : Lags(m, n) => Lags(c, n)
    BY <1>1, ClearedIs
  <2> HIDE DEF c
  <2>2. Fewer(d, c)
    BY <1>1, <2>1, FewerFewer
  <2>3. WaitingBuffers(m) \subseteq WaitingBuffers(d)
    BY <1>1, FewerKeeps
  <2>4. \A n \in 0 .. 3 : Lags(d, n) => Lags(c, n + 1)
    <3> SUFFICES ASSUME NEW n \in 0 .. 3, Lags(d, n) PROVE Lags(c, n + 1)
      OBVIOUS
    <3>1. Lags(m, n + 1) /\ n + 1 \in 0 .. 4
      BY <1>1
    <3> QED
      BY <2>1, <3>1
  <2> QED
    BY <1>3, <2>1, <2>2, <2>3, <2>4
<1>4. CASE ~ (starts /\ idr) /\ e = m
  BY <1>1, <1>4
<1> QED
  BY <1>2, <1>3, <1>4

\* What a part of the header leaves.  x is 1 if another sequence may start.
HeaderPart(a, b, x) ==
    /\ SoundCall(b) /\ Fewer(a.d, b.d) /\ SameHeader(a, b)
    /\ \A k \in 0 .. 3 : k + x <= 3 /\ Lagging(a, k) => Lagging(b, k + x)

\* A slice header: the sequence it starts,
LEMMA HeaderStartIs ==
    ASSUME NEW a, SoundCall(a), NEW n, n.first \in BOOLEAN,
           NEW b, b = HeaderStart(a, n)
    PROVE  /\ HeaderPart(a, b, IF n.first THEN 1 ELSE 0)
           /\ b.result = a.result /\ b.c.SpsList = a.c.SpsList
           /\ n.first /\ HEVC_IS_IDR(n.p.type) =>
                 b.d.held \subseteq WaitingBuffers(a.d)
<1> DEFINE idr == HEVC_IS_IDR(n.p.type)
           starts == n.first /\ (idr \/ HEVC_IS_BLA(n.p.type))
           e == StartPictures(a.d, starts, idr)
           list == IF idr THEN {} ELSE a.c.nSqueueFramePocList
           ra == IF starts THEN HEVC_INT_MAX ELSE a.c.nMaxRa
           sh == [a.c.SliceHeader EXCEPT !.first = n.first]
           c == [a.c EXCEPT !.SliceHeader = sh, !.eNaluType = n.p.type,
                            !.nSqueueFramePocList = list, !.nMaxRa = ra]
<1>1. /\ idr \in BOOLEAN /\ starts \in BOOLEAN
      /\ starts => n.first
      /\ n.first /\ idr => starts
  BY DEF HEVC_IS_IDR, HEVC_IS_BLA
<1>2. e = IF starts /\ idr
          THEN HevcClearRefs(IF starts THEN NextSequence(a.d) ELSE a.d)
          ELSE IF starts THEN NextSequence(a.d) ELSE a.d
  BY DEF StartPictures
<1>3. b = [a EXCEPT !.c = c, !.d = e]
  <2>1. b = [a EXCEPT !.c.SliceHeader.first = n.first,
                      !.c.eNaluType = n.p.type,
                      !.c.nSqueueFramePocList = list,
                      !.c.nMaxRa = ra, !.d = e]
    <3> HIDE DEF e
    <3> QED
      BY <1>2 DEF HeaderStart
  <2> HIDE DEF e, list, ra, starts, idr
  <2> QED
    BY <2>1 DEF SoundCall, CallFields, SoundContext, ContextFields
<1> HIDE DEF e, list, ra, starts
<1>4. /\ DOMAIN c = ContextFields /\ c.SliceHeader = sh /\ c.nMaxRa = ra
      /\ \A y \in ContextFields \ {"SliceHeader", "eNaluType",
                                   "nSqueueFramePocList", "nMaxRa"} :
            c[y] = a.c[y]
  BY DEF SoundCall, SoundContext, ContextFields
<1>5. /\ SoundHeader(sh) /\ sh.short = a.c.SliceHeader.short
      /\ sh.long = a.c.SliceHeader.long
  BY DEF SoundCall, SoundContext, SoundHeader
<1>6. ra \in Int
  BY IntMax DEF ra, SoundCall, SoundContext
<1> HIDE DEF c, sh
<1>7. {"eDecodStep", "bFindKeyFrameOnly", "VpsList", "SpsList", "PpsList",
       "pPps", "pSps", "nPoc", "nPocTid0", "bErrorFrameFlag", "ctuShort",
       "bDropFrameAdaptiveEnable"}
          \subseteq ContextFields \ {"SliceHeader", "eNaluType",
                                     "nSqueueFramePocList", "nMaxRa"}
  BY DEF ContextFields
<1>8. /\ c.eDecodStep = a.c.eDecodStep
      /\ c.bFindKeyFrameOnly = a.c.bFindKeyFrameOnly
      /\ c.VpsList = a.c.VpsList /\ c.SpsList = a.c.SpsList
      /\ c.PpsList = a.c.PpsList /\ c.pPps = a.c.pPps
      /\ c.pSps = a.c.pSps /\ c.nPoc = a.c.nPoc
      /\ c.nPocTid0 = a.c.nPocTid0
      /\ c.bErrorFrameFlag = a.c.bErrorFrameFlag
      /\ c.ctuShort = a.c.ctuShort
      /\ c.bDropFrameAdaptiveEnable = a.c.bDropFrameAdaptiveEnable
  BY <1>4, <1>7, Zenon
<1>9. SoundContext(c)
  <2>1. /\ c.bFindKeyFrameOnly \in BOOLEAN /\ c.bErrorFrameFlag \in BOOLEAN
        /\ c.ctuShort \in BOOLEAN /\ c.bDropFrameAdaptiveEnable \in BOOLEAN
    BY <1>8, Zenon DEF SoundCall, SoundContext
  <2>2. SoundHeader(c.SliceHeader) /\ c.nMaxRa \in Int
    BY <1>4, <1>5, <1>6
  <2> QED
    BY <1>4, <1>8, <2>1, <2>2, Zenon DEF SoundCall, SoundContext
<1>10. /\ DOMAIN b = CallFields /\ b.c = c /\ b.d = e
       /\ b.result = a.result
  BY <1>3 DEF SoundCall, CallFields
<1>11. /\ Fewer(a.d, e)
       /\ starts /\ idr => e.held \subseteq WaitingBuffers(a.d)
       /\ \A m \in 0 .. 4 : Lags(a.d, m) /\ ~starts => Lags(e, m)
       /\ \A m \in 0 .. 3 : Lags(a.d, m) => Lags(e, m + 1)
  <2>1. Sound(a.d)
    BY DEF SoundCall
  <2> HIDE DEF idr
  <2> QED
    BY <1>1, <2>1, StartPicturesIs DEF e
<1>12. SoundCall(b) /\ SameHeader(a, b)
  BY <1>4, <1>5, <1>8, <1>9, <1>10, <1>11 DEF SoundCall, SameHeader, Fewer
<1>13. ASSUME NEW k \in 0 .. 3, k + (IF n.first THEN 1 ELSE 0) <= 3,
              Lagging(a, k)
       PROVE  Lagging(b, k + (IF n.first THEN 1 ELSE 0))
  <2> DEFINE y == IF a.c.pSps = 0 THEN 0 ELSE 1
  <2>1. y \in 0 .. 1 /\ y = IF b.c.pSps = 0 THEN 0 ELSE 1
    BY <1>8, <1>10
  <2>2. Lags(a.d, k + y)
    BY <1>13 DEF Lagging
  <2> HIDE DEF y
  <2>3. CASE n.first
    <3>1. k + y \in 0 .. 3 /\ (k + y) + 1 = (k + 1) + y
      BY <1>13, <2>1, <2>3
    <3>2. Lags(e, (k + y) + 1)
      BY <1>11, <2>2, <3>1
    <3>3. Lags(b.d, (k + 1) + y)
      BY <1>10, <3>1, <3>2
    <3> QED
      BY <2>1, <2>3, <3>3 DEF Lagging
  <2>4. CASE ~n.first
    <3>1. k + y \in 0 .. 4 /\ ~starts /\ k + 0 = k
      BY <1>1, <2>1, <2>4
    <3>2. Lags(b.d, k + y)
      BY <1>10, <1>11, <2>2, <3>1
    <3> QED
      BY <2>1, <2>4, <3>1, <3>2 DEF Lagging
  <2> QED
    BY <2>3, <2>4
<1>14. HeaderPart(a, b, IF n.first THEN 1 ELSE 0)
  BY <1>10, <1>11, <1>12, <1>13 DEF HeaderPart
<1> QED
  BY <1>1, <1>8, <1>10, <1>11, <1>14

\* What a context whose fields X change to sound values keeps.
LEMMA ContextIs ==
    ASSUME NEW c, DOMAIN c = ContextFields,
           c.VpsList \in Nat, c.SpsList \in Nat, c.PpsList \in Nat,
           c.pPps \in Nat, c.pSps \in Nat,
           c.nPoc \in Int, c.nPocTid0 \in Int, c.nMaxRa \in Int,
           c.bFindKeyFrameOnly \in BOOLEAN, c.bErrorFrameFlag \in BOOLEAN,
           c.ctuShort \in BOOLEAN, c.bDropFrameAdaptiveEnable \in BOOLEAN,
           SoundHeader(c.SliceHeader)
    PROVE  SoundContext(c)
BY Zenon DEF SoundContext

\* ... the parameter sets it makes active,
LEMMA HeaderSetsIs ==
    ASSUME NEW a, SoundCall(a), a.c.SpsList # 0, a.result = "OK",
           NEW b, b = HeaderSets(a)
    PROVE  HeaderPart(a, b, 0) /\ b.result \in {"OK", "PICTURES_SIZE_CHANGE"}
<1> DEFINE sps == a.c.SpsList
           c == [a.c EXCEPT !.pSps = sps, !.pPps = a.c.PpsList]
           w == [c EXCEPT !.nMaxRa = HEVC_INT_MAX]
           d == HevcClearRefs(a.d)
           e == NextSequence(d)
           used == [a EXCEPT !.c = c]
           new == [a EXCEPT !.c = w, !.d = e]
           size == [a EXCEPT !.c = c, !.result = "PICTURES_SIZE_CHANGE"]
<1>1. /\ DOMAIN a = CallFields /\ DOMAIN a.c = ContextFields
      /\ Sound(a.d)
  BY DEF SoundCall, SoundContext
<1>2. \/ a.c.pSps = 0 /\ b = new
      \/ a.c.pSps # 0 /\ b \in {size, used}
  <2> DEFINE f == [a EXCEPT !.c.pSps = sps, !.c.pPps = a.c.PpsList]
             g == [f EXCEPT !.c.nMaxRa = HEVC_INT_MAX,
                            !.d = NextSequence(HevcClearRefs(@))]
             k == [f EXCEPT !.result = "PICTURES_SIZE_CHANGE"]
  <2>1. f = used
    BY <1>1 DEF CallFields, ContextFields
  <2>2. \/ a.c.pSps = 0 /\ b = g
        \/ a.c.pSps # 0 /\ b \in {k, f}
    <3> HIDE DEF g, k, f
    <3>1. b = CASE a.c.pSps = 0 -> g
                [] a.c.pSps # 0 /\ Size(a.c.pSps) # Size(sps) -> k
                [] OTHER -> f
      BY DEF HeaderSets, f, g, k
    <3> QED
      BY <3>1
  <2>3. k = size
    <3> HIDE DEF f, c
    <3> QED
      BY <2>1, <1>1 DEF CallFields
  <2>4. g = new
    <3>2. DOMAIN f = CallFields /\ f.c = c /\ f.d = a.d
      BY <1>1, <2>1 DEF CallFields
    <3>3. g = [f EXCEPT !.c = w, !.d = e]
      <4> HIDE DEF f, c
      <4> QED
        BY <1>1, <3>2 DEF CallFields
    <3>4. [used EXCEPT !.c = w, !.d = e] = new
      <4> HIDE DEF c, w, e
      <4> QED
        BY <1>1 DEF CallFields
    <3> HIDE DEF f, g, used, new, c, w, d, e
    <3> QED
      BY <2>1, <3>3, <3>4
  <2> QED
    BY <2>1, <2>2, <2>3, <2>4
<1>3. /\ DOMAIN c = ContextFields /\ c.pSps = sps
      /\ c.SliceHeader = a.c.SliceHeader /\ c.eDecodStep = "DECODE_FRAME"
      /\ SoundContext(c)
  <2>1. /\ DOMAIN c = ContextFields /\ c.pSps = sps
        /\ c.SliceHeader = a.c.SliceHeader /\ c.eDecodStep = "DECODE_FRAME"
    BY DEF SoundCall, SoundContext, ContextFields
  <2>2. SoundContext(c)
    BY DEF SoundCall, SoundContext, ContextFields
  <2> QED
    BY <2>1, <2>2
<1> HIDE DEF c
<1>4. /\ DOMAIN w = ContextFields /\ w.pSps = sps
      /\ w.SliceHeader = a.c.SliceHeader /\ w.eDecodStep = "DECODE_FRAME"
      /\ SoundContext(w)
  <2>1. /\ DOMAIN w = ContextFields /\ w.pSps = sps
        /\ w.SliceHeader = a.c.SliceHeader /\ w.eDecodStep = "DECODE_FRAME"
    BY <1>3 DEF ContextFields
  <2>2. SoundContext(w)
    BY <1>3, IntMax DEF SoundContext, ContextFields
  <2> QED
    BY <2>1, <2>2
<1> HIDE DEF w
<1>5. /\ Fewer(a.d, d) /\ Sound(d)
      /\ \A n \in 0 .. 4 : Lags(a.d, n) => Lags(d, n)
  BY <1>1, ClearedIs DEF Fewer
<1>6. /\ Fewer(a.d, e) /\ Sound(e)
      /\ \A n \in 0 .. 3 : Lags(a.d, n) => Lags(e, n + 1)
  <2> HIDE DEF d
  <2>1. /\ Fewer(d, e)
        /\ \A n \in 0 .. 3 : Lags(d, n) => Lags(e, n + 1)
    BY <1>5, NextSequenceIs
  <2>2. Fewer(a.d, e)
    BY <1>5, <2>1, FewerFewer
  <2>3. \A n \in 0 .. 3 : Lags(a.d, n) => Lags(e, n + 1)
    <3> SUFFICES ASSUME NEW n \in 0 .. 3, Lags(a.d, n) PROVE Lags(e, n + 1)
      OBVIOUS
    <3>1. n \in 0 .. 4
      OBVIOUS
    <3> QED
      BY <1>5, <2>1, <3>1
  <2> QED
    BY <2>2, <2>3 DEF Fewer
<1> HIDE DEF e, d
<1>7. CASE a.c.pSps = 0 /\ b = new
  <2>1. /\ DOMAIN b = CallFields /\ b.c = w /\ b.d = e
        /\ b.result = "OK"
    BY <1>1, <1>7 DEF CallFields
  <2>2. SoundCall(b) /\ SameHeader(a, b)
    BY <1>4, <1>6, <2>1 DEF SoundCall, SameHeader
  <2>3. ASSUME NEW k \in 0 .. 3, Lagging(a, k) PROVE Lagging(b, k + 0)
    <3>1. Lags(a.d, k)
      <4>1. k + 0 = k
        OBVIOUS
      <4> QED
        BY <1>7, <2>3, <4>1 DEF Lagging
    <3>2. Lags(b.d, k + 1)
      BY <1>6, <2>1, <3>1
    <3>3. b.c.pSps # 0
      BY <1>4, <2>1
    <3>4. k + 0 = k
      OBVIOUS
    <3> QED
      BY <3>2, <3>3, <3>4 DEF Lagging
  <2> QED
    BY <1>6, <2>1, <2>2, <2>3 DEF HeaderPart
<1>8. CASE a.c.pSps # 0 /\ b \in {size, used}
  <2>1. /\ DOMAIN b = CallFields /\ b.c = c /\ b.d = a.d
        /\ b.result \in {"OK", "PICTURES_SIZE_CHANGE"}
    <3>1. CASE b = size
      BY <1>1, <3>1 DEF CallFields
    <3>2. CASE b = used
      BY <1>1, <3>2 DEF CallFields
    <3> QED
      BY <1>8, <3>1, <3>2
  <2>2. SoundCall(b) /\ SameHeader(a, b)
    BY <1>1, <1>3, <2>1 DEF SoundCall, SameHeader
  <2>3. ASSUME NEW k \in 0 .. 3, Lagging(a, k) PROVE Lagging(b, k + 0)
    <3>1. Lags(b.d, k + 1)
      BY <1>8, <2>1, <2>3 DEF Lagging
    <3>2. b.c.pSps # 0 /\ k + 0 = k
      BY <1>3, <2>1
    <3> QED
      BY <3>1, <3>2 DEF Lagging
  <2>4. Fewer(a.d, b.d)
    BY <1>1, <2>1, FewerSelf
  <2> QED
    BY <2>1, <2>2, <2>3, <2>4 DEF HeaderPart
<1> QED
  BY <1>2, <1>7, <1>8

\* The order count is a number.
LEMMA PocIs ==
    ASSUME NEW x \in Int, NEW lsb \in Int, NEW type
    PROVE  HevcComputePoc(x, lsb, type) \in Int
<1> DEFINE r == Remainder(x, MaxPocLsb)
           half == MaxPocLsb \div 2
<1>1. MaxPocLsb \in Nat \ {0}
  BY DpbAssumption
<1>2. r \in Int
  <2>1. x % MaxPocLsb \in Int
    BY <1>1
  <2>2. (-x) % MaxPocLsb \in Int
    BY <1>1
  <2> QED
    BY <2>1, <2>2 DEF Remainder
<1>3. HevcComputePoc(x, lsb, type) =
         lsb + (CASE HEVC_IS_BLA(type) -> 0
                  [] ~HEVC_IS_BLA(type) /\ lsb < r /\ r - lsb >= half ->
                        (x - r) + MaxPocLsb
                  [] ~HEVC_IS_BLA(type) /\ lsb > r /\ lsb - r > half ->
                        (x - r) - MaxPocLsb
                  [] OTHER -> x - r)
  BY DEF HevcComputePoc
<1> HIDE DEF r, half
<1> QED
  BY <1>1, <1>2, <1>3

\* The rest of the header: the references it names are those of a picture the
\* encoder wrote.
LEMMA HeaderRestIs ==
    ASSUME NEW a, SoundCall(a), NEW n, SoundNalu(n),
           NEW b, b = HeaderRest(a, n)
    PROVE  /\ SoundCall(b) /\ b.d = a.d /\ b.c.pSps = a.c.pSps
           /\ b.result = a.result
           /\ Stale(b.c) => HEVC_IS_IDR(n.p.type)
<1> DEFINE p == n.p
           idr == HEVC_IS_IDR(p.type)
           poc == CASE idr -> 0
                    [] ~idr /\ n.first ->
                          HevcComputePoc(a.c.nPocTid0, p.lsb, p.type)
                    [] OTHER -> a.c.nPoc
           tid == IF p.tid = 0 /\ p.type \notin NotTid0
                  THEN poc ELSE a.c.nPocTid0
           long == IF idr THEN <<>> ELSE LongTermRefSet(p.long, poc, p.lsb)
           list == IF idr THEN <<>> ELSE ShortTermRefSet(p.short)
           sh == [first |-> n.first, type |-> p.slice,
                  short |-> [null |-> idr, list |-> list], long |-> long]
           c == [a.c EXCEPT !.nPoc = poc, !.nPocTid0 = tid,
                            !.SliceHeader = sh]
<1>1. b = [a EXCEPT !.c = c]
  <2>1. b = [a EXCEPT !.c.nPoc = poc, !.c.nPocTid0 = tid,
                      !.c.SliceHeader = sh]
    BY DEF HeaderRest
  <2> HIDE DEF poc, tid, sh
  <2> QED
    BY <2>1 DEF SoundCall, CallFields, SoundContext, ContextFields
<1>2. idr \in BOOLEAN
  BY DEF HEVC_IS_IDR
<1>3. poc \in Int /\ tid \in Int
  <2>0. /\ a.c.nPocTid0 \in Int /\ p.lsb \in Int /\ a.c.nPoc \in Int
    BY DEF SoundCall, SoundContext, SoundNalu
  <2>1. HevcComputePoc(a.c.nPocTid0, p.lsb, p.type) \in Int
    <3> DEFINE x == a.c.nPocTid0
               y == p.lsb
    <3>1. x \in Int /\ y \in Int
      BY <2>0
    <3> HIDE DEF x, y
    <3>2. HevcComputePoc(x, y, p.type) \in Int
      BY <3>1, PocIs
    <3> QED
      BY <3>2 DEF x, y
  <2>2. poc \in Int
    <3> HIDE DEF idr
    <3> QED
      BY <2>0, <2>1
  <2> HIDE DEF poc
  <2> QED
    BY <2>0, <2>2
<1>4. HeaderFits(sh.short, sh.long)
  <2>1. PICK m, k \in Nat :
            /\ DOMAIN ShortTermRefSet(p.short) = 1 .. m
            /\ DOMAIN p.long = 1 .. k
            /\ m + k + nMaxNumReoderPics < nFrameBuffers
    BY DEF SoundNalu, HeaderFits
  <2>2. CASE idr
    <3>1. /\ DOMAIN sh.short.list = 1 .. 0 /\ DOMAIN sh.long = 1 .. 0
          /\ 0 \in Nat /\ 0 + 0 + nMaxNumReoderPics < nFrameBuffers
      BY <2>2, StreamsAssumption, DpbAssumption
    <3> HIDE DEF sh
    <3> QED
      BY <3>1 DEF HeaderFits
  <2>3. CASE ~idr
    <3>1. /\ DOMAIN sh.short.list = 1 .. m /\ DOMAIN sh.long = 1 .. k
      <4>1. DOMAIN LongTermRefSet(p.long, poc, p.lsb) = 1 .. k
        BY <2>1 DEF LongTermRefSet
      <4> HIDE DEF idr, poc
      <4> QED
        BY <2>1, <2>3, <4>1
    <3> HIDE DEF sh
    <3> QED
      BY <2>1, <3>1 DEF HeaderFits
  <2> QED
    BY <2>2, <2>3
<1>5. SoundHeader(sh) /\ sh.short.null = idr
  <2> HIDE DEF idr, list, long
  <2>1. /\ DOMAIN sh = {"first", "type", "short", "long"}
        /\ DOMAIN sh.short = {"null", "list"} /\ sh.short.null = idr
    OBVIOUS
  <2> HIDE DEF sh
  <2> QED
    BY <1>2, <1>4, <2>1, Zenon DEF SoundHeader
<1> HIDE DEF sh, poc, tid, idr
<1>6. /\ SoundContext(c) /\ c.pSps = a.c.pSps /\ c.SliceHeader = sh
      /\ c.eDecodStep = "DECODE_FRAME"
  <2>1. /\ c.pSps = a.c.pSps /\ c.SliceHeader = sh
        /\ c.eDecodStep = "DECODE_FRAME"
    BY DEF SoundCall, SoundContext, ContextFields
  <2>2. SoundContext(c)
    BY <1>3, <1>5 DEF SoundCall, SoundContext, ContextFields
  <2> QED
    BY <2>1, <2>2
<1> HIDE DEF c
<1>7. /\ DOMAIN b = CallFields /\ b.c = c /\ b.d = a.d
      /\ b.result = a.result
  BY <1>1 DEF SoundCall, CallFields
<1>8. SoundCall(b)
  BY <1>6, <1>7 DEF SoundCall
<1>9. Stale(b.c) => idr
  BY <1>5, <1>6, <1>7, Zenon DEF Stale
<1> QED
  BY <1>6, <1>7, <1>8, <1>9 DEF idr

\* The header has been read, or what of it can be.
HeaderDone(a, n, b) ==
    /\ SoundCall(b) /\ Fewer(a.d, b.d)
    /\ \A k \in 0 .. 3 :
          k + (IF n.first THEN 1 ELSE 0) <= 3 /\ Lagging(a, k) =>
             Lagging(b, k + (IF n.first THEN 1 ELSE 0))
    /\ b.result \in {"OK", "PICTURES_SIZE_CHANGE"}
    /\ n.first /\ HEVC_IS_IDR(n.p.type) =>
          b.d.held \subseteq WaitingBuffers(a.d)
    /\ n.garbled \/ b.result # "OK" => SameHeader(a, b)
    /\ ~n.garbled /\ b.result = "OK" /\ Stale(b.c) => HEVC_IS_IDR(n.p.type)

\* ... and the whole of it, HevcDecodeSliceHeader.
LEMMA SliceHeaderIs ==
    ASSUME NEW a, SoundCall(a), a.c.SpsList # 0, a.result = "OK",
           NEW n, SoundNalu(n), n.first \in BOOLEAN, n.garbled \in BOOLEAN,
           NEW b, b = HevcDecodeSliceHeader(a, n)
    PROVE  HeaderDone(a, n, b)
<1> DEFINE s == HeaderStart(a, n)
           t == HeaderSets(s)
           r == HeaderRest(t, n)
           g == [s EXCEPT !.c.bErrorFrameFlag = TRUE]
           x == IF n.first THEN 1 ELSE 0
<1>1. \/ n.garbled /\ b = g
      \/ ~n.garbled /\ t.result = "OK" /\ b = r
      \/ ~n.garbled /\ t.result # "OK" /\ b = t
  BY DEF HevcDecodeSliceHeader
<1>2. /\ HeaderPart(a, s, x)
      /\ s.result = "OK" /\ s.c.SpsList # 0
      /\ n.first /\ HEVC_IS_IDR(n.p.type) =>
            s.d.held \subseteq WaitingBuffers(a.d)
  BY HeaderStartIs
<1>3. x \in 0 .. 1
  OBVIOUS
<1> HIDE DEF s, t, r, x
<1>4. /\ SoundCall(s) /\ Fewer(a.d, s.d) /\ SameHeader(a, s)
      /\ \A k \in 0 .. 3 : k + x <= 3 /\ Lagging(a, k) => Lagging(s, k + x)
  BY <1>2 DEF HeaderPart
<1>5. CASE n.garbled /\ b = g
  <2>1. /\ DOMAIN b = CallFields /\ b.d = s.d /\ b.result = "OK"
        /\ b.c = [s.c EXCEPT !.bErrorFrameFlag = TRUE]
    BY <1>2, <1>4, <1>5 DEF SoundCall, CallFields
  <2>2. /\ SoundContext(b.c) /\ b.c.pSps = s.c.pSps
        /\ b.c.eDecodStep = "DECODE_FRAME"
        /\ b.c.SliceHeader = s.c.SliceHeader
    <3> DEFINE c == [s.c EXCEPT !.bErrorFrameFlag = TRUE]
    <3>1. SoundContext(c)
      BY <1>4 DEF SoundCall, SoundContext, ContextFields
    <3>2. /\ c.pSps = s.c.pSps /\ c.eDecodStep = "DECODE_FRAME"
          /\ c.SliceHeader = s.c.SliceHeader
      BY <1>4 DEF SoundCall, SoundContext, ContextFields
    <3> HIDE DEF c
    <3>3. b.c = c
      BY <2>1 DEF c
    <3> QED
      BY <3>1, <3>2, <3>3
  <2>3. SoundCall(b) /\ SameHeader(a, b)
    BY <1>4, <2>1, <2>2 DEF SoundCall, SameHeader
  <2>4. \A k \in 0 .. 3 : k + x <= 3 /\ Lagging(a, k) => Lagging(b, k + x)
    BY <1>4, <2>1, <2>2 DEF Lagging
  <2>5. n.first /\ HEVC_IS_IDR(n.p.type) =>
           b.d.held \subseteq WaitingBuffers(a.d)
    BY <1>2, <2>1
  <2>6. Fewer(a.d, b.d) /\ b.result \in {"OK", "PICTURES_SIZE_CHANGE"}
    BY <1>4, <2>1
  <2> QED
    BY <1>5, <2>3, <2>4, <2>5, <2>6, Zenon DEF HeaderDone, x
<1>6. CASE ~n.garbled
  <2>1. HeaderPart(s, t, 0) /\ t.result \in {"OK", "PICTURES_SIZE_CHANGE"}
    BY <1>2, <1>4, HeaderSetsIs DEF t
  <2>2. /\ SoundCall(t) /\ Fewer(s.d, t.d) /\ SameHeader(s, t)
        /\ \A k \in 0 .. 3 : Lagging(s, k) => Lagging(t, k)
    <3>1. /\ SoundCall(t) /\ Fewer(s.d, t.d) /\ SameHeader(s, t)
          /\ \A k \in 0 .. 3 :
                k + 0 <= 3 /\ Lagging(s, k) => Lagging(t, k + 0)
      BY <2>1 DEF HeaderPart
    <3>2. ASSUME NEW k \in 0 .. 3, Lagging(s, k) PROVE Lagging(t, k)
      <4>1. k + 0 <= 3 /\ k + 0 = k
        OBVIOUS
      <4>2. Lagging(t, k + 0)
        BY <3>1, <3>2, <4>1
      <4> QED
        BY <4>1, <4>2
    <3> QED
      BY <3>1, <3>2
  <2>3. Fewer(a.d, t.d) /\ SameHeader(a, t)
    BY <1>4, <2>2, FewerFewer DEF SameHeader
  <2>4. \A k \in 0 .. 3 : k + x <= 3 /\ Lagging(a, k) => Lagging(t, k + x)
    <3> SUFFICES ASSUME NEW k \in 0 .. 3, k + x <= 3, Lagging(a, k)
                 PROVE  Lagging(t, k + x)
      OBVIOUS
    <3>1. k + x \in 0 .. 3
      BY <1>3
    <3>2. Lagging(s, k + x)
      BY <1>4
    <3> QED
      BY <2>2, <3>1, <3>2
  <2>5. n.first /\ HEVC_IS_IDR(n.p.type) =>
           t.d.held \subseteq WaitingBuffers(a.d)
    <3>1. t.d.held \subseteq s.d.held
      BY <1>4, <2>2, FewerKeeps DEF SoundCall
    <3> QED
      BY <1>2, <3>1
  <2>6. CASE t.result # "OK" /\ b = t
    BY <1>6, <2>1, <2>2, <2>3, <2>4, <2>5, <2>6, Zenon DEF HeaderDone, x
  <2>7. CASE t.result = "OK" /\ b = r
    <3>1. /\ SoundCall(r) /\ r.d = t.d /\ r.c.pSps = t.c.pSps
          /\ r.result = t.result
          /\ Stale(r.c) => HEVC_IS_IDR(n.p.type)
      BY <2>2, HeaderRestIs DEF r
    <3>2. \A k \in 0 .. 3 : k + x <= 3 /\ Lagging(a, k) => Lagging(r, k + x)
      BY <2>4, <3>1 DEF Lagging
    <3>3. /\ Fewer(a.d, r.d)
          /\ n.first /\ HEVC_IS_IDR(n.p.type) =>
                r.d.held \subseteq WaitingBuffers(a.d)
          /\ r.result \in {"OK", "PICTURES_SIZE_CHANGE"}
      BY <2>1, <2>3, <2>5, <3>1
    <3>4. ~ (n.garbled \/ r.result # "OK")
      BY <1>6, <2>7, <3>1
    <3> QED
      BY <2>7, <3>1, <3>2, <3>3, <3>4, Zenon DEF HeaderDone, x
  <2> QED
    BY <1>1, <1>6, <2>6, <2>7
<1> QED
  BY <1>1, <1>5, <1>6

\* The point of random access is noted.
LEMMA RandomAccessIs ==
    ASSUME NEW a, SoundCall(a), NEW b, b = RandomAccess(a)
    PROVE  /\ SoundCall(b) /\ SameHeader(a, b) /\ b.d = a.d
           /\ b.result = a.result
           /\ \A k \in 0 .. 3 : Lagging(a, k) => Lagging(b, k)
<1> DEFINE ra == CASE a.c.nMaxRa # HEVC_INT_MAX -> a.c.nMaxRa
                   [] a.c.nMaxRa = HEVC_INT_MAX
                      /\ HEVC_IS_IDR(a.c.eNaluType) ->
                         HEVC_INT_MINI
                   [] a.c.nMaxRa = HEVC_INT_MAX
                      /\ HEVC_IS_KEYFRAME(a.c.eNaluType)
                      /\ ~HEVC_IS_IDR(a.c.eNaluType) -> a.c.nPoc
                   [] OTHER -> a.c.nMaxRa
           v == IF a.c.eNaluType = "RASL_R" /\ a.c.nPoc > ra
                THEN HEVC_INT_MINI ELSE ra
           c == [a.c EXCEPT !.nMaxRa = v]
<1>1. b = [a EXCEPT !.c.nMaxRa = v]
  BY DEF RandomAccess
<1>2. v \in Int
  <2>1. ra \in Int
    <3>1. a.c.nMaxRa \in Int /\ a.c.nPoc \in Int
      BY DEF SoundCall, SoundContext
    <3> QED
      BY <3>1, IntMax
  <2> HIDE DEF ra
  <2> QED
    BY <2>1, IntMax
<1> HIDE DEF v
<1>3. /\ DOMAIN b = CallFields /\ b.c = c /\ b.d = a.d
      /\ b.result = a.result
  BY <1>1 DEF SoundCall, CallFields
<1>4. /\ SameContext(a.c, c, {"eNaluType", "eFirstNaluType", "nMaxRa",
                              "nSqueueFramePocList"})
      /\ c.nMaxRa = v
  BY DEF SoundCall, SoundContext, SameContext, ContextFields
<1> HIDE DEF c
<1>5. /\ SoundContext(c) /\ c.SliceHeader = a.c.SliceHeader
      /\ c.pSps = a.c.pSps /\ c.eDecodStep = "DECODE_FRAME"
  BY <1>2, <1>4, ContextKept DEF SoundCall
<1>6. SoundCall(b) /\ SameHeader(a, b)
  BY <1>3, <1>5 DEF SoundCall, SameHeader
<1>7. \A k \in 0 .. 3 : Lagging(a, k) => Lagging(b, k)
  BY <1>3, <1>5 DEF Lagging
<1> QED
  BY <1>3, <1>6, <1>7

----------------------------------------------------------------------------
(* The slice. *)

\* An error is noted with the picture, or that it is dropped.
LEMMA ErrorNoted ==
    ASSUME NEW d, Sound(d), NEW i \in Slots, NEW v, NEW x,
           x \in {"bErrorFrameFlag", "bDropFlag"},
           NEW e, e = PutSlot(d, i, x, v)
    PROVE  Fewer(d, e) /\ \A n \in 0 .. 4 : Lags(d, n) => Lags(e, n)
<1>1. Shaped(d)
  BY DEF Sound, SoundShape, SoundFrame, Shaped
<1>2. x \in FrameFields
  BY DEF FrameFields
<1>3. Shaped(e) /\ Same(d, e, {"DPB"}) /\ SlotsDiffer(d, e, i, x)
  BY <1>1, <1>2, PutSlotIs
<1>4. /\ \A j \in Slots \ {i} : e.DPB[j] = d.DPB[j]
      /\ \A y \in FrameFields \ {x} : e.DPB[i][y] = d.DPB[i][y]
      /\ DOMAIN e.DPB[i] = FrameFields /\ DOMAIN e.DPB = Slots
  BY <1>3 DEF SlotsDiffer
<1>5. {"pFbmBuffer", "nPoc", "nSequence", "output", "ref"}
          \subseteq FrameFields \ {x}
  BY DEF FrameFields
<1>6. /\ e.DPB[i].pFbmBuffer = d.DPB[i].pFbmBuffer
      /\ e.DPB[i].nPoc = d.DPB[i].nPoc
      /\ e.DPB[i].nSequence = d.DPB[i].nSequence
      /\ e.DPB[i].output = d.DPB[i].output
      /\ e.DPB[i].ref = d.DPB[i].ref
  BY <1>4, <1>5, Zenon
<1>7. SoundFrame(e.DPB[i])
  <2>1. SoundFrame(d.DPB[i])
    BY DEF Sound
  <2> QED
    BY <1>4, <1>6, <2>1, Zenon DEF SoundFrame
<1>8. \A j \in Slots : /\ SoundFrame(e.DPB[j])
                       /\ e.DPB[j].pFbmBuffer = d.DPB[j].pFbmBuffer
                       /\ e.DPB[j].nSequence = d.DPB[j].nSequence
                       /\ e.DPB[j].output => d.DPB[j].output
  BY <1>4, <1>6, <1>7 DEF Sound
<1>9. {"held", "display", "nSeqDecode", "nSeqOutput"}
          \subseteq DpbFields \ {"DPB"}
  BY DEF DpbFields
<1>10. /\ e.held = d.held /\ e.display = d.display
       /\ e.nSeqDecode = d.nSeqDecode /\ e.nSeqOutput = d.nSeqOutput
  BY <1>3, <1>9 DEF Same
<1>11. SoundShape(e)
  <2>1. Same(d, e, {"DPB", "held"})
    BY <1>3 DEF Same
  <2> QED
    BY <1>4, <2>1, SoundShapeKept DEF Sound
<1>12. OneOwner(e) /\ e.held = BuffersOf(e, UsedSlots(e))
  BY <1>8, <1>10, OwnersKept DEF Sound
<1>13. Sound(e)
  BY <1>8, <1>11, <1>12 DEF Sound
<1>14. Fewer(d, e)
  BY <1>8, <1>10, <1>13 DEF Fewer
<1>15. \A n \in 0 .. 4 : Lags(d, n) => Lags(e, n)
  BY <1>8, <1>10, LagsKept
<1> QED
  BY <1>14, <1>15

\* What a slice leaves that starts no picture.
SliceDone(a, b) ==
    /\ SoundCall(b) /\ SameHeader(a, b) /\ Fewer(a.d, b.d)
    /\ \A k \in 0 .. 3 : Lagging(a, k) => Lagging(b, k)
    /\ b.result # "NO_FRAME_BUFFER"

\* HevcDecodeSlice with what comes after the header.
LEMMA DecodeSliceIs ==
    ASSUME NEW a, SoundCall(a), a.result = "OK", a.d.pCurrDPB # 0, NEW n,
           NEW b, b = DecodeSlice(a, n)
    PROVE  SliceDone(a, b)
<1> DEFINE i == a.d.pCurrDPB
           inter == a.c.SliceHeader.type # "I" /\ ~n.garbled
           fails == inter /\ SliceRpsFails(a.d, n.p.lists)
           s == HevcVeStatusInfo(a.c, n)
           bad == inter /\ ~fails /\ RefersToError(a.d, n.p)
           lists == IF inter /\ ~fails THEN Listed(a.c, a.d, n.p)
                    ELSE a.listed
           c == [s EXCEPT !.bErrorFrameFlag = s.bErrorFrameFlag \/ fails]
           v == a.d.DPB[i].bErrorFrameFlag \/ bad
           e == PutSlot(a.d, i, "bErrorFrameFlag", v)
           yes == TRUE
           err == [a.c EXCEPT !.bErrorFrameFlag = a.c.bErrorFrameFlag \/ fails]
           gone == PutSlot(a.d, i, "bDropFlag", yes)
           drop == [a EXCEPT !.result = "DROP_THE_FRAME", !.c = err,
                             !.d = gone]
           go == [a EXCEPT !.c = c, !.d = e, !.listed = lists]
<1>1. /\ DOMAIN a = CallFields /\ DOMAIN a.c = ContextFields /\ Sound(a.d)
      /\ DOMAIN a.d = DpbFields /\ DOMAIN a.d.DPB = Slots /\ i \in Slots
      /\ DOMAIN a.d.DPB[i] = FrameFields
  BY DEF SoundCall, SoundContext, Sound, SoundShape, SoundFrame
<1>2. b = drop \/ b = go
  <2> DEFINE f == [a EXCEPT !.c = c,
                            !.d.DPB[i].bErrorFrameFlag = @ \/ bad,
                            !.listed = IF inter /\ ~fails
                                       THEN Listed(a.c, a.d, n.p) ELSE @]
             g == [a EXCEPT !.result = "DROP_THE_FRAME",
                            !.c.bErrorFrameFlag = @ \/ fails,
                            !.d.DPB[i].bDropFlag = TRUE]
  <2>1. b = g \/ b = f
    BY DEF DecodeSlice
  <2>2. f = go
    <3>1. f = [a EXCEPT !.c = c, !.d.DPB[i].bErrorFrameFlag = @ \/ bad,
                        !.listed = lists]
      <4> HIDE DEF c, bad, inter, fails
      <4> QED
        BY <1>1 DEF CallFields
    <3> HIDE DEF f, c, bad, lists
    <3> QED
      BY <1>1, <3>1 DEF CallFields, PutSlot, DpbFields
  <2>3. g = drop
    <3>1. g = [a EXCEPT !.result = "DROP_THE_FRAME",
                        !.c.bErrorFrameFlag = @ \/ fails,
                        !.d.DPB[i].bDropFlag = yes]
      BY Zenon
    <3> HIDE DEF g, fails, yes
    <3> QED
      BY <1>1, <3>1 DEF CallFields, ContextFields, PutSlot, DpbFields
  <2> QED
    BY <2>1, <2>2, <2>3
<1>3. \A k \in {c, err} :
         /\ SoundContext(k) /\ k.pSps = a.c.pSps
         /\ k.SliceHeader = a.c.SliceHeader /\ k.eDecodStep = "DECODE_FRAME"
  <2> DEFINE short == ~n.last \/ n.error
             flag == a.c.bErrorFrameFlag \/ fails
  <2>1. /\ c = [a.c EXCEPT !.ctuShort = short, !.bErrorFrameFlag = flag]
        /\ err = [a.c EXCEPT !.bErrorFrameFlag = flag]
    <3> HIDE DEF fails
    <3> QED
      BY <1>1 DEF HevcVeStatusInfo, ContextFields
  <2>2. short \in BOOLEAN /\ flag \in BOOLEAN
    OBVIOUS
  <2> HIDE DEF short, flag, c, err
  <2>3. SoundContext(c) /\ SoundContext(err)
    BY <2>1, <2>2 DEF SoundCall, SoundContext, ContextFields
  <2>4. /\ c.pSps = a.c.pSps /\ c.SliceHeader = a.c.SliceHeader
        /\ c.eDecodStep = "DECODE_FRAME"
        /\ err.pSps = a.c.pSps /\ err.SliceHeader = a.c.SliceHeader
        /\ err.eDecodStep = "DECODE_FRAME"
    BY <2>1 DEF SoundCall, SoundContext, ContextFields
  <2> QED
    BY <2>3, <2>4
<1>4. \A m \in {e, gone} :
         Fewer(a.d, m) /\ \A j \in 0 .. 4 : Lags(a.d, j) => Lags(m, j)
  <2>1. PICK x \in {"bErrorFrameFlag", "bDropFlag"} : x = "bErrorFrameFlag"
    OBVIOUS
  <2>2. PICK y \in {"bErrorFrameFlag", "bDropFlag"} : y = "bDropFlag"
    OBVIOUS
  <2>3. PICK u : u = v
    OBVIOUS
  <2>4. PICK w : w = yes
    OBVIOUS
  <2>5. e = PutSlot(a.d, i, x, u) /\ gone = PutSlot(a.d, i, y, w)
    BY <2>1, <2>2, <2>3, <2>4, Zenon
  <2> HIDE DEF e, gone, i
  <2>6. Fewer(a.d, e) /\ \A j \in 0 .. 4 : Lags(a.d, j) => Lags(e, j)
    BY <1>1, <2>1, <2>5, ErrorNoted
  <2>7. Fewer(a.d, gone) /\ \A j \in 0 .. 4 : Lags(a.d, j) => Lags(gone, j)
    BY <1>1, <2>2, <2>5, ErrorNoted
  <2> QED
    BY <2>6, <2>7
<1> HIDE DEF c, e, lists, err, gone
<1>5. PICK k \in {c, err}, m \in {e, gone} :
         /\ DOMAIN b = CallFields /\ b.c = k /\ b.d = m
         /\ b.result # "NO_FRAME_BUFFER"
  <2>1. CASE b = drop
    BY <1>1, <2>1 DEF CallFields
  <2>2. CASE b = go
    BY <1>1, <2>2 DEF CallFields
  <2> QED
    BY <1>2, <2>1, <2>2
<1>6. /\ SoundContext(k) /\ k.pSps = a.c.pSps
      /\ k.SliceHeader = a.c.SliceHeader /\ k.eDecodStep = "DECODE_FRAME"
      /\ Fewer(a.d, m) /\ \A j \in 0 .. 4 : Lags(a.d, j) => Lags(m, j)
  BY <1>3, <1>4
<1>7. SoundCall(b) /\ SameHeader(a, b) /\ Fewer(a.d, b.d)
  BY <1>5, <1>6 DEF SoundCall, SameHeader, Fewer
<1>8. ASSUME NEW j \in 0 .. 3, Lagging(a, j) PROVE Lagging(b, j)
  <2> DEFINE y == j + (IF a.c.pSps = 0 THEN 0 ELSE 1)
  <2>1. y \in 0 .. 4 /\ y = j + (IF b.c.pSps = 0 THEN 0 ELSE 1)
    BY <1>5, <1>6
  <2>2. Lags(a.d, y)
    BY <1>8 DEF Lagging
  <2> HIDE DEF y
  <2> QED
    BY <1>5, <1>6, <2>1, <2>2 DEF Lagging
<1> QED
  BY <1>5, <1>7, <1>8, Zenon DEF SliceDone

\* A slice may do nothing...
LEMMA SliceDoneSelf ==
    ASSUME NEW a, SoundCall(a), a.result # "NO_FRAME_BUFFER"
    PROVE  SliceDone(a, a)
BY FewerSelf DEF SliceDone, SameHeader, SoundCall

\* ... or drop the picture.
LEMMA SliceDoneDropped ==
    ASSUME NEW a, SoundCall(a), NEW b, b = Dropped(a)
    PROVE  SliceDone(a, b)
<1>1. /\ SoundCall(b) /\ SameHeader(a, b) /\ Fewer(a.d, b.d)
      /\ b.result = "DROP_THE_FRAME"
      /\ \A k \in 0 .. 3 : Lagging(a, k) => Lagging(b, k)
  BY DroppedIs
<1>2. b.result # "NO_FRAME_BUFFER"
  BY <1>1
<1> QED
  BY <1>1, <1>2, Zenon DEF SliceDone

\* A slice that starts no picture is decoded, or passed over.
LEMMA InPictureIs ==
    ASSUME NEW a, SoundCall(a), a.result # "NO_FRAME_BUFFER", NEW n,
           NEW b, b = InPicture(a, n)
    PROVE  SliceDone(a, b)
<1>1. \/ b = a
      \/ a.result = "OK" /\ a.d.pCurrDPB # 0 /\ b = DecodeSlice(a, n)
  BY DEF InPicture
<1> QED
  BY <1>1, SliceDoneSelf, DecodeSliceIs

\* What a slice leaves whose header has been read.
SliceOf(a, n, b) ==
    /\ SoundCall(b) /\ SameHeader(a, b)
    /\ \A k \in 0 .. 3 : Lagging(a, k) => Lagging(b, k)
    /\ ~n.first => Fewer(a.d, b.d) /\ b.result # "NO_FRAME_BUFFER"
    /\ b.result = "NO_FRAME_BUFFER" => b.d.held \subseteq a.d.held
    /\ \E y : b.d.held \subseteq a.d.held \cup {y}
    /\ a.d.display = <<>> /\ FewWait(a.d) /\ (Stale(a.c) => Few(a.d)) =>
          b.result # "NO_FRAME_BUFFER"

\* What is done with a slice is done with a slice of n...
LEMMA SliceDoneOf ==
    ASSUME NEW a, SoundCall(a), NEW n, NEW b, SliceDone(a, b)
    PROVE  SliceOf(a, n, b)
<1>1. /\ SoundCall(b) /\ SameHeader(a, b) /\ Fewer(a.d, b.d)
      /\ \A k \in 0 .. 3 : Lagging(a, k) => Lagging(b, k)
      /\ b.result # "NO_FRAME_BUFFER"
  BY DEF SliceDone
<1>2. b.d.held \subseteq a.d.held \cup {0}
  BY <1>1, FewerKeeps DEF SoundCall
<1> QED
  BY <1>1, <1>2, Zenon DEF SliceOf

\* ... and so is what is done once its header is read.
LEMMA SliceReadIs ==
    ASSUME NEW a, SoundCall(a), a.result = "OK", NEW n, n.first \in BOOLEAN,
           n.p.output \in BOOLEAN, NEW b, b = SliceRead(a, n)
    PROVE  SliceOf(a, n, b)
<1> DEFINE f == HevcFrameStart(a, n.p)
           g == InPicture(f, n)
           j == InPicture(a, n)
<1>1. \/ b = Dropped(a)
      \/ n.first /\ b = g
      \/ ~n.first /\ b = j
  BY DEF SliceRead
<1>2. CASE b = Dropped(a)
  BY <1>2, SliceDoneDropped, SliceDoneOf
<1>3. CASE ~n.first /\ b = j
  <2>1. SliceDone(a, j)
    BY InPictureIs
  <2> HIDE DEF j
  <2> QED
    BY <1>3, <2>1, SliceDoneOf
<1>4. CASE n.first /\ b = g
  <2>1. FrameStarted(a, f)
    <3> DEFINE p == n.p
    <3>1. p.output \in BOOLEAN /\ f = HevcFrameStart(a, p)
      BY Zenon
    <3> HIDE DEF p, f
    <3> QED
      BY <3>1, FrameStartIs
  <2>2. /\ SoundCall(f) /\ SameHeader(a, f)
        /\ \A k \in 0 .. 3 : Lagging(a, k) => Lagging(f, k)
        /\ f.result = "NO_FRAME_BUFFER" => f.d.held \subseteq a.d.held
        /\ \E y : f.d.held \subseteq a.d.held \cup {y}
        /\ a.d.display = <<>> /\ FewWait(a.d) /\ (Stale(a.c) => Few(a.d)) =>
              f.result # "NO_FRAME_BUFFER"
    BY <2>1 DEF FrameStarted
  <2> HIDE DEF f, g
  <2>3. CASE f.result = "NO_FRAME_BUFFER"
    <3>1. b = f
      BY <1>4, <2>3 DEF g, InPicture
    <3> QED
      BY <1>4, <2>2, <3>1, Zenon DEF SliceOf
  <2>4. CASE f.result # "NO_FRAME_BUFFER"
    <3>1. SliceDone(f, g)
      BY <2>2, <2>4, InPictureIs DEF g
    <3>2. /\ SoundCall(g) /\ SameHeader(f, g) /\ Fewer(f.d, g.d)
          /\ \A k \in 0 .. 3 : Lagging(f, k) => Lagging(g, k)
          /\ g.result # "NO_FRAME_BUFFER"
      BY <3>1 DEF SliceDone
    <3>3. g.d.held \subseteq f.d.held
      BY <2>2, <3>2, FewerKeeps DEF SoundCall
    <3>4. PICK y : f.d.held \subseteq a.d.held \cup {y}
      BY <2>2
    <3>5. g.d.held \subseteq a.d.held \cup {y}
      BY <3>3, <3>4
    <3>6. SameHeader(a, g)
      BY <2>2, <3>2 DEF SameHeader
    <3>7. \A k \in 0 .. 3 : Lagging(a, k) => Lagging(g, k)
      BY <2>2, <3>2
    <3> QED
      BY <1>4, <3>2, <3>5, <3>6, <3>7, Zenon DEF SliceOf
  <2> QED
    BY <2>3, <2>4
<1> QED
  BY <1>1, <1>2, <1>3, <1>4

\* What was left of the pictures that waited, and one.
LEMMA FewOfWaiting ==
    ASSUME NEW d, Sound(d), FewWait(d), NEW e, Sound(e), NEW y,
           e.held \subseteq WaitingBuffers(d) \cup {y}
    PROVE  Few(e)
<1> DEFINE W == WaitingBuffers(d)
           x == Cardinality(W)
<1>1. IsFiniteSet(W) /\ x \in Nat /\ x <= nMaxNumReoderPics
  BY HeldFinite DEF FewWait
<1> HIDE DEF W
<1>2. /\ IsFiniteSet(W \cup {y})
      /\ Cardinality(W \cup {y}) = IF y \in W THEN x ELSE x + 1
  BY <1>1, FS_AddElement
<1>3. /\ Cardinality(e.held) <= Cardinality(W \cup {y})
  BY <1>2, FS_Subset DEF W
<1>4. Cardinality(e.held) \in Nat
  BY HeldFinite
<1> HIDE DEF x
<1> QED
  BY <1>1, <1>2, <1>3, <1>4, DpbAssumption DEF Few

\* Few buffers are held under a stale header...
StaleFew(a) == Stale(a.c) => Few(a.d)

\* ... before a slice that keeps that so.
FewBefore(a, n, b) ==
    /\ StaleFew(a)
    /\ n.garbled => b.result = "NO_FRAME_BUFFER"
    /\ n.first => FewWait(a.d)
    /\ ~n.first /\ HEVC_IS_IDR(n.p.type) => Few(a.d)

\* What a slice makes of the call, from OK.
SliceNalu(a, n, b) ==
    /\ SoundCall(b)
    /\ \A k \in 0 .. 3 :
          k + (IF n.first THEN 1 ELSE 0) <= 3 /\ Lagging(a, k) =>
             Lagging(b, k + (IF n.first THEN 1 ELSE 0))
    /\ ~n.first => Fewer(a.d, b.d) /\ b.result # "NO_FRAME_BUFFER"
    /\ a.d.display = <<>> /\ FewWait(a.d)
       /\ (n.garbled /\ Stale(a.c) => Few(a.d)) =>
          b.result # "NO_FRAME_BUFFER"
    /\ FewBefore(a, n, b) => StaleFew(b)
    /\ n.first /\ ~n.garbled /\ HEVC_IS_IDR(n.p.type) /\ FewWait(a.d)
       /\ b.result = "OK" => Few(b.d)

\* Whether a header says nothing of references is kept with it.
LEMMA StaleSame ==
    ASSUME NEW a, NEW b, SameHeader(a, b)
    PROVE  Stale(b.c) <=> Stale(a.c)
BY DEF SameHeader, Stale

\* A slice that changes neither the header nor adds pictures.
LEMMA UnreadIs ==
    ASSUME NEW a, SoundCall(a), NEW n, NEW b, SoundCall(b),
           \A k \in 0 .. 3 :
              k + (IF n.first THEN 1 ELSE 0) <= 3 /\ Lagging(a, k) =>
                 Lagging(b, k + (IF n.first THEN 1 ELSE 0)),
           SameHeader(a, b), Fewer(a.d, b.d),
           b.result # "NO_FRAME_BUFFER", b.result # "OK"
    PROVE  SliceNalu(a, n, b)
<1>1. Few(a.d) => Few(b.d)
  BY FewerKeeps DEF SoundCall
<1>2. Stale(b.c) <=> Stale(a.c)
  BY StaleSame
<1> QED
  BY <1>1, <1>2, Zenon DEF SliceNalu, FewBefore, StaleFew

\* More sequences may have started.
LEMMA LaggingMore ==
    ASSUME NEW a, NEW k \in Nat, NEW m \in Nat, k <= m, Lagging(a, k)
    PROVE  Lagging(a, m)
<1> DEFINE y == IF a.c.pSps = 0 THEN 0 ELSE 1
<1>1. k + y \in Nat /\ m + y \in Nat /\ k + y <= m + y
  OBVIOUS
<1>2. Lags(a.d, k + y)
  BY DEF Lagging
<1> HIDE DEF y
<1>3. Lags(a.d, m + y)
  BY <1>1, <1>2, LagsMore
<1> QED
  BY <1>3 DEF Lagging, y

\* A slice, from a call that is still OK.
LEMMA DecodeSliceNaluIs ==
    ASSUME NEW a, SoundCall(a), a.result = "OK", NEW n, SoundNalu(n),
           n.first \in BOOLEAN, n.garbled \in BOOLEAN,
           NEW b, b = DecodeSliceNalu(a, n)
    PROVE  SliceNalu(a, n, b)
<1> DEFINE x == IF n.first THEN 1 ELSE 0
           list == IF HEVC_IS_IDR(n.p.type) THEN {}
                   ELSE a.c.nSqueueFramePocList
           s == [a EXCEPT !.c.nSqueueFramePocList = list]
           w == HevcDecodeSliceHeader(a, n)
           r == RandomAccess(w)
           t == SliceRead(r, n)
<1>1. \/ b = Dropped(s)
      \/ a.c.SpsList # 0 /\ b = HeaderRead(w, n)
  <2>1. b = IF a.c.SpsList = 0 \/ a.c.PpsList = 0
            THEN Dropped([a EXCEPT !.c.nSqueueFramePocList =
                             IF HEVC_IS_IDR(n.p.type) THEN {} ELSE @])
            ELSE HeaderRead(w, n)
    BY DEF DecodeSliceNalu
  <2>2. s = [a EXCEPT !.c.nSqueueFramePocList =
                IF HEVC_IS_IDR(n.p.type) THEN {} ELSE @]
    BY DEF SoundCall, CallFields, SoundContext, ContextFields
  <2> HIDE DEF s, w
  <2> QED
    BY <2>1, <2>2
<1>2. x \in 0 .. 1 /\ x = IF n.first THEN 1 ELSE 0
  OBVIOUS
<1> HIDE DEF list, w, r, t
<1>3. CASE b = Dropped(s)
  <2> DEFINE c == [a.c EXCEPT !.nSqueueFramePocList = list]
  <2>1. /\ DOMAIN s = CallFields /\ s.d = a.d /\ s.c = c
    BY DEF SoundCall, CallFields
  <2>2. /\ SameContext(a.c, c, {"eNaluType", "eFirstNaluType", "nMaxRa",
                                "nSqueueFramePocList"})
        /\ c.nMaxRa = a.c.nMaxRa /\ a.c.nMaxRa \in Int
    BY DEF SoundCall, SoundContext, SameContext, ContextFields
  <2> HIDE DEF c, s
  <2>3. /\ SoundContext(c) /\ c.SliceHeader = a.c.SliceHeader
        /\ c.pSps = a.c.pSps /\ c.eDecodStep = "DECODE_FRAME"
    BY <2>2, ContextKept DEF SoundCall
  <2>4. SoundCall(s)
    BY <2>1, <2>3 DEF SoundCall
  <2>5. /\ SoundCall(b) /\ SameHeader(s, b) /\ Fewer(s.d, b.d)
        /\ b.result = "DROP_THE_FRAME"
        /\ \A k \in 0 .. 3 : Lagging(s, k) => Lagging(b, k)
    BY <1>3, <2>4, DroppedIs
  <2>6. SameHeader(a, b) /\ Fewer(a.d, b.d)
    BY <2>1, <2>3, <2>5 DEF SameHeader
  <2>7. ASSUME NEW k \in 0 .. 3, k + x <= 3, Lagging(a, k)
        PROVE  Lagging(b, k + x)
    <3>1. Lagging(s, k)
      BY <2>1, <2>3, <2>7 DEF Lagging
    <3>2. Lagging(b, k)
      BY <2>5, <3>1
    <3>3. k \in Nat /\ k + x \in Nat /\ k <= k + x
      BY <1>2
    <3> QED
      BY <3>2, <3>3, LaggingMore
  <2>8. \A k \in 0 .. 3 : k + (IF n.first THEN 1 ELSE 0) <= 3 /\ Lagging(a, k)
           => Lagging(b, k + (IF n.first THEN 1 ELSE 0))
    BY <2>7
  <2>9. b.result # "NO_FRAME_BUFFER" /\ b.result # "OK"
    BY <2>5
  <2> QED
    BY <2>5, <2>6, <2>8, <2>9, UnreadIs
<1>4. CASE a.c.SpsList # 0 /\ b = HeaderRead(w, n)
  <2>1. HeaderDone(a, n, w)
    BY <1>4, SliceHeaderIs DEF w
  <2>2. /\ SoundCall(w) /\ Fewer(a.d, w.d)
        /\ \A k \in 0 .. 3 : k + x <= 3 /\ Lagging(a, k) => Lagging(w, k + x)
        /\ w.result \in {"OK", "PICTURES_SIZE_CHANGE"}
        /\ n.first /\ HEVC_IS_IDR(n.p.type) =>
              w.d.held \subseteq WaitingBuffers(a.d)
        /\ n.garbled \/ w.result # "OK" => SameHeader(a, w)
        /\ ~n.garbled /\ w.result = "OK" /\ Stale(w.c) =>
              HEVC_IS_IDR(n.p.type)
    BY <2>1, Zenon DEF HeaderDone
  <2>3. \/ w.result = "OK" /\ b = t
        \/ w.result # "OK" /\ b = w
    BY <1>4 DEF HeaderRead, t, r
  <2>4. CASE w.result # "OK" /\ b = w
    <3>1. \A k \in 0 .. 3 :
             k + (IF n.first THEN 1 ELSE 0) <= 3 /\ Lagging(a, k)
             => Lagging(b, k + (IF n.first THEN 1 ELSE 0))
      BY <2>2, <2>4
    <3>2. SameHeader(a, b)
      BY <2>2, <2>4, Zenon
    <3>3. b.result # "NO_FRAME_BUFFER" /\ b.result # "OK"
      BY <2>2, <2>4
    <3>4. SoundCall(b) /\ Fewer(a.d, b.d)
      BY <2>2, <2>4
    <3> QED
      BY <3>1, <3>2, <3>3, <3>4, UnreadIs
  <2>5. CASE w.result = "OK" /\ b = t
    <3>1. /\ SoundCall(r) /\ SameHeader(w, r) /\ r.d = w.d /\ r.result = "OK"
          /\ \A k \in 0 .. 3 : Lagging(w, k) => Lagging(r, k)
      BY <2>2, <2>5, RandomAccessIs DEF r
    <3>2. SliceOf(r, n, t)
      <4>1. n.p.output \in BOOLEAN
        BY Zenon DEF SoundNalu
      <4> QED
        BY <3>1, <4>1, SliceReadIs DEF t
    <3>3. /\ SoundCall(t) /\ SameHeader(r, t)
          /\ \A k \in 0 .. 3 : Lagging(r, k) => Lagging(t, k)
          /\ ~n.first => Fewer(w.d, t.d) /\ t.result # "NO_FRAME_BUFFER"
          /\ t.result = "NO_FRAME_BUFFER" => t.d.held \subseteq w.d.held
          /\ \E y : t.d.held \subseteq w.d.held \cup {y}
          /\ w.d.display = <<>> /\ FewWait(w.d)
             /\ (Stale(r.c) => Few(w.d)) => t.result # "NO_FRAME_BUFFER"
      <4>1. r.d = w.d
        BY <3>1
      <4> QED
        BY <3>2, <4>1, Zenon DEF SliceOf
    <3>4. Stale(t.c) <=> Stale(w.c)
      BY <3>1, <3>3, StaleSame
    <3>5. Stale(r.c) <=> Stale(w.c)
      BY <3>1, StaleSame
    <3>6. n.garbled => (Stale(w.c) <=> Stale(a.c))
      BY <2>2, StaleSame
    <3>7. /\ Few(a.d) => Few(w.d)
          /\ FewWait(a.d) => FewWait(w.d)
          /\ w.d.held \subseteq a.d.held
          /\ Sound(w.d) /\ Sound(a.d) /\ Sound(t.d)
      <4>1. Sound(w.d) /\ Sound(a.d) /\ Sound(t.d)
        BY <2>2, <3>3 DEF SoundCall
      <4> QED
        BY <2>2, <4>1, FewerKeeps
    <3>8. \A k \in 0 .. 3 : k + x <= 3 /\ Lagging(a, k) => Lagging(t, k + x)
      <4> SUFFICES ASSUME NEW k \in 0 .. 3, k + x <= 3, Lagging(a, k)
                   PROVE  Lagging(t, k + x)
        OBVIOUS
      <4>1. k + x \in 0 .. 3 /\ Lagging(w, k + x)
        BY <1>2, <2>2
      <4> QED
        BY <3>1, <3>3, <4>1
    <3>9. ~n.first => Fewer(a.d, t.d) /\ t.result # "NO_FRAME_BUFFER"
      BY <2>2, <3>3, FewerFewer
    <3>10. ASSUME n.first, HEVC_IS_IDR(n.p.type), FewWait(a.d)
           PROVE  Few(t.d) /\ Few(w.d)
      <4>1. w.d.held \subseteq WaitingBuffers(a.d)
        BY <2>2, <3>10
      <4>2. PICK y : t.d.held \subseteq w.d.held \cup {y}
        BY <3>3
      <4>3. /\ t.d.held \subseteq WaitingBuffers(a.d) \cup {y}
            /\ w.d.held \subseteq WaitingBuffers(a.d) \cup {y}
        BY <4>1, <4>2
      <4> QED
        BY <3>7, <3>10, <4>3, FewOfWaiting
    <3>11. ASSUME a.d.display = <<>>, FewWait(a.d),
                  n.garbled /\ Stale(a.c) => Few(a.d)
           PROVE  t.result # "NO_FRAME_BUFFER"
      <4>1. CASE ~n.first
        BY <3>9, <4>1
      <4>2. CASE n.first
        <5>1. w.d.display = <<>> /\ FewWait(w.d)
          BY <2>2, <3>7, <3>11 DEF Fewer
        <5>2. Stale(w.c) => Few(w.d)
          <6>1. CASE n.garbled
            BY <3>6, <3>7, <3>11, <6>1
          <6>2. CASE ~n.garbled
            BY <2>2, <2>5, <3>10, <3>11, <4>2, <6>2
          <6> QED
            BY <6>1, <6>2
        <5> QED
          BY <3>3, <3>5, <5>1, <5>2
      <4> QED
        BY <4>1, <4>2
    <3>12. ASSUME FewBefore(a, n, t), Stale(t.c) PROVE Few(t.d)
      <4>0. /\ Stale(a.c) => Few(a.d)
            /\ n.garbled => t.result = "NO_FRAME_BUFFER"
            /\ n.first => FewWait(a.d)
            /\ ~n.first /\ HEVC_IS_IDR(n.p.type) => Few(a.d)
        BY <3>12, Zenon DEF FewBefore, StaleFew
      <4>1. Stale(w.c)
        BY <3>4, <3>12
      <4>2. CASE n.garbled
        <5>1. Few(a.d) /\ t.d.held \subseteq w.d.held
          BY <3>3, <3>6, <4>0, <4>1, <4>2
        <5>2. t.d.held \subseteq a.d.held
          BY <3>7, <5>1
        <5>3. Cardinality(t.d.held) <= Cardinality(a.d.held)
          BY <3>7, <5>2, HeldFinite, FS_Subset
        <5>4. Cardinality(t.d.held) \in Nat /\ Cardinality(a.d.held) \in Nat
          BY <3>7, HeldFinite
        <5> QED
          BY <5>1, <5>3, <5>4, DpbAssumption DEF Few
      <4>3. CASE ~n.garbled
        <5>1. HEVC_IS_IDR(n.p.type)
          BY <2>2, <2>5, <4>1, <4>3
        <5>2. CASE n.first
          BY <3>10, <4>0, <5>1, <5>2
        <5>3. CASE ~n.first
          <6>1. Few(a.d) /\ Fewer(a.d, t.d)
            BY <3>9, <4>0, <5>1, <5>3
          <6> QED
            BY <3>7, <6>1, FewerKeeps
        <5> QED
          BY <5>2, <5>3
      <4> QED
        BY <4>2, <4>3
    <3>13. SliceNalu(a, n, t)
      <4>1. \A k \in 0 .. 3 :
               k + (IF n.first THEN 1 ELSE 0) <= 3 /\ Lagging(a, k) =>
                  Lagging(t, k + (IF n.first THEN 1 ELSE 0))
        BY <3>8
      <4> QED
        BY <3>3, <3>9, <3>10, <3>11, <3>12, <4>1, Zenon
           DEF SliceNalu, StaleFew
    <3> QED
      BY <2>5, <3>13
  <2> QED
    BY <2>3, <2>4, <2>5
<1> QED
  BY <1>1, <1>3, <1>4

Sets == {"bFindKeyFrameOnly", "VpsList", "SpsList", "PpsList", "nMaxRa"}

\* A call of which parameter sets, and nothing of the header, change.
LEMMA SetsKept ==
    ASSUME NEW c, SoundContext(c), NEW e, SameContext(c, e, Sets),
           e.VpsList \in Nat, e.SpsList \in Nat, e.PpsList \in Nat,
           e.nMaxRa \in Int, e.bFindKeyFrameOnly \in BOOLEAN
    PROVE  SoundContext(e) /\ e.SliceHeader = c.SliceHeader /\ e.pSps = c.pSps
           /\ e.eDecodStep = c.eDecodStep
<1>1. ContextFields \ Sets
          = {"eDecodStep", "pPps", "pSps", "eNaluType", "eFirstNaluType",
             "nPoc", "nPocTid0", "SliceHeader", "nSqueueFramePocList",
             "bErrorFrameFlag", "ctuShort", "bDropFrameAdaptiveEnable",
             "nLastPts"}
  BY DEF ContextFields, Sets
<1>2. /\ e.eDecodStep = c.eDecodStep
      /\ e.pPps = c.pPps /\ e.pSps = c.pSps
      /\ e.nPoc = c.nPoc /\ e.nPocTid0 = c.nPocTid0
      /\ e.SliceHeader = c.SliceHeader
      /\ e.bErrorFrameFlag = c.bErrorFrameFlag /\ e.ctuShort = c.ctuShort
      /\ e.bDropFrameAdaptiveEnable = c.bDropFrameAdaptiveEnable
  BY <1>1, Zenon DEF SameContext
<1>3. DOMAIN e = ContextFields
  BY DEF SameContext
<1>4. /\ e.bFindKeyFrameOnly \in BOOLEAN /\ e.bErrorFrameFlag \in BOOLEAN
      /\ e.ctuShort \in BOOLEAN /\ e.bDropFrameAdaptiveEnable \in BOOLEAN
  BY <1>2, Zenon DEF SoundContext
<1> QED
  BY <1>2, <1>3, <1>4, Zenon DEF SoundContext

\* The call of which the context changes so, and the pictures do not.
LEMMA CallSets ==
    ASSUME NEW a, SoundCall(a), NEW b, DOMAIN b = CallFields,
           SameContext(a.c, b.c, Sets), b.d = a.d,
           b.c.VpsList \in Nat, b.c.SpsList \in Nat, b.c.PpsList \in Nat,
           b.c.nMaxRa \in Int, b.c.bFindKeyFrameOnly \in BOOLEAN
    PROVE  /\ SoundCall(b) /\ SameHeader(a, b)
           /\ \A k \in Nat : Lagging(a, k) <=> Lagging(b, k)
<1>1. /\ SoundContext(b.c) /\ b.c.SliceHeader = a.c.SliceHeader
      /\ b.c.pSps = a.c.pSps /\ b.c.eDecodStep = a.c.eDecodStep
  BY SetsKept DEF SoundCall
<1> QED
  BY <1>1 DEF SoundCall, SameHeader, Lagging

\* A NAL unit of the stream.
NalOK(n) ==
    /\ SoundNalu(n) /\ n.kind \in {"slice", "vps", "sps", "pps", "eos"}
    /\ n.kind = "slice" => n.first \in BOOLEAN /\ n.garbled \in BOOLEAN

\* What a NAL unit makes of the call that is not decoded, or no slice.
Passed(a, n, b) ==
    /\ SoundCall(b) /\ SameHeader(a, b) /\ Fewer(a.d, b.d)
    /\ b.result = a.result
    /\ \A k \in 0 .. 3 :
          k + (IF n.kind = "eos" THEN 1 ELSE 0) <= 3 /\ Lagging(a, k) =>
             Lagging(b, k + (IF n.kind = "eos" THEN 1 ELSE 0))
    /\ a.result = "OK" /\ n.kind = "slice" => ~HEVC_IS_IDR(n.p.type)

\* A parameter set.
LEMMA SetPassed ==
    ASSUME NEW a, SoundCall(a), NEW n, n.kind \in {"vps", "sps", "pps"},
           NEW b, DOMAIN b = CallFields, SameContext(a.c, b.c, Sets),
           b.d = a.d, b.result = a.result,
           b.c.VpsList \in Nat, b.c.SpsList \in Nat, b.c.PpsList \in Nat,
           b.c.nMaxRa \in Int, b.c.bFindKeyFrameOnly \in BOOLEAN
    PROVE  Passed(a, n, b)
<1>1. /\ SoundCall(b) /\ SameHeader(a, b)
      /\ \A k \in Nat : Lagging(a, k) <=> Lagging(b, k)
  BY CallSets
<1>2. Fewer(a.d, b.d)
  BY FewerSelf DEF SoundCall
<1>3. \A k \in 0 .. 3 :
        k + (IF n.kind = "eos" THEN 1 ELSE 0) <= 3 /\ Lagging(a, k) =>
           Lagging(b, k + (IF n.kind = "eos" THEN 1 ELSE 0))
  <2> SUFFICES ASSUME NEW k \in 0 .. 3,
                      k + (IF n.kind = "eos" THEN 1 ELSE 0) <= 3,
                      Lagging(a, k)
               PROVE  Lagging(b, k + (IF n.kind = "eos" THEN 1 ELSE 0))
    OBVIOUS
  <2>1. k + (IF n.kind = "eos" THEN 1 ELSE 0) = k /\ k \in Nat
    OBVIOUS
  <2>2. Lagging(b, k)
    BY <1>1, <2>1
  <2> QED
    BY <2>1, <2>2
<1>4. n.kind # "slice"
  OBVIOUS
<1> QED
  BY <1>1, <1>2, <1>3, <1>4 DEF Passed

\* A parameter set, from any call.
LEMMA ParameterSetIs ==
    ASSUME NEW a, SoundCall(a), NEW n, NalOK(n), NEW b,
           \/ n.kind = "vps" /\ b = HevcDecodeNalVps(a, n)
           \/ n.kind = "sps" /\ b = HevcDecodeNalSps(a, n)
           \/ n.kind = "pps" /\ b = HevcDecodeNalPps(a, n)
    PROVE  Passed(a, n, b)
<1> DEFINE v == [a.c EXCEPT !.VpsList = n.p.sps]
           s == [a.c EXCEPT !.SpsList = n.p.sps]
           p == [a.c EXCEPT !.PpsList = a.c.SpsList]
<1>1. /\ DOMAIN a = CallFields /\ DOMAIN a.c = ContextFields
      /\ a.c.VpsList \in Nat /\ a.c.SpsList \in Nat /\ a.c.PpsList \in Nat
      /\ a.c.nMaxRa \in Int /\ a.c.bFindKeyFrameOnly \in BOOLEAN
  BY Zenon DEF SoundCall, SoundContext
<1>2. n.p.sps \in Nat
  BY DEF NalOK, SoundNalu
<1>3. \A c \in {a.c, v, s, p} :
        /\ SameContext(a.c, c, Sets)
        /\ c.VpsList \in Nat /\ c.SpsList \in Nat /\ c.PpsList \in Nat
        /\ c.nMaxRa \in Int /\ c.bFindKeyFrameOnly = a.c.bFindKeyFrameOnly
  <2>1. \A c \in {v, s, p} : DOMAIN c = ContextFields
    BY <1>1
  <2>2. \A c \in {a.c, v, s, p}, y \in ContextFields \ Sets : c[y] = a.c[y]
    BY <1>1 DEF Sets
  <2> QED
    BY <1>1, <1>2, <2>1, <2>2 DEF SameContext, ContextFields
<1>4. /\ b = a \/ b = [a EXCEPT !.c = v] \/ b = [a EXCEPT !.c = s]
         \/ b = [a EXCEPT !.c = p]
      /\ n.kind \in {"vps", "sps", "pps"}
  BY <1>1 DEF HevcDecodeNalVps, HevcDecodeNalSps, HevcDecodeNalPps,
              CallFields
<1> HIDE DEF v, s, p
<1>5. /\ DOMAIN b = CallFields /\ b.c \in {a.c, v, s, p} /\ b.d = a.d
      /\ b.result = a.result
  BY <1>1, <1>4 DEF CallFields
<1>6. b.c.bFindKeyFrameOnly \in BOOLEAN
  BY <1>1, <1>3, <1>5, Zenon
<1> QED
  BY <1>3, <1>4, <1>5, <1>6, SetPassed

\* The end of a sequence.
LEMMA EndOfSequenceIs ==
    ASSUME NEW a, SoundCall(a), NEW n, n.kind = "eos",
           NEW b, b = EndOfSequence(a)
    PROVE  Passed(a, n, b)
<1> DEFINE c == [a.c EXCEPT !.nMaxRa = HEVC_INT_MAX]
           s == [a EXCEPT !.c = c]
           d == NextSequence(a.d)
<1>1. /\ DOMAIN a = CallFields /\ DOMAIN a.c = ContextFields
      /\ a.c.VpsList \in Nat /\ a.c.SpsList \in Nat /\ a.c.PpsList \in Nat
      /\ a.c.nMaxRa \in Int /\ a.c.bFindKeyFrameOnly \in BOOLEAN
      /\ Sound(a.d)
  BY Zenon DEF SoundCall, SoundContext
<1>2. /\ SameContext(a.c, c, Sets) /\ c.VpsList = a.c.VpsList
      /\ c.SpsList = a.c.SpsList /\ c.PpsList = a.c.PpsList
      /\ c.nMaxRa \in Int /\ c.bFindKeyFrameOnly = a.c.bFindKeyFrameOnly
  BY <1>1, IntMax DEF SameContext, Sets, ContextFields
<1>3. b = [a EXCEPT !.c = c, !.d = d]
  BY <1>1 DEF EndOfSequence, CallFields
<1> HIDE DEF c, d
<1>4. /\ DOMAIN s = CallFields /\ s.c = c /\ s.d = a.d
      /\ s.result = a.result
      /\ DOMAIN b = CallFields /\ b.c = c /\ b.d = d
      /\ b.result = a.result
  BY <1>1, <1>3 DEF CallFields
<1> HIDE DEF s
<1>5. c.bFindKeyFrameOnly \in BOOLEAN
  BY <1>1, <1>2, Zenon
<1>6. /\ SoundCall(s) /\ SameHeader(a, s)
      /\ \A k \in Nat : Lagging(a, k) <=> Lagging(s, k)
  BY <1>1, <1>2, <1>4, <1>5, CallSets
<1>7. /\ Fewer(a.d, d) /\ \A k \in 0 .. 3 : Lags(a.d, k) => Lags(d, k + 1)
  BY <1>1, NextSequenceIs DEF d
<1>8. SoundCall(b) /\ SameHeader(a, b)
  BY <1>4, <1>6, <1>7 DEF SoundCall, SameHeader, Fewer
<1>9. \A k \in 0 .. 3 :
        k + (IF n.kind = "eos" THEN 1 ELSE 0) <= 3 /\ Lagging(a, k) =>
           Lagging(b, k + (IF n.kind = "eos" THEN 1 ELSE 0))
  <2> SUFFICES ASSUME NEW k \in 0 .. 3,
                      k + (IF n.kind = "eos" THEN 1 ELSE 0) <= 3,
                      Lagging(a, k)
               PROVE  Lagging(b, k + 1)
    OBVIOUS
  <2> DEFINE x == k + (IF s.c.pSps = 0 THEN 0 ELSE 1)
  <2>1. k \in Nat /\ x \in 0 .. 3
        /\ x + 1 = (k + 1) + (IF b.c.pSps = 0 THEN 0 ELSE 1)
    BY <1>4
  <2>2. Lags(a.d, x)
    BY <1>4, <1>6, <2>1 DEF Lagging
  <2> HIDE DEF x
  <2>3. Lags(d, x + 1)
    BY <1>7, <2>1, <2>2
  <2> QED
    BY <1>4, <2>1, <2>3 DEF Lagging
<1> QED
  BY <1>4, <1>7, <1>8, <1>9 DEF Passed

\* A slice of no key frame, until there has been one.
LEMMA SkippedIs ==
    ASSUME NEW a, SoundCall(a), NEW n, n.kind = "slice",
           n.p.type \notin FoundKeyFrame,
           NEW b,
           b = [a EXCEPT !.d =
                   HevcDecoderDeleteOnePtsFromList(a.d, a.c.nLastPts)]
    PROVE  Passed(a, n, b)
<1> DEFINE d == HevcDecoderDeleteOnePtsFromList(a.d, a.c.nLastPts)
<1>1. Fewer(a.d, d) /\ \A k \in 0 .. 4 : Lags(a.d, k) => Lags(d, k)
  BY DeletePtsIs DEF SoundCall
<1> HIDE DEF d
<1>2. DOMAIN b = CallFields /\ b.c = a.c /\ b.d = d /\ b.result = a.result
  BY DEF SoundCall, CallFields, d
<1>3. /\ SoundCall(b) /\ SameHeader(a, b)
      /\ \A k \in 0 .. 3 : Lagging(a, k) => Lagging(b, k)
  BY <1>1, <1>2, CallFewer
<1>4. \A k \in 0 .. 3 :
        k + (IF n.kind = "eos" THEN 1 ELSE 0) <= 3 /\ Lagging(a, k) =>
           Lagging(b, k + (IF n.kind = "eos" THEN 1 ELSE 0))
  <2> SUFFICES ASSUME NEW k \in 0 .. 3,
                      k + (IF n.kind = "eos" THEN 1 ELSE 0) <= 3,
                      Lagging(a, k)
               PROVE  Lagging(b, k + (IF n.kind = "eos" THEN 1 ELSE 0))
    OBVIOUS
  <2>1. k + (IF n.kind = "eos" THEN 1 ELSE 0) = k /\ k \in 0 .. 3
    OBVIOUS
  <2> QED
    BY <1>3, <2>1
<1>5. ~HEVC_IS_IDR(n.p.type)
  BY DEF FoundKeyFrame, HEVC_IS_IDR
<1> QED
  BY <1>1, <1>2, <1>3, <1>4, <1>5 DEF Passed

\* The call of which SliceNalu speaks may have found a key frame.
LEMMA SliceNaluFrom ==
    ASSUME NEW a, NEW s, NEW n, NEW b, SliceNalu(s, n, b),
           s.d = a.d, SameHeader(a, s),
           \A k \in Nat : Lagging(a, k) <=> Lagging(s, k)
    PROVE  SliceNalu(a, n, b)
<1>1. Stale(s.c) <=> Stale(a.c)
  BY StaleSame
<1>2. FewBefore(a, n, b) => FewBefore(s, n, b)
  BY <1>1, Zenon DEF FewBefore, StaleFew
<1>3. /\ SoundCall(b)
      /\ ~n.first => Fewer(a.d, b.d) /\ b.result # "NO_FRAME_BUFFER"
      /\ n.first /\ ~n.garbled /\ HEVC_IS_IDR(n.p.type) /\ FewWait(a.d)
         /\ b.result = "OK" => Few(b.d)
      /\ FewBefore(a, n, b) => StaleFew(b)
  BY <1>2, Zenon DEF SliceNalu
<1>4. a.d.display = <<>> /\ FewWait(a.d)
      /\ (n.garbled /\ Stale(a.c) => Few(a.d)) =>
         b.result # "NO_FRAME_BUFFER"
  BY <1>1, Zenon DEF SliceNalu
<1>5. \A k \in 0 .. 3 :
         k + (IF n.first THEN 1 ELSE 0) <= 3 /\ Lagging(s, k) =>
            Lagging(b, k + (IF n.first THEN 1 ELSE 0))
  BY DEF SliceNalu
<1>6. \A k \in 0 .. 3 :
         k + (IF n.first THEN 1 ELSE 0) <= 3 /\ Lagging(a, k) =>
            Lagging(b, k + (IF n.first THEN 1 ELSE 0))
  <2>1. \A k \in 0 .. 3 : k \in Nat
    OBVIOUS
  <2> QED
    BY <1>5, <2>1, Zenon
<1> QED
  BY <1>3, <1>4, <1>6, Zenon DEF SliceNalu

\* What one NAL unit makes of the call.
OneNalu(a, n, b) ==
    \/ Passed(a, n, b)
    \/ n.kind = "slice" /\ a.result = "OK" /\ SliceNalu(a, n, b)

\* A NAL unit of any kind, DecoderDecodeOneNalu.
LEMMA OneNaluIs ==
    ASSUME NEW a, SoundCall(a), NEW n, NalOK(n), NEW skip,
           NEW b, b = DecoderDecodeOneNalu(a, n, skip)
    PROVE  OneNalu(a, n, b)
<1> DEFINE found == a.c.bFindKeyFrameOnly
                    /\ ~(n.kind = "slice" /\ n.p.type \in FoundKeyFrame)
           c == [a.c EXCEPT !.bFindKeyFrameOnly = found]
           s == [a EXCEPT !.c = c]
           e == HevcDecoderDeleteOnePtsFromList(a.d, a.c.nLastPts)
           t == [a EXCEPT !.d = e]
<1>1. /\ DOMAIN a = CallFields /\ DOMAIN a.c = ContextFields
      /\ a.c.VpsList \in Nat /\ a.c.SpsList \in Nat /\ a.c.PpsList \in Nat
      /\ a.c.nMaxRa \in Int /\ a.c.bFindKeyFrameOnly \in BOOLEAN
  BY Zenon DEF SoundCall, SoundContext
<1>2. n.kind \in {"slice", "vps", "sps", "pps", "eos"}
  BY DEF NalOK
<1>3. /\ s = [a EXCEPT !.c.bFindKeyFrameOnly =
                @ /\ ~(n.kind = "slice" /\ n.p.type \in FoundKeyFrame)]
      /\ t = [a EXCEPT !.d =
                  HevcDecoderDeleteOnePtsFromList(@, a.c.nLastPts)]
  BY <1>1 DEF CallFields
<1> HIDE DEF s, t
<1>4. \/ a.result # "OK" /\ b = a
      \/ a.result = "OK" /\ Skipped(n, skip) /\ b = t
      \/ a.result = "OK" /\ ~Skipped(n, skip) /\ n.kind = "slice"
         /\ b = DecodeSliceNalu(s, n)
      \/ n.kind = "vps" /\ b = HevcDecodeNalVps(a, n)
      \/ n.kind = "sps" /\ b = HevcDecodeNalSps(a, n)
      \/ n.kind = "pps" /\ b = HevcDecodeNalPps(a, n)
      \/ n.kind = "eos" /\ b = EndOfSequence(a)
  <2>1. n.kind # "slice" => ~Skipped(n, skip)
    BY DEF Skipped
  <2>2. b = CASE a.result # "OK" -> a
          [] a.result = "OK" /\ Skipped(n, skip) -> t
          [] a.result = "OK" /\ ~Skipped(n, skip) /\ n.kind = "slice" ->
                DecodeSliceNalu(s, n)
          [] a.result = "OK" /\ n.kind = "vps" -> HevcDecodeNalVps(a, n)
          [] a.result = "OK" /\ n.kind = "sps" -> HevcDecodeNalSps(a, n)
          [] a.result = "OK" /\ n.kind = "pps" -> HevcDecodeNalPps(a, n)
          [] a.result = "OK" /\ n.kind = "eos" -> EndOfSequence(a)
    BY <1>3 DEF DecoderDecodeOneNalu
  <2> QED
    BY <1>2, <2>1, <2>2
<1>5. CASE a.result # "OK" /\ b = a
  <2>1. Fewer(a.d, b.d) /\ SameHeader(a, b)
    BY <1>5, FewerSelf DEF SoundCall, SameHeader
  <2>2. \A k \in 0 .. 3 :
          k + (IF n.kind = "eos" THEN 1 ELSE 0) <= 3 /\ Lagging(a, k) =>
             Lagging(b, k + (IF n.kind = "eos" THEN 1 ELSE 0))
    <3> SUFFICES ASSUME NEW k \in 0 .. 3,
                      k + (IF n.kind = "eos" THEN 1 ELSE 0) <= 3,
                      Lagging(a, k)
                 PROVE  Lagging(a, k + (IF n.kind = "eos" THEN 1 ELSE 0))
      BY <1>5
    <3> DEFINE m == k + (IF n.kind = "eos" THEN 1 ELSE 0)
    <3>1. k \in Nat /\ m \in Nat /\ k <= m
      OBVIOUS
    <3> HIDE DEF m
    <3>2. Lagging(a, m)
      BY <3>1, LaggingMore
    <3> QED
      BY <3>2 DEF m
  <2>3. Passed(a, n, b)
    BY <1>5, <2>1, <2>2 DEF Passed
  <2> QED
    BY <2>3 DEF OneNalu
<1>6. CASE a.result = "OK" /\ Skipped(n, skip) /\ b = t
  <2>1. n.kind = "slice" /\ n.p.type \notin FoundKeyFrame
    BY <1>6 DEF Skipped
  <2>2. b = [a EXCEPT !.d =
                HevcDecoderDeleteOnePtsFromList(a.d, a.c.nLastPts)]
    BY <1>6 DEF t
  <2>3. Passed(a, n, b)
    BY <2>1, <2>2, SkippedIs
  <2> QED
    BY <2>3 DEF OneNalu
<1>7. CASE n.kind = "eos" /\ b = EndOfSequence(a)
  <2>1. Passed(a, n, b)
    BY <1>7, EndOfSequenceIs
  <2> QED
    BY <2>1 DEF OneNalu
<1>8. CASE \/ n.kind = "vps" /\ b = HevcDecodeNalVps(a, n)
           \/ n.kind = "sps" /\ b = HevcDecodeNalSps(a, n)
           \/ n.kind = "pps" /\ b = HevcDecodeNalPps(a, n)
  <2>1. Passed(a, n, b)
    BY <1>8, ParameterSetIs
  <2> QED
    BY <2>1 DEF OneNalu
<1>9. CASE a.result = "OK" /\ ~Skipped(n, skip) /\ n.kind = "slice"
           /\ b = DecodeSliceNalu(s, n)
  <2>1. /\ DOMAIN s = CallFields /\ s.c = c /\ s.d = a.d
        /\ s.result = a.result
    BY <1>1 DEF CallFields, s
  <2>2. /\ SameContext(a.c, c, Sets) /\ c.VpsList = a.c.VpsList
        /\ c.SpsList = a.c.SpsList /\ c.PpsList = a.c.PpsList
        /\ c.nMaxRa = a.c.nMaxRa /\ c.bFindKeyFrameOnly = found
    <3> HIDE DEF found
    <3> QED
      BY <1>1 DEF SameContext, Sets, ContextFields
  <2>3. found \in BOOLEAN
    OBVIOUS
  <2> HIDE DEF found, c
  <2>4. c.bFindKeyFrameOnly \in BOOLEAN
    BY <2>2, <2>3, Zenon
  <2>5. /\ SoundCall(s) /\ SameHeader(a, s)
        /\ \A k \in Nat : Lagging(a, k) <=> Lagging(s, k)
    BY <1>1, <2>1, <2>2, <2>4, CallSets
  <2>6. SliceNalu(s, n, b)
    <3>1. n.first \in BOOLEAN /\ n.garbled \in BOOLEAN /\ SoundNalu(n)
      BY <1>9, Zenon DEF NalOK
    <3>2. s.result = "OK"
      BY <1>9, <2>1
    <3> QED
      BY <1>9, <2>5, <3>1, <3>2, DecodeSliceNaluIs
  <2>7. SliceNalu(a, n, b)
    BY <2>1, <2>5, <2>6, SliceNaluFrom
  <2> QED
    BY <1>9, <2>7 DEF OneNalu
<1> QED
  BY <1>4, <1>5, <1>6, <1>7, <1>8, <1>9

----------------------------------------------------------------------------
(* The NAL units of an access unit, one after the other.  p is the access    *)
(* unit u of m NAL units, the place f of the slice that starts a picture,    *)
(* those e and x of the ends of a sequence, and the state s it starts from.  *)

Garbled(n) == n.kind = "slice" /\ n.garbled

UnitLaid(p) ==
    /\ p.m \in Nat /\ p.f \in Nat \ {0} /\ p.e \in Nat \ {0}
    /\ p.x \in Nat \ {0} /\ DOMAIN p.u = 1 .. p.m
    /\ \A j \in 1 .. p.m :
          /\ NalOK(p.u[j])
          /\ p.u[j].kind = "slice" /\ p.u[j].first => j = p.f
          /\ p.u[j].kind = "eos" => j \in {p.e, p.x}

\* It is one picture, of which only the first slice may be garbled.
Whole(u, f) ==
    /\ f \in DOMAIN u /\ u[f].kind = "slice" /\ u[f].first
    /\ \A j \in DOMAIN u :
          /\ u[j].p = u[1].p
          /\ u[j].kind = "slice" => f <= j /\ (j # f => ~u[j].first)
          /\ Garbled(u[j]) => j = f

\* Few buffers are held if the header says nothing of references...
FewIn(p) == Whole(p.u, p.f) /\ StaleFew(p.s)

\* ... which is so if a slice is garbled, and nothing is displayed.
EmptyIn(p) ==
    /\ p.s.d.display = <<>>
    /\ (\E j \in DOMAIN p.u : Garbled(p.u[j])) => FewIn(p)

\* The sequences that have started with the first k NAL units.
StartsBy(p, k) ==
    (IF p.f <= k THEN 1 ELSE 0) + (IF p.e <= k THEN 1 ELSE 0)
    + (IF p.x <= k THEN 1 ELSE 0)

Clean(p, k) == \A j \in 1 .. k : ~Garbled(p.u[j])

\* What holds after k NAL units...
UnitSound(p, k, a) ==
    /\ SoundCall(a) /\ Lagging(a, StartsBy(p, k))
    /\ k < p.f => /\ FewWait(a.d) /\ a.result # "NO_FRAME_BUFFER"
                  /\ a.d.display = p.s.d.display
    /\ EmptyIn(p) => a.result # "NO_FRAME_BUFFER"

\* ... and of the buffers held.
UnitFew(p, k, a) ==
    FewIn(p) =>
        /\ Clean(p, k) \/ a.result = "NO_FRAME_BUFFER" => StaleFew(a)
        /\ p.f <= k /\ a.result = "OK" /\ HEVC_IS_IDR(p.u[1].p.type)
           /\ Clean(p, k) => Few(a.d)

UnitGood(p, k, a) == UnitSound(p, k, a) /\ UnitFew(p, k, a)

UnitLoop ==
    INSTANCE Loop WITH
        Step <- LAMBDA skip, a, n : DecoderDecodeOneNalu(a, n, skip),
        Good <- UnitGood

\* Few buffers stay few.
LEMMA StaleFewKept ==
    ASSUME NEW a, NEW b, SoundCall(a), SameHeader(a, b), Fewer(a.d, b.d),
           StaleFew(a)
    PROVE  StaleFew(b)
<1>1. Stale(b.c) <=> Stale(a.c)
  BY StaleSame
<1>2. Few(a.d) => Few(b.d)
  BY FewerKeeps DEF SoundCall
<1> QED
  BY <1>1, <1>2 DEF StaleFew

\* The invariant over an access unit is kept by what is no slice...
LEMMA UnitPassed ==
    ASSUME NEW p, UnitLaid(p), NEW k \in 1 .. p.m, NEW a,
           UnitGood(p, k - 1, a), NEW b, Passed(a, p.u[k], b)
    PROVE  UnitGood(p, k, b)
<1> DEFINE n == p.u[k]
<1>1. /\ SoundCall(a) /\ Lagging(a, StartsBy(p, k - 1))
      /\ k - 1 < p.f => /\ FewWait(a.d) /\ a.result # "NO_FRAME_BUFFER"
                        /\ a.d.display = p.s.d.display
      /\ EmptyIn(p) => a.result # "NO_FRAME_BUFFER"
  BY DEF UnitGood, UnitSound
<1>2. /\ SoundCall(b) /\ SameHeader(a, b) /\ Fewer(a.d, b.d)
      /\ b.result = a.result
      /\ \A i \in 0 .. 3 :
          i + (IF n.kind = "eos" THEN 1 ELSE 0) <= 3 /\ Lagging(a, i) =>
             Lagging(b, i + (IF n.kind = "eos" THEN 1 ELSE 0))
      /\ a.result = "OK" /\ n.kind = "slice" => ~HEVC_IS_IDR(n.p.type)
  BY DEF Passed
<1>3. /\ p.m \in Nat /\ p.f \in Nat \ {0} /\ p.e \in Nat \ {0}
      /\ p.x \in Nat \ {0} /\ DOMAIN p.u = 1 .. p.m
      /\ n.kind = "eos" => k \in {p.e, p.x}
  BY DEF UnitLaid
<1> HIDE DEF n
<1>4. Lagging(b, StartsBy(p, k))
  <2> DEFINE i == StartsBy(p, k - 1)
             y == IF n.kind = "eos" THEN 1 ELSE 0
             m == StartsBy(p, k)
  <2>1. i \in 0 .. 3 /\ m \in 0 .. 3 /\ i + y <= m
    BY <1>3 DEF StartsBy
  <2>2. y \in 0 .. 1 /\ y = IF n.kind = "eos" THEN 1 ELSE 0
    OBVIOUS
  <2>3. Lagging(a, i)
    BY <1>1
  <2> HIDE DEF i, y, m
  <2>4. Lagging(b, i + y)
    BY <1>2, <2>1, <2>2, <2>3
  <2>5. i + y \in Nat /\ m \in Nat
    BY <2>1, <2>2
  <2> QED
    BY <2>1, <2>4, <2>5, LaggingMore DEF m
<1>5. FewWait(a.d) => FewWait(b.d)
  BY <1>1, <1>2, FewerKeeps DEF SoundCall
<1>6. UnitSound(p, k, b)
  <2>1. k < p.f => k - 1 < p.f
    BY <1>3
  <2>2. b.d.display = a.d.display
    BY <1>2 DEF Fewer
  <2> QED
    BY <1>1, <1>2, <1>4, <1>5, <2>1, <2>2 DEF UnitSound
<1>7. ASSUME FewIn(p) PROVE StaleFew(a) => StaleFew(b)
  BY <1>1, <1>2, StaleFewKept
<1>8. Clean(p, k) => Clean(p, k - 1)
  BY DEF Clean
<1>9. ASSUME FewIn(p), p.f <= k, b.result = "OK",
             HEVC_IS_IDR(p.u[1].p.type), Clean(p, k)
      PROVE  Few(b.d)
  <2>1. CASE p.f <= k - 1
    <3>1. Few(a.d)
      BY <1>2, <1>8, <1>9, <2>1 DEF UnitGood, UnitFew
    <3> QED
      BY <1>1, <1>2, <3>1, FewerKeeps DEF SoundCall
  <2>2. CASE p.f = k
    <3>1. n.kind = "slice" /\ n.p = p.u[1].p
      BY <1>3, <1>9, <2>2 DEF FewIn, Whole, n
    <3> QED
      BY <1>2, <1>9, <3>1
  <2> QED
    BY <1>3, <1>9, <2>1, <2>2
<1>10. UnitFew(p, k, b)
  BY <1>2, <1>7, <1>8, <1>9 DEF UnitGood, UnitFew
<1> QED
  BY <1>6, <1>10 DEF UnitGood

\* ... by a slice...
LEMMA UnitSlice ==
    ASSUME NEW p, UnitLaid(p), NEW k \in 1 .. p.m, NEW a,
           UnitGood(p, k - 1, a), p.u[k].kind = "slice", a.result = "OK",
           NEW b, SliceNalu(a, p.u[k], b)
    PROVE  UnitGood(p, k, b)
<1> DEFINE n == p.u[k]
<1>1. /\ SoundCall(a) /\ Lagging(a, StartsBy(p, k - 1))
      /\ k - 1 < p.f => /\ FewWait(a.d) /\ a.result # "NO_FRAME_BUFFER"
                        /\ a.d.display = p.s.d.display
      /\ EmptyIn(p) => a.result # "NO_FRAME_BUFFER"
  BY DEF UnitGood, UnitSound
<1>2. /\ SoundCall(b)
      /\ ~n.first => Fewer(a.d, b.d) /\ b.result # "NO_FRAME_BUFFER"
      /\ a.d.display = <<>> /\ FewWait(a.d)
         /\ (n.garbled /\ Stale(a.c) => Few(a.d)) =>
            b.result # "NO_FRAME_BUFFER"
      /\ FewBefore(a, n, b) => StaleFew(b)
      /\ n.first /\ ~n.garbled /\ HEVC_IS_IDR(n.p.type) /\ FewWait(a.d)
         /\ b.result = "OK" => Few(b.d)
  BY Zenon DEF SliceNalu
<1>3. /\ p.m \in Nat /\ p.f \in Nat \ {0} /\ p.e \in Nat \ {0}
      /\ p.x \in Nat \ {0} /\ DOMAIN p.u = 1 .. p.m
      /\ n.first => k = p.f
      /\ n.kind = "slice" /\ k \in DOMAIN p.u /\ (n.garbled => Garbled(n))
      /\ n.first \in BOOLEAN /\ n.garbled \in BOOLEAN
  BY DEF UnitLaid, NalOK, Garbled
<1>4. \A i \in 0 .. 3 :
         i + (IF n.first THEN 1 ELSE 0) <= 3 /\ Lagging(a, i) =>
            Lagging(b, i + (IF n.first THEN 1 ELSE 0))
  BY DEF SliceNalu
<1>5. FewIn(p) => /\ p.u[p.f].first /\ n.p = p.u[1].p /\ p.f <= k
                  /\ Garbled(n) => k = p.f
                  /\ k # p.f => ~n.first
                  /\ k = p.f => n.first
                  /\ k - 1 < p.f => Clean(p, k - 1)
  <2> SUFFICES ASSUME FewIn(p)
               PROVE  /\ p.u[p.f].first /\ n.p = p.u[1].p /\ p.f <= k
                      /\ Garbled(n) => k = p.f
                      /\ k # p.f => ~n.first
                      /\ k = p.f => n.first
                      /\ k - 1 < p.f => Clean(p, k - 1)
    OBVIOUS
  <2>1. /\ p.u[p.f].first
        /\ \A j \in 1 .. p.m :
             /\ p.u[j].p = p.u[1].p
             /\ p.u[j].kind = "slice" => p.f <= j /\ (j # p.f => ~p.u[j].first)
             /\ Garbled(p.u[j]) => j = p.f
    BY <1>3 DEF FewIn, Whole
  <2>2. /\ n.p = p.u[1].p
        /\ n.kind = "slice" => p.f <= k /\ (k # p.f => ~n.first)
        /\ Garbled(n) => k = p.f
    BY <2>1
  <2>3. k - 1 < p.f => Clean(p, k - 1)
    BY <1>3, <2>1 DEF Clean
  <2> QED
    BY <1>3, <2>1, <2>2, <2>3
<1>6. Clean(p, k) => Clean(p, k - 1) /\ ~Garbled(n)
  BY <1>3 DEF Clean
<1> HIDE DEF n
<1>7. Lagging(b, StartsBy(p, k))
  <2> DEFINE i == StartsBy(p, k - 1)
             y == IF n.first THEN 1 ELSE 0
             m == StartsBy(p, k)
  <2>1. i \in 0 .. 3 /\ m \in 0 .. 3 /\ i + y <= m
    BY <1>3 DEF StartsBy
  <2>2. y \in 0 .. 1 /\ y = IF n.first THEN 1 ELSE 0
    OBVIOUS
  <2>3. Lagging(a, i)
    BY <1>1
  <2> HIDE DEF i, y, m
  <2>4. Lagging(b, i + y)
    BY <1>4, <2>1, <2>2, <2>3
  <2>5. i + y \in Nat /\ m \in Nat
    BY <2>1, <2>2
  <2> QED
    BY <2>1, <2>4, <2>5, LaggingMore DEF m
<1>8. UnitSound(p, k, b)
  <2>1. ASSUME k < p.f
        PROVE  /\ FewWait(b.d) /\ b.result # "NO_FRAME_BUFFER"
               /\ b.d.display = p.s.d.display
    <3>1. ~n.first /\ k - 1 < p.f
      BY <1>3, <2>1
    <3>2. Fewer(a.d, b.d) /\ b.result # "NO_FRAME_BUFFER"
      BY <1>2, <3>1
    <3>3. FewWait(b.d)
      BY <1>1, <3>1, <3>2, FewerKeeps DEF SoundCall
    <3> QED
      BY <1>1, <3>1, <3>2, <3>3 DEF Fewer
  <2>2. ASSUME EmptyIn(p) PROVE b.result # "NO_FRAME_BUFFER"
    <3>1. CASE ~n.first
      BY <1>2, <3>1
    <3>2. CASE n.first
      <4>1. k - 1 < p.f
        BY <1>3, <3>2
      <4>2. a.d.display = <<>> /\ FewWait(a.d)
        BY <1>1, <2>2, <4>1 DEF EmptyIn
      <4>3. ASSUME n.garbled, Stale(a.c) PROVE Few(a.d)
        <5>1. FewIn(p)
          BY <1>3, <2>2, <4>3 DEF EmptyIn, n
        <5>2. Clean(p, k - 1)
          BY <1>5, <4>1, <5>1
        <5> QED
          BY <4>3, <5>1, <5>2 DEF UnitGood, UnitFew, StaleFew
      <4> QED
        BY <1>2, <4>2, <4>3
    <3> QED
      BY <3>1, <3>2
  <2> QED
    BY <1>2, <1>7, <2>1, <2>2 DEF UnitSound
<1>9. ASSUME FewIn(p), Clean(p, k) \/ b.result = "NO_FRAME_BUFFER"
      PROVE  StaleFew(b)
  <2>1. ~n.first => Clean(p, k)
    BY <1>2, <1>9
  <2>2. k - 1 < p.f \/ ~n.first
    BY <1>3
  <2>3. Clean(p, k - 1)
    BY <1>5, <1>6, <1>9, <2>1, <2>2
  <2>4. StaleFew(a)
    BY <1>9, <2>3 DEF UnitGood, UnitFew
  <2>5. n.garbled => b.result = "NO_FRAME_BUFFER"
    BY <1>3, <1>6, <1>9
  <2>6. n.first => FewWait(a.d)
    <3>1. n.first => k - 1 < p.f
      BY <1>3
    <3> QED
      BY <1>1, <3>1
  <2>7. ASSUME ~n.first, HEVC_IS_IDR(n.p.type) PROVE Few(a.d)
    <3>1. p.f <= k - 1 /\ HEVC_IS_IDR(p.u[1].p.type)
      BY <1>3, <1>5, <1>9, <2>7
    <3> QED
      BY <1>9, <2>3, <3>1 DEF UnitGood, UnitFew
  <2>8. FewBefore(a, n, b)
    BY <2>4, <2>5, <2>6, <2>7 DEF FewBefore
  <2> QED
    BY <1>2, <2>8
<1>10. ASSUME FewIn(p), p.f <= k, b.result = "OK",
              HEVC_IS_IDR(p.u[1].p.type), Clean(p, k)
       PROVE  Few(b.d)
  <2>1. CASE p.f = k
    <3>1. n.first /\ HEVC_IS_IDR(n.p.type) /\ ~n.garbled
      BY <1>3, <1>5, <1>6, <1>10, <2>1
    <3>2. FewWait(a.d)
      BY <1>1, <1>3, <2>1
    <3> QED
      BY <1>2, <1>10, <3>1, <3>2
  <2>2. CASE p.f <= k - 1
    <3>1. Few(a.d)
      BY <1>6, <1>10, <2>2 DEF UnitGood, UnitFew
    <3>2. Fewer(a.d, b.d)
      <4>1. ~n.first
        BY <1>3, <2>2
      <4> QED
        BY <1>2, <4>1
    <3> QED
      BY <1>1, <3>1, <3>2, FewerKeeps DEF SoundCall
  <2> QED
    BY <1>3, <1>10, <2>1, <2>2
<1>11. UnitFew(p, k, b)
  BY <1>9, <1>10 DEF UnitFew
<1> QED
  BY <1>8, <1>11 DEF UnitGood

\* HevcDecDecodeOneFrame before it looks at the picture.
Units(skip, s, u) ==
    FoldLeft(LAMBDA a, n : DecoderDecodeOneNalu(a, n, skip), s, u)

UnitBegins(p) ==
    /\ UnitLaid(p) /\ SoundCall(p.s) /\ p.s.result = "OK"
    /\ Lags(p.s.d, 0) /\ FewWait(p.s.d)

\* ... and so over the whole of it.
LEMMA UnitsReach ==
    ASSUME NEW p, UnitBegins(p), NEW skip,
           NEW b, b = Units(skip, p.s, p.u)
    PROVE  UnitGood(p, p.m, b)
<1>1. /\ UnitLaid(p) /\ p.m \in Nat /\ DOMAIN p.u = 1 .. p.m
      /\ p.f \in Nat \ {0} /\ p.e \in Nat \ {0} /\ p.x \in Nat \ {0}
      /\ \A j \in 1 .. p.m : NalOK(p.u[j])
  BY DEF UnitBegins, UnitLaid
<1>2. UnitGood(p, 0, p.s)
  <2>1. StartsBy(p, 0) = 0
    BY <1>1 DEF StartsBy
  <2>2. Lagging(p.s, 0)
    <3> DEFINE y == 0 + (IF p.s.c.pSps = 0 THEN 0 ELSE 1)
    <3>1. 0 \in Nat /\ y \in Nat /\ 0 <= y /\ Lags(p.s.d, 0)
      BY DEF UnitBegins
    <3> HIDE DEF y
    <3>2. Lags(p.s.d, y)
      BY <3>1, LagsMore
    <3> QED
      BY <3>2 DEF Lagging, y
  <2>3. UnitSound(p, 0, p.s)
    BY <1>1, <2>1, <2>2 DEF UnitSound, UnitBegins
  <2>4. UnitFew(p, 0, p.s)
    BY <1>1 DEF UnitFew, FewIn
  <2> QED
    BY <2>3, <2>4 DEF UnitGood
<1>3. ASSUME NEW k \in 1 .. p.m, NEW a, UnitGood(p, k - 1, a)
      PROVE  UnitGood(p, k, DecoderDecodeOneNalu(a, p.u[k], skip))
  <2> DEFINE w == DecoderDecodeOneNalu(a, p.u[k], skip)
  <2>1. SoundCall(a) /\ NalOK(p.u[k])
    BY <1>1, <1>3 DEF UnitGood, UnitSound
  <2>2. OneNalu(a, p.u[k], w)
    BY <2>1, OneNaluIs
  <2> HIDE DEF w
  <2>3. CASE Passed(a, p.u[k], w)
    <3>1. UnitGood(p, k, w)
      BY <1>1, <1>3, <2>3, UnitPassed
    <3> QED
      BY <3>1 DEF w
  <2>4. CASE p.u[k].kind = "slice" /\ a.result = "OK"
             /\ SliceNalu(a, p.u[k], w)
    <3>1. UnitGood(p, k, w)
      BY <1>1, <1>3, <2>4, UnitSlice
    <3> QED
      BY <3>1 DEF w
  <2> QED
    BY <2>2, <2>3, <2>4 DEF OneNalu
<1>4. b = UnitLoop!Turns(skip, p.s, p.u)
  BY DEF Units, FoldLeft, MapThenFoldSet, UnitLoop!Turns, UnitLoop!Last, Max
<1>5. UnitGood(p, p.m, UnitLoop!Turns(skip, p.s, p.u))
  BY <1>1, <1>2, <1>3, UnitLoop!TurnsReach
<1> QED
  BY <1>4, <1>5

\* The picture is finished, it may have an error.
LEMMA PictureDoneIs ==
    ASSUME NEW a, SoundCall(a), NEW b, b = PictureDone(a)
    PROVE  /\ SoundCall(b) /\ SameHeader(a, b) /\ b.result = a.result
           /\ Fewer(a.d, b.d)
           /\ \A n \in 0 .. 4 : Lags(a.d, n) => Lags(b.d, n)
<1> DEFINE i == a.d.pCurrDPB
           error == a.c.bErrorFrameFlag \/ (a.c.pSps # 0 /\ a.c.ctuShort)
           v == a.d.DPB[i].bErrorFrameFlag \/ error
           e == PutSlot(a.d, i, "bErrorFrameFlag", v)
           list == a.c.nSqueueFramePocList \cup {a.d.DPB[i].nPoc}
           c == [a.c EXCEPT !.nSqueueFramePocList = list]
<1>0. /\ Sound(a.d) /\ DOMAIN a = CallFields /\ DOMAIN a.c = ContextFields
      /\ DOMAIN a.d = DpbFields /\ DOMAIN a.d.DPB = Slots
      /\ i \in {0} \cup Slots
      /\ \A j \in Slots : DOMAIN a.d.DPB[j] = FrameFields
      /\ SoundContext(a.c) /\ a.c.nMaxRa \in Int
  BY DEF SoundCall, SoundContext, Sound, SoundShape, SoundFrame
<1>1. CASE b = a
  BY <1>0, <1>1, FewerSelf DEF SameHeader
<1>2. CASE i # 0 /\ b = [a EXCEPT !.c = c, !.d = e]
  <2>1. i \in Slots
    BY <1>0, <1>2
  <2>2. PICK x : x = "bErrorFrameFlag"
    OBVIOUS
  <2>3. e = PutSlot(a.d, i, x, v)
    BY <2>2, Zenon
  <2>4. /\ SameContext(a.c, c, {"eNaluType", "eFirstNaluType", "nMaxRa",
                                "nSqueueFramePocList"})
        /\ c.nMaxRa \in Int
    BY <1>0 DEF SameContext, ContextFields
  <2> HIDE DEF v, list, e, c, i
  <2>5. /\ Fewer(a.d, e) /\ \A n \in 0 .. 4 : Lags(a.d, n) => Lags(e, n)
    BY <1>0, <2>1, <2>2, <2>3, ErrorNoted
  <2>6. DOMAIN b = CallFields /\ b.c = c /\ b.d = e /\ b.result = a.result
    BY <1>2 DEF SoundCall, CallFields
  <2>7. /\ SoundContext(c) /\ c.SliceHeader = a.c.SliceHeader
        /\ c.pSps = a.c.pSps /\ c.eDecodStep = a.c.eDecodStep
    BY <1>0, <2>4, ContextKept
  <2> QED
    BY <2>5, <2>6, <2>7 DEF SoundCall, SameHeader, Fewer
<1>3. b = a \/ (i # 0 /\ b = [a EXCEPT !.c = c, !.d = e])
  <2> DEFINE w == [a EXCEPT
                !.d.DPB[i].bErrorFrameFlag = @ \/ error,
                !.c.nSqueueFramePocList = @ \cup {a.d.DPB[i].nPoc}]
  <2>1. b = IF i = 0 \/ a.result # "OK" THEN a ELSE w
    BY Zenon DEF PictureDone
  <2>2. ASSUME i \in Slots PROVE w = [a EXCEPT !.c = c, !.d = e]
    <3>1. w = [a EXCEPT !.d.DPB[i].bErrorFrameFlag = @ \/ error, !.c = c]
      <4> HIDE DEF error
      <4> QED
        BY <1>0 DEF CallFields
    <3> HIDE DEF w, c, error
    <3> QED
      BY <1>0, <2>2, <3>1 DEF CallFields, PutSlot, DpbFields
  <2> HIDE DEF w, c, e
  <2> QED
    BY <1>0, <2>1, <2>2
<1> QED
  BY <1>1, <1>2, <1>3

UnitOK(u) ==
    \E m \in Nat, f, e, x \in Nat \ {0} :
        UnitLaid([u |-> u, m |-> m, f |-> f, e |-> e, x |-> x])

IsWhole(u) == \E f \in DOMAIN u : Whole(u, f)
HasGarbled(u) == \E j \in DOMAIN u : Garbled(u[j])

\* What the access unit u makes of a call that starts with the context c and
\* the pictures d.
Decoded(c, d, u, b) ==
    /\ SoundCall(b) /\ Lags(b.d, 4)
    /\ d.display = <<>>
       /\ (HasGarbled(u) => IsWhole(u) /\ (Stale(c) => Few(d)))
          => b.result # "NO_FRAME_BUFFER"
    /\ IsWhole(u) /\ (Stale(c) => Few(d))
       /\ (~HasGarbled(u) \/ b.result = "NO_FRAME_BUFFER") => StaleFew(b)

\* The pictures in the slots are the same.
LEMMA SameFrames ==
    ASSUME NEW d, Sound(d), NEW e, SoundShape(e), e.DPB = d.DPB,
           e.held = d.held, e.nSeqDecode = d.nSeqDecode,
           e.nSeqOutput = d.nSeqOutput
    PROVE  /\ Sound(e) /\ WaitingBuffers(e) = WaitingBuffers(d)
           /\ \A n : Lags(d, n) => Lags(e, n)
<1>1. Sound(e)
  <2>1. /\ UsedSlots(e) = UsedSlots(d) /\ (OneOwner(d) => OneOwner(e))
        /\ \A S : BuffersOf(e, S) = BuffersOf(d, S)
    BY DEF UsedSlots, OneOwner, BuffersOf
  <2> QED
    BY <2>1 DEF Sound
<1>2. WaitingBuffers(e) = WaitingBuffers(d)
  BY DEF WaitingBuffers, BuffersOf, WaitingSlots
<1>3. \A n : Lags(d, n) => Lags(e, n)
  BY DEF Lags, LagsBy
<1> QED
  BY <1>1, <1>2, <1>3

\* The pictures when a call starts on an access unit.
LEMMA NonePlacedIs ==
    ASSUME NEW d, Sound(d), NEW e, e = [d EXCEPT !.pCurrDPB = 0]
    PROVE  /\ Sound(e) /\ e.held = d.held /\ e.display = d.display
           /\ WaitingBuffers(e) = WaitingBuffers(d)
           /\ \A n : Lags(d, n) => Lags(e, n)
<1>1. DOMAIN d = DpbFields
  BY DEF Sound, SoundShape
<1>2. /\ DOMAIN e = DpbFields /\ e.pCurrDPB = 0 /\ e.DPB = d.DPB
      /\ e.nSeqDecode = d.nSeqDecode /\ e.nSeqOutput = d.nSeqOutput
      /\ e.Rps = d.Rps /\ e.held = d.held /\ e.display = d.display
  BY <1>1 DEF DpbFields
<1>3. SoundShape(e)
  BY <1>1, <1>2 DEF Sound, SoundShape
<1> QED
  BY <1>2, <1>3, SameFrames

\* HevcDecDecodeOneFrame, from the pictures a call starts with.
LEMMA DecodedIs ==
    ASSUME NEW c, SoundContext(c), c.eDecodStep = "DECODE_FRAME",
           NEW d, Sound(d), Lags(d, 0), FewWait(d),
           NEW u, UnitOK(u), NEW b, b = HevcDecDecodeOneFrame(c, d, u)
    PROVE  Decoded(c, d, u, b)
<1> DEFINE o == [c EXCEPT !.bErrorFrameFlag = FALSE]
           e == [d EXCEPT !.pCurrDPB = 0]
           s == [c |-> o, d |-> e, result |-> "OK", listed |-> listed]
           skip == keyOnly \/ c.bFindKeyFrameOnly
           w == Units(skip, s, u)
<1>1. b = PictureDone(w)
  BY DEF HevcDecDecodeOneFrame, Units
<1>2. /\ SoundContext(o) /\ o.eDecodStep = "DECODE_FRAME"
      /\ o.SliceHeader = c.SliceHeader /\ o.pSps = c.pSps
  BY DEF SoundContext, ContextFields
<1>3. /\ Sound(e) /\ e.held = d.held /\ e.display = d.display
      /\ WaitingBuffers(e) = WaitingBuffers(d)
      /\ \A n : Lags(d, n) => Lags(e, n)
  BY NonePlacedIs
<1> HIDE DEF o, e
<1>4. /\ SoundCall(s) /\ s.result = "OK" /\ s.c = o /\ s.d = e
  BY <1>2, <1>3 DEF SoundCall, CallFields
<1> HIDE DEF s, skip, w
<1>5. PICK m \in Nat, f \in Nat \ {0}, y \in Nat \ {0}, x \in Nat \ {0} :
          UnitLaid([u |-> u, m |-> m, f |-> f, e |-> y, x |-> x])
  BY DEF UnitOK
<1> DEFINE p == [u |-> u, m |-> m, f |-> f, e |-> y, x |-> x, s |-> s]
<1>6. /\ UnitLaid(p) /\ p.u = u /\ p.s = s /\ p.m = m /\ p.f = f
      /\ DOMAIN u = 1 .. m
  BY <1>5 DEF UnitLaid
<1> HIDE DEF p
<1>7. Lags(s.d, 0) /\ FewWait(s.d)
  BY <1>3, <1>4 DEF FewWait
<1>8. UnitGood(p, m, w)
  <2>1. UnitBegins(p)
    BY <1>4, <1>6, <1>7 DEF UnitBegins
  <2>2. w = Units(skip, p.s, p.u)
    BY <1>6 DEF w
  <2> QED
    BY <1>6, <2>1, <2>2, UnitsReach
<1>9. SoundCall(w) /\ Lagging(w, StartsBy(p, m))
  BY <1>8 DEF UnitGood, UnitSound
<1>10. Lags(w.d, 4)
  <2> DEFINE i == StartsBy(p, m) + (IF w.c.pSps = 0 THEN 0 ELSE 1)
  <2>1. i \in Nat /\ i <= 4 /\ 4 \in Nat
    BY DEF StartsBy
  <2>2. Lags(w.d, i)
    BY <1>9 DEF Lagging
  <2> HIDE DEF i
  <2> QED
    BY <2>1, <2>2, LagsMore
<1>11. /\ SoundCall(b) /\ SameHeader(w, b) /\ b.result = w.result
       /\ Fewer(w.d, b.d)
       /\ \A n \in 0 .. 4 : Lags(w.d, n) => Lags(b.d, n)
  BY <1>1, <1>9, PictureDoneIs
<1>12. Stale(c) <=> Stale(s.c)
  BY <1>2, <1>4 DEF Stale
<1>13. Few(d) <=> Few(s.d)
  BY <1>3, <1>4 DEF Few
<1>14. IsWhole(u) => Whole(u, f)
  <2> SUFFICES ASSUME NEW g \in DOMAIN u, Whole(u, g) PROVE g = f
    BY DEF IsWhole
  <2>1. u[g].kind = "slice" /\ u[g].first
    BY DEF Whole
  <2> QED
    BY <1>6, <2>1 DEF UnitLaid
<1>15. IsWhole(u) /\ (Stale(c) => Few(d)) => FewIn(p)
  BY <1>6, <1>12, <1>13, <1>14 DEF FewIn, StaleFew
<1>16. ASSUME d.display = <<>>,
              HasGarbled(u) => IsWhole(u) /\ (Stale(c) => Few(d))
       PROVE  b.result # "NO_FRAME_BUFFER"
  <2>1. EmptyIn(p)
    BY <1>3, <1>4, <1>6, <1>15, <1>16 DEF EmptyIn, HasGarbled
  <2> QED
    BY <1>8, <1>11, <2>1 DEF UnitGood, UnitSound
<1>17. ASSUME IsWhole(u), Stale(c) => Few(d),
              ~HasGarbled(u) \/ b.result = "NO_FRAME_BUFFER"
       PROVE  StaleFew(b)
  <2>1. FewIn(p)
    BY <1>15, <1>17
  <2>2. ~HasGarbled(u) => Clean(p, m)
    BY <1>6 DEF HasGarbled, Clean
  <2>3. StaleFew(w)
    BY <1>8, <1>11, <1>17, <2>1, <2>2 DEF UnitGood, UnitFew
  <2> QED
    BY <1>9, <1>11, <2>3, StaleFewKept
<1>18. Lags(b.d, 4)
  BY <1>10, <1>11
<1> QED
  BY <1>11, <1>16, <1>17, <1>18, Zenon DEF Decoded

----------------------------------------------------------------------------
(* The calls. *)

\* No buffer is taken by what comes after.
LEMMA AfterHeld ==
    ASSUME NEW d, Sound(d), NEW e, After(d, e)
    PROVE  e.held \subseteq d.held /\ (Few(d) => Few(e))
<1>1. Sound(e) /\ \A i \in Slots :
                     e.DPB[i].pFbmBuffer \in {0, d.DPB[i].pFbmBuffer}
  BY DEF After
<1>2. e.held \subseteq d.held
  <2> SUFFICES ASSUME NEW i \in Slots, e.DPB[i].pFbmBuffer # 0
               PROVE  e.DPB[i].pFbmBuffer \in d.held
    BY <1>1 DEF Sound, BuffersOf, UsedSlots
  <2>1. d.DPB[i].pFbmBuffer # 0 /\ e.DPB[i].pFbmBuffer = d.DPB[i].pFbmBuffer
    BY <1>1
  <2> QED
    BY <2>1 DEF Sound, BuffersOf, UsedSlots
<1>3. /\ Cardinality(e.held) <= Cardinality(d.held)
      /\ Cardinality(e.held) \in Nat /\ Cardinality(d.held) \in Nat
  BY <1>1, <1>2, HeldFinite, FS_Subset
<1> QED
  BY <1>2, <1>3, DpbAssumption DEF Few

\* The steps of the decoder, and its context otherwise.
Steps == {"REQUEST_STREAM", "DECODE_FRAME", "REOPEN", "CRASH"}

\* The decoder takes a step.
LEMMA StepIs ==
    ASSUME NEW c, SoundContext(c), NEW step,
           NEW e, e = [c EXCEPT !.eDecodStep = step]
    PROVE  /\ SoundContext(e) /\ e.eDecodStep = step
           /\ e.SliceHeader = c.SliceHeader
BY DEF SoundContext, ContextFields

\* The stream: one access unit at most has a slice that is garbled, and is a
\* whole picture then, as all others.
StreamOK ==
    /\ Len(stream) \in Nat /\ DOMAIN stream = 1 .. Len(stream)
    /\ \A k \in DOMAIN stream :
          /\ UnitOK(stream[k])
          /\ HasGarbled(stream[k]) => fault = "garbled"
          /\ fault = "garbled" => IsWhole(stream[k])
    /\ \A j, k \in DOMAIN stream :
          HasGarbled(stream[j]) /\ HasGarbled(stream[k]) => j = k

\* A slice that is garbled is still to come.
GarbledAhead ==
    \E k \in DOMAIN stream : Requested <= k /\ HasGarbled(stream[k])

\* Until then few buffers are held if the header says nothing of references.
FewAhead ==
    h.eDecodStep # "REOPEN" /\ GarbledAhead /\ Stale(h) => Few(dpb)

\* What is kept.
Kept ==
    /\ StreamOK
    /\ SoundContext(h) /\ h.eDecodStep \in Steps
    /\ Sound(dpb) /\ Lags(dpb, 4)
    /\ next \in Nat \ {0} /\ pCurStreamFrame \in 0 .. Len(stream)
    /\ h.eDecodStep = "DECODE_FRAME" <=> pCurStreamFrame # 0
    /\ FewAhead

\* What a call makes of its access unit.
Attempted(a) ==
    /\ SoundCall(a) /\ Lags(a.d, 4)
    /\ dpb.display = <<>> => a.result # "NO_FRAME_BUFFER"
    /\ GarbledAhead
       /\ (~HasGarbled(stream[Requested]) \/ a.result = "NO_FRAME_BUFFER")
       => StaleFew(a)

\* A time stamp is put in the list (h265.c:887).
LEMMA AddPtsIs ==
    ASSUME NEW c, SoundContext(c), NEW d, Sound(d), NEW nPts, NEW t,
           t = HevcDecoderAddPtsToList([c |-> c, d |-> d], nPts)
    PROVE  /\ SoundContext(t.c) /\ t.c.eDecodStep = c.eDecodStep
           /\ t.c.SliceHeader = c.SliceHeader
           /\ Sound(t.d) /\ t.d.held = d.held /\ t.d.display = d.display
           /\ WaitingBuffers(t.d) = WaitingBuffers(d)
           /\ \A n : Lags(d, n) => Lags(t.d, n)
<1> DEFINE s == [c |-> c, d |-> d]
           list == IF Cardinality(d.PtsList) < PtsListSize
                   THEN d.PtsList \cup {nPts} ELSE d.PtsList
           e == [d EXCEPT !.PtsList = list]
           x == [c EXCEPT !.nLastPts = nPts]
<1>1. DOMAIN d = DpbFields /\ DOMAIN c = ContextFields
  BY DEF Sound, SoundShape, SoundContext
<1>2. t.c = x /\ t.d = e
  <2>1. t = [s EXCEPT !.c.nLastPts = nPts,
                      !.d.PtsList = IF Cardinality(@) < PtsListSize
                                    THEN @ \cup {nPts} ELSE @]
    BY DEF HevcDecoderAddPtsToList
  <2> QED
    BY <2>1
<1> HIDE DEF list
<1>3. /\ DOMAIN e = DpbFields /\ e.pCurrDPB = d.pCurrDPB /\ e.DPB = d.DPB
      /\ e.nSeqDecode = d.nSeqDecode /\ e.nSeqOutput = d.nSeqOutput
      /\ e.Rps = d.Rps /\ e.held = d.held /\ e.display = d.display
  BY <1>1 DEF DpbFields
<1>4. SoundContext(x) /\ x.eDecodStep = c.eDecodStep
      /\ x.SliceHeader = c.SliceHeader
  BY <1>1 DEF SoundContext, ContextFields
<1> HIDE DEF e, x
<1>5. SoundShape(e)
  BY <1>1, <1>3 DEF Sound, SoundShape
<1>6. /\ Sound(e) /\ WaitingBuffers(e) = WaitingBuffers(d)
      /\ \A n : Lags(d, n) => Lags(e, n)
  BY <1>3, <1>5, SameFrames
<1> QED
  BY <1>2, <1>3, <1>4, <1>6, Zenon

\* A call that decodes its access unit.
LEMMA AttemptIs ==
    ASSUME Kept, ~OutputDue(dpb, FALSE), Requested \in DOMAIN stream,
           h.eDecodStep # "REOPEN", NEW a, a = Attempt
    PROVE  Attempted(a)
<1> DEFINE u == stream[Requested]
           e == [h EXCEPT !.eDecodStep = "DECODE_FRAME"]
           s == [c |-> e, d |-> d0]
           f == HevcDecoderAddPtsToList(s, Picture(u).ord)
           t == IF pCurStreamFrame = 0 THEN f ELSE s
           c == t.c
           d == t.d
<1>1. /\ SoundContext(h) /\ Sound(dpb) /\ Lags(dpb, 4) /\ StreamOK
      /\ FewAhead
  BY DEF Kept
<1>2. /\ SoundContext(e) /\ e.eDecodStep = "DECODE_FRAME"
      /\ e.SliceHeader = h.SliceHeader
  BY <1>1, StepIs
<1> HIDE DEF e
<1>3. /\ After(dpb, d0) /\ Lags(d0, 0) /\ d0.display = dpb.display
      /\ Cardinality(WaitingSlots(d0)) <= nMaxNumReoderPics
      /\ Sound(d0)
  BY <1>1, NotDueIs DEF d0, After
<1>4. FewWait(d0)
  <2>1. WaitingSlots(d0) \in SUBSET Slots
    BY DEF WaitingSlots
  <2>2. /\ Cardinality(WaitingBuffers(d0)) <= Cardinality(WaitingSlots(d0))
        /\ Cardinality(WaitingBuffers(d0)) \in Nat
        /\ Cardinality(WaitingSlots(d0)) \in Nat
    BY <2>1, ImageCount DEF WaitingBuffers
  <2> QED
    BY <1>3, <2>2, DpbAssumption DEF FewWait
<1>5. \A x \in {f, s} :
         /\ SoundContext(x.c) /\ x.c.eDecodStep = "DECODE_FRAME"
         /\ x.c.SliceHeader = h.SliceHeader
         /\ Sound(x.d) /\ x.d.held = d0.held /\ x.d.display = d0.display
         /\ WaitingBuffers(x.d) = WaitingBuffers(d0)
         /\ \A n : Lags(d0, n) => Lags(x.d, n)
  <2>1. /\ SoundContext(f.c) /\ f.c.eDecodStep = e.eDecodStep
        /\ f.c.SliceHeader = e.SliceHeader
        /\ Sound(f.d) /\ f.d.held = d0.held /\ f.d.display = d0.display
        /\ WaitingBuffers(f.d) = WaitingBuffers(d0)
        /\ \A n : Lags(d0, n) => Lags(f.d, n)
    BY <1>2, <1>3, AddPtsIs
  <2>2. s.c = e /\ s.d = d0
    OBVIOUS
  <2> HIDE DEF f, s
  <2> QED
    BY <1>2, <1>3, <2>1, <2>2
<1>6. a = HevcDecDecodeOneFrame(c, d, u)
  BY DEF Attempt, e
<1>7. t \in {f, s}
  OBVIOUS
<1> HIDE DEF f, s, t
<1>8. /\ SoundContext(c) /\ c.eDecodStep = "DECODE_FRAME"
      /\ c.SliceHeader = h.SliceHeader
      /\ Sound(d) /\ Lags(d, 0) /\ FewWait(d) /\ d.display = dpb.display
      /\ d.held = d0.held
  BY <1>3, <1>4, <1>5, <1>7 DEF FewWait
<1> HIDE DEF c
<1>9. Few(dpb) => Few(d)
  BY <1>1, <1>3, <1>8, AfterHeld DEF Few
<1> HIDE DEF d, u
<1>10. /\ UnitOK(u)
       /\ HasGarbled(u) => IsWhole(u) /\ GarbledAhead
       /\ GarbledAhead => IsWhole(u)
  BY <1>1 DEF StreamOK, GarbledAhead, Requested, u
<1>11. Decoded(c, d, u, a)
  BY <1>6, <1>10, <1>8, DecodedIs
<1>12. Stale(c) <=> Stale(h)
  BY <1>8 DEF Stale
<1>13. GarbledAhead => (Stale(c) => Few(d))
  BY <1>1, <1>9, <1>12 DEF FewAhead
<1>14. dpb.display = <<>> => a.result # "NO_FRAME_BUFFER"
  BY <1>10, <1>11, <1>13, <1>8 DEF Decoded
<1>15. GarbledAhead
       /\ (~HasGarbled(stream[Requested]) \/ a.result = "NO_FRAME_BUFFER")
       => StaleFew(a)
  BY <1>10, <1>11, <1>13 DEF Decoded, u
<1>16. SoundCall(a) /\ Lags(a.d, 4)
  BY <1>11 DEF Decoded
<1> QED
  BY <1>14, <1>15, <1>16, Zenon DEF Attempted

\* An action that leaves the decoder's pictures alone but for their output.
LEMMA KeptBy ==
    ASSUME Kept, SoundContext(h)', h'.eDecodStep \in Steps,
           Sound(dpb)', Lags(dpb, 4)', UNCHANGED <<stream, fault>>,
           next' \in Nat \ {0}, pCurStreamFrame' \in 0 .. Len(stream'),
           h'.eDecodStep = "DECODE_FRAME" <=> pCurStreamFrame' # 0,
           FewAhead'
    PROVE  Kept'
<1>1. StreamOK'
  BY DEF Kept, StreamOK
<1> QED
  BY <1>1 DEF Kept

\* Pictures are output, or given back.
LEMMA DisplayKept ==
    ASSUME Kept, UNCHANGED <<streamVars, h, faultVars>>,
           Sound(dpb)', Lags(dpb, 4)', Few(dpb) => Few(dpb)'
    PROVE  Kept'
<1>1. UNCHANGED <<stream, fault, next, pCurStreamFrame, h>>
  BY DEF streamVars, faultVars
<1>2. GarbledAhead' <=> GarbledAhead
  BY <1>1 DEF GarbledAhead, Requested
<1>3. FewAhead'
  BY <1>1, <1>2 DEF Kept, FewAhead
<1> QED
  BY <1>1, <1>3, KeptBy DEF Kept

\* A call that only outputs a picture keeps the invariant,
LEMMA OutputPictureKeeps == ASSUME Kept, OutputPicture PROVE Kept'
<1>1. PICK no \in BOOLEAN : no = FALSE
  OBVIOUS
<1>2. dpb' = HevcOutputFrame(dpb, no)
  BY <1>1, Zenon DEF OutputPicture
<1>3. Sound(dpb) /\ Lags(dpb, 4)
  BY DEF Kept
<1>4. After(dpb, dpb')
  BY <1>2, <1>3, OutputFrameAfter
<1>5. Sound(dpb)' /\ Lags(dpb, 4)'
  BY <1>3, <1>4 DEF After
<1>6. Few(dpb) => Few(dpb)'
  BY <1>3, <1>4, AfterHeld
<1> QED
  BY <1>5, <1>6, DisplayKept DEF OutputPicture

\* The pictures when the call goes on.
LEMMA GoOnIs ==
    ASSUME Kept
    PROVE  After(dpb, d0) /\ Sound(d0) /\ Lags(d0, 4)
<1>1. PICK no \in BOOLEAN : no = FALSE
  OBVIOUS
<1>2. d0 = HevcOutputFrame(dpb, no)
  BY <1>1, Zenon DEF d0
<1>3. Sound(dpb) /\ Lags(dpb, 4)
  BY DEF Kept
<1>4. After(dpb, d0)
  BY <1>2, <1>3, OutputFrameAfter
<1> QED
  BY <1>3, <1>4 DEF After

\* ... one that finds no more data,
LEMMA EndOfStreamKeeps == ASSUME Kept, EndOfStream PROVE Kept'
<1>1. After(dpb, d0) /\ Sound(d0) /\ Lags(d0, 4) /\ Sound(dpb)
  BY GoOnIs DEF Kept
<1>2. After(d0, dpb')
  BY <1>1, OutputAllAfter DEF EndOfStream
<1>3. Sound(dpb)' /\ Lags(dpb, 4)'
  BY <1>1, <1>2 DEF After
<1>4. Few(dpb) => Few(dpb)'
  BY <1>1, <1>2, AfterHeld
<1> QED
  BY <1>3, <1>4, DisplayKept DEF EndOfStream

\* ... and the player that returns a picture.
LEMMA ReturnPictureKeeps == ASSUME Kept, ReturnPicture PROVE Kept'
<1>1. Sound(dpb) /\ Lags(dpb, 4) /\ dpb.display \in Seq(Buffers)
      /\ dpb.display # <<>> /\ DOMAIN dpb = DpbFields
  BY DEF Kept, ReturnPicture, Sound, SoundShape
<1> DEFINE rest == Tail(dpb.display)
<1>2. rest \in Seq(Buffers)
  BY <1>1
<1> HIDE DEF rest
<1>3. dpb' = [dpb EXCEPT !.display = rest]
  BY DEF ReturnPicture, rest
<1>4. /\ DOMAIN dpb' = DpbFields /\ dpb'.pCurrDPB = dpb.pCurrDPB
      /\ dpb'.DPB = dpb.DPB
      /\ dpb'.nSeqDecode = dpb.nSeqDecode /\ dpb'.nSeqOutput = dpb.nSeqOutput
      /\ dpb'.Rps = dpb.Rps /\ dpb'.held = dpb.held /\ dpb'.display = rest
  BY <1>1, <1>3 DEF DpbFields
<1>5. SoundShape(dpb')
  BY <1>1, <1>2, <1>4 DEF Sound, SoundShape
<1>6. Sound(dpb') /\ Lags(dpb', 4)
  BY <1>1, <1>4, <1>5, SameFrames
<1>7. Few(dpb) => Few(dpb')
  BY <1>4 DEF Few
<1> QED
  BY <1>6, <1>7, DisplayKept DEF ReturnPicture

\* All pictures are given up.
LEMMA ResetPicturesIs ==
    ASSUME NEW d, Sound(d), Lags(d, 4), NEW e, e = ResetPictures(d)
    PROVE  Sound(e) /\ Lags(e, 4) /\ Few(e)
<1> DEFINE r == HevcResetClearRefs(d)
<1>1. Trimmed(d, r) /\ r.held = {}
  BY ResetClearRefsIs
<1>2. e = [r EXCEPT !.PtsList = {}, !.Rps = NoRps]
  BY DEF ResetPictures
<1> HIDE DEF r
<1>3. Sound(r) /\ Lags(r, 4) /\ SoundShape(r) /\ DOMAIN r = DpbFields
  <2>1. After(d, r)
    BY <1>1 DEF Trimmed
  <2>2. Sound(r) /\ Lags(r, 4)
    BY <2>1 DEF After
  <2> QED
    BY <2>2 DEF Sound, SoundShape
<1>4. /\ DOMAIN e = DpbFields /\ e.pCurrDPB = r.pCurrDPB /\ e.DPB = r.DPB
      /\ e.nSeqDecode = r.nSeqDecode /\ e.nSeqOutput = r.nSeqOutput
      /\ e.Rps = NoRps /\ e.held = r.held /\ e.display = r.display
  BY <1>2, <1>3 DEF DpbFields
<1>5. DOMAIN NoRps = RpsLists /\ \A l \in RpsLists : NoRps[l] \in Seq(Slots)
  BY DEF NoRps
<1>6. SoundShape(e)
  BY <1>3, <1>4, <1>5 DEF SoundShape
<1>7. Sound(e) /\ Lags(e, 4)
  BY <1>3, <1>4, <1>6, SameFrames
<1>8. Cardinality(e.held) = 0
  BY <1>1, <1>4, FS_EmptySet
<1> QED
  BY <1>7, <1>8, DpbAssumption DEF Few

\* HevcResetDecoder leaves a sound context.
LEMMA ResetContextIs ==
    ASSUME NEW c, SoundContext(c), NEW e, e = ResetContext(c)
    PROVE  SoundContext(e) /\ e.eDecodStep = "REQUEST_STREAM"
<1> DEFINE x == c.SliceHeader
           s == [x.short EXCEPT !.null = TRUE]
           y == [x EXCEPT !.short = s]
<1>1. /\ DOMAIN c = ContextFields /\ SoundHeader(x)
      /\ DOMAIN x = {"first", "type", "short", "long"}
      /\ DOMAIN x.short = {"null", "list"} /\ HeaderFits(x.short, x.long)
  BY DEF SoundContext, SoundHeader
<1>2. e = [c EXCEPT !.eDecodStep = "REQUEST_STREAM",
                    !.bFindKeyFrameOnly = TRUE,
                    !.nSqueueFramePocList = {}, !.SliceHeader = y,
                    !.nLastPts = -1]
  BY <1>1 DEF ResetContext, ContextFields
<1>3. SoundHeader(y)
  <2>1. /\ DOMAIN y = {"first", "type", "short", "long"} /\ y.short = s
        /\ y.long = x.long
    BY <1>1
  <2>2. /\ DOMAIN s = {"null", "list"} /\ s.null = TRUE
        /\ s.list = x.short.list
    BY <1>1
  <2> HIDE DEF x, s, y
  <2>3. HeaderFits(s, x.long)
    BY <1>1, <2>2 DEF HeaderFits
  <2> QED
    BY <2>1, <2>2, <2>3 DEF SoundHeader
<1> HIDE DEF x, s, y
<1> QED
  BY <1>2, <1>3 DEF SoundContext, ContextFields

\* A seek keeps the invariant.
LEMMA ResetKeeps == ASSUME Kept, Reset PROVE Kept'
<1>1. /\ UNCHANGED <<stream, fault>> /\ h' = ResetContext(h)
      /\ \E k \in DOMAIN stream : next' = k
      /\ pCurStreamFrame' = 0
      /\ dpb' = [ResetPictures(dpb) EXCEPT !.shown = <<>>]
  BY DEF Reset
<1>2. /\ SoundContext(h) /\ Sound(dpb) /\ Lags(dpb, 4)
      /\ DOMAIN stream = 1 .. Len(stream) /\ Len(stream) \in Nat
  BY DEF Kept, StreamOK
<1>3. SoundContext(h') /\ h'.eDecodStep = "REQUEST_STREAM"
  BY <1>1, <1>2, ResetContextIs
<1> DEFINE r == ResetPictures(dpb)
<1>4. Sound(r) /\ Lags(r, 4) /\ Few(r)
  BY <1>2, ResetPicturesIs
<1>5. dpb' = [r EXCEPT !.shown = <<>>]
  BY <1>1
<1> HIDE DEF r
<1>6. DOMAIN r = DpbFields /\ SoundShape(r)
  BY <1>4 DEF Sound, SoundShape
<1>7. /\ DOMAIN dpb' = DpbFields /\ dpb'.pCurrDPB = r.pCurrDPB
      /\ dpb'.DPB = r.DPB
      /\ dpb'.nSeqDecode = r.nSeqDecode /\ dpb'.nSeqOutput = r.nSeqOutput
      /\ dpb'.Rps = r.Rps /\ dpb'.held = r.held /\ dpb'.display = r.display
  BY <1>5, <1>6 DEF DpbFields
<1>8. SoundShape(dpb')
  BY <1>6, <1>7 DEF SoundShape
<1>9. Sound(dpb') /\ Lags(dpb', 4)
  BY <1>4, <1>7, <1>8, SameFrames
<1>10. FewAhead'
  BY <1>4, <1>7 DEF FewAhead, Few
<1>11. /\ h'.eDecodStep \in Steps /\ next' \in Nat \ {0}
       /\ pCurStreamFrame' \in 0 .. Len(stream')
       /\ h'.eDecodStep = "DECODE_FRAME" <=> pCurStreamFrame' # 0
  BY <1>1, <1>2, <1>3 DEF Steps
<1> QED
  BY <1>1, <1>3, <1>9, <1>10, <1>11, KeptBy

\* What playback starts with.
LEMMA NewContextIs ==
    SoundContext(NewContext) /\ NewContext.eDecodStep = "REQUEST_STREAM"
<1>1. HeaderFits(NoHeader.short, NoHeader.long)
  <2>1. /\ DOMAIN NoHeader.short.list = 1 .. 0 /\ DOMAIN NoHeader.long = 1 .. 0
    BY DEF NoHeader
  <2>2. 0 + 0 + nMaxNumReoderPics < nFrameBuffers
    BY StreamsAssumption, DpbAssumption
  <2> QED
    BY <2>1, <2>2 DEF HeaderFits
<1>2. SoundHeader(NoHeader)
  BY <1>1 DEF SoundHeader, NoHeader
<1>3. DOMAIN NewContext = ContextFields
  BY DEF NewContext, ContextFields
<1>4. NewContext.SliceHeader = NoHeader
  BY DEF NewContext
<1>5. NewContext.nMaxRa \in Int
  BY IntMax DEF NewContext
<1> QED
  BY <1>2, <1>3, <1>4, <1>5 DEF SoundContext, NewContext

\* A decoder without pictures.
LEMMA EmptyDpbIs ==
    ASSUME NEW e, NEW x, e = [EmptyDpb EXCEPT !.shown = x]
    PROVE  Sound(e) /\ Lags(e, 4) /\ Few(e)
<1>1. /\ DOMAIN e = DpbFields /\ e.DPB = [i \in Slots |-> NoFrame]
      /\ e.pCurrDPB = 0 /\ e.Rps = NoRps /\ e.nSeqDecode = 0
      /\ e.nSeqOutput = 0 /\ e.held = {} /\ e.display = <<>>
  BY DEF EmptyDpb, DpbFields
<1>2. 0 \in Sequences
  BY DpbAssumption DEF Sequences
<1>3. DOMAIN NoRps = RpsLists /\ \A l \in RpsLists : NoRps[l] \in Seq(Slots)
  BY DEF NoRps
<1>4. SoundShape(e)
  <2>1. <<>> \in Seq(Buffers)
    OBVIOUS
  <2>2. e.display \in Seq(Buffers)
    BY <1>1, <2>1
  <2>3. DOMAIN e.Rps = RpsLists /\ \A l \in RpsLists : e.Rps[l] \in Seq(Slots)
    BY <1>1, <1>3
  <2>4. DOMAIN e.DPB = Slots
    BY <1>1
  <2> QED
    BY <1>1, <1>2, <2>2, <2>3, <2>4 DEF SoundShape
<1>5. SoundFrame(NoFrame) /\ NoFrame.pFbmBuffer = 0 /\ ~NoFrame.output
  BY <1>2 DEF SoundFrame, NoFrame, FrameFields
<1>6. \A i \in Slots : e.DPB[i] = NoFrame
  BY <1>1
<1>7. UsedSlots(e) = {} /\ OneOwner(e)
  BY <1>5, <1>6 DEF UsedSlots, OneOwner
<1>8. Sound(e)
  BY <1>1, <1>4, <1>5, <1>6, <1>7 DEF Sound, BuffersOf
<1>9. Lags(e, 4)
  <2>1. (0 + 0) % SeqModulus = 0
    BY DpbAssumption
  <2>2. e.nSeqDecode = (e.nSeqOutput + 0) % SeqModulus
    BY <1>1, <2>1
  <2>3. \A i \in Slots : ~e.DPB[i].output
    BY <1>5, <1>6
  <2>4. LagsBy(e, 0) /\ 0 \in 0 .. 4
    BY <2>2, <2>3 DEF LagsBy
  <2> QED
    BY <2>4 DEF Lags
<1>10. Few(e)
  <2>1. Cardinality(e.held) = 0
    BY <1>1, FS_EmptySet
  <2> QED
    BY <2>1, DpbAssumption DEF Few
<1> QED
  BY <1>8, <1>9, <1>10

\* Another decoder keeps the invariant.
LEMMA ReopenKeeps == ASSUME Kept, Reopen PROVE Kept'
<1>1. /\ UNCHANGED <<stream, fault, next, pCurStreamFrame>>
      /\ h' = NewContext /\ h.eDecodStep = "REOPEN"
      /\ dpb' = [EmptyDpb EXCEPT !.shown = dpb.shown]
  BY DEF Reopen, streamVars, faultVars
<1>2. Sound(dpb') /\ Lags(dpb', 4) /\ Few(dpb')
  BY <1>1, EmptyDpbIs
<1>3. /\ SoundContext(h') /\ h'.eDecodStep = "REQUEST_STREAM"
  BY <1>1, NewContextIs
<1>4. FewAhead'
  BY <1>2 DEF FewAhead
<1>5. /\ h'.eDecodStep \in Steps /\ next' \in Nat \ {0}
      /\ pCurStreamFrame' \in 0 .. Len(stream')
      /\ h'.eDecodStep = "DECODE_FRAME" <=> pCurStreamFrame' # 0
  BY <1>1, <1>3 DEF Kept, Steps
<1> QED
  BY <1>1, <1>2, <1>3, <1>4, <1>5, KeptBy

\* A call that decodes has an access unit.
LEMMA RequestedIs ==
    ASSUME Kept, CanDecode
    PROVE  /\ Requested \in DOMAIN stream /\ Requested \in Nat \ {0}
           /\ h.eDecodStep # "REOPEN" /\ ~OutputDue(dpb, FALSE)
           /\ Requested <= Len(stream)
<1>1. /\ Len(stream) \in Nat /\ DOMAIN stream = 1 .. Len(stream)
      /\ next \in Nat \ {0} /\ pCurStreamFrame \in 0 .. Len(stream)
      /\ h.eDecodStep = "DECODE_FRAME" <=> pCurStreamFrame # 0
  BY DEF Kept, StreamOK
<1> DEFINE n == Len(stream)
<1>2. ~OutputDue(dpb, FALSE) /\ h.eDecodStep # "REOPEN"
  BY DEF CanDecode
<1>3. Requested \in 1 .. n
  <2>1. \/ h.eDecodStep = "REQUEST_STREAM" /\ next <= n
        \/ h.eDecodStep = "DECODE_FRAME"
    BY DEF CanDecode
  <2>2. CASE h.eDecodStep = "REQUEST_STREAM" /\ next <= n
    <3>1. Requested = next
      BY <1>1, <2>2 DEF Requested
    <3> QED
      BY <1>1, <2>2, <3>1
  <2>3. CASE h.eDecodStep = "DECODE_FRAME"
    <3>1. pCurStreamFrame # 0 /\ Requested = pCurStreamFrame
      BY <1>1, <2>3 DEF Requested
    <3> QED
      BY <1>1, <3>1
  <2> QED
    BY <2>1, <2>2, <2>3
<1> HIDE DEF n
<1>4. n \in Nat
  BY <1>1 DEF n
<1>5. Requested \in Nat \ {0} /\ Requested <= n
  BY <1>3, <1>4
<1> QED
  BY <1>1, <1>2, <1>3, <1>5 DEF n

\* After a call that is done with its access unit...
LEMMA PassedKept ==
    ASSUME Kept, CanDecode, NEW a, Attempted(a),
           a.result # "NO_FRAME_BUFFER", Flush, fault' = fault,
           SoundContext(h)', Stale(h)' => Stale(a.c),
           h'.eDecodStep \in Steps \ {"DECODE_FRAME"},
           Sound(dpb)', Lags(dpb, 4)', Few(a.d) => Few(dpb)'
    PROVE  Kept'
<1>1. /\ stream' = stream /\ pCurStreamFrame' = 0 /\ next' = Requested + 1
      /\ Requested \in Nat \ {0} /\ Requested \in DOMAIN stream
      /\ Requested <= Len(stream) /\ StreamOK
  BY RequestedIs DEF Flush, Kept
<1>2. DOMAIN stream = 1 .. Len(stream) /\ Len(stream) \in Nat
  BY <1>1 DEF StreamOK
<1>3. ASSUME GarbledAhead' PROVE StaleFew(a)
  <2>1. PICK k \in DOMAIN stream : Requested + 1 <= k /\ HasGarbled(stream[k])
    BY <1>1, <1>3 DEF GarbledAhead, Requested
  <2>2. k # Requested /\ Requested <= k
    BY <1>1, <1>2, <2>1
  <2>3. ~HasGarbled(stream[Requested])
    BY <1>1, <2>1, <2>2 DEF StreamOK
  <2>4. GarbledAhead
    BY <2>1, <2>2 DEF GarbledAhead
  <2> QED
    BY <2>3, <2>4 DEF Attempted
<1>4. FewAhead'
  BY <1>3 DEF FewAhead, StaleFew
<1>5. /\ next' \in Nat \ {0} /\ pCurStreamFrame' \in 0 .. Len(stream')
      /\ h'.eDecodStep \in Steps
      /\ h'.eDecodStep = "DECODE_FRAME" <=> pCurStreamFrame' # 0
  BY <1>1, <1>2
<1> QED
  BY <1>1, <1>4, <1>5, KeptBy

\* ... one that lacks a buffer...
LEMMA NoFrameBufferKeeps ==
    ASSUME Kept, CanDecode, NEW a, Attempted(a), NoFrameBuffer(a)
    PROVE  Kept'
<1>1. /\ stream' = stream /\ fault' = fault /\ pCurStreamFrame' = Requested
      /\ next' = Requested + 1 /\ h' = a.c /\ dpb' = a.d
      /\ a.result = "NO_FRAME_BUFFER"
      /\ Requested \in Nat \ {0} /\ Requested \in DOMAIN stream
      /\ Requested <= Len(stream) /\ StreamOK
  BY RequestedIs DEF NoFrameBuffer, Kept, faultVars
<1>2. DOMAIN stream = 1 .. Len(stream) /\ Len(stream) \in Nat
  BY <1>1 DEF StreamOK
<1>3. SoundCall(a) /\ Lags(a.d, 4)
  BY DEF Attempted
<1>4. Requested' = Requested
  BY <1>1 DEF Requested
<1>5. GarbledAhead' <=> GarbledAhead
  BY <1>1, <1>4 DEF GarbledAhead
<1>6. FewAhead'
  BY <1>1, <1>5 DEF FewAhead, Attempted, StaleFew
<1>7. /\ SoundContext(h') /\ Sound(dpb') /\ Lags(dpb', 4)
      /\ h'.eDecodStep = "DECODE_FRAME"
  BY <1>1, <1>3 DEF SoundCall
<1>8. /\ next' \in Nat \ {0} /\ pCurStreamFrame' \in 0 .. Len(stream')
      /\ h'.eDecodStep \in Steps
      /\ h'.eDecodStep = "DECODE_FRAME" <=> pCurStreamFrame' # 0
  BY <1>1, <1>2, <1>7 DEF Steps
<1> QED
  BY <1>1, <1>6, <1>7, <1>8, KeptBy

\* ... and one that finds another size.
LEMMA SizeChangeKeeps ==
    ASSUME Kept, CanDecode, NEW a, Attempted(a), SizeChange(a)
    PROVE  Kept'
<1>1. /\ stream' = stream /\ fault' = fault /\ pCurStreamFrame' = 0
      /\ next' = Requested /\ h' = [a.c EXCEPT !.eDecodStep = "REOPEN"]
      /\ dpb' = HevcDecOutputAllPictures(a.d)
      /\ Requested \in Nat \ {0} /\ Len(stream) \in Nat
  BY RequestedIs DEF SizeChange, Kept, faultVars, StreamOK
<1>2. SoundContext(a.c) /\ Sound(a.d) /\ Lags(a.d, 4)
  BY DEF Attempted, SoundCall
<1>3. SoundContext(h') /\ h'.eDecodStep = "REOPEN"
  <2>1. PICK step \in {"REOPEN"} : h' = [a.c EXCEPT !.eDecodStep = step]
    BY <1>1
  <2>2. SoundContext(h') /\ h'.eDecodStep = step
    BY <1>2, <2>1, StepIs
  <2> QED
    BY <2>1, <2>2
<1>4. After(a.d, dpb')
  BY <1>1, <1>2, OutputAllAfter
<1>5. Sound(dpb') /\ Lags(dpb', 4)
  BY <1>2, <1>4 DEF After
<1>6. FewAhead'
  BY <1>3 DEF FewAhead
<1>7. /\ next' \in Nat \ {0} /\ pCurStreamFrame' \in 0 .. Len(stream')
      /\ h'.eDecodStep \in Steps
      /\ h'.eDecodStep = "DECODE_FRAME" <=> pCurStreamFrame' # 0
  BY <1>1, <1>3 DEF Steps
<1> QED
  BY <1>1, <1>3, <1>5, <1>6, <1>7, KeptBy

\* A call that decodes an access unit keeps the invariant, whatever comes of
\* it.
LEMMA DecodeFrameKeeps == ASSUME Kept, DecodeFrame PROVE Kept'
<1>1. CanDecode /\ Requested \in DOMAIN stream /\ h.eDecodStep # "REOPEN"
      /\ ~OutputDue(dpb, FALSE)
  BY RequestedIs DEF DecodeFrame
<1>2. PICK a : /\ a = Attempt
               /\ \/ SizeChange(a) \/ ResetIntra(a) \/ DropTheFrame(a)
                  \/ NoFrameBuffer(a) \/ Crash(a) \/ ProcessResult(a)
  BY DEF DecodeFrame
<1>3. Attempted(a)
  BY <1>1, <1>2, AttemptIs
<1>4. SoundContext(a.c) /\ Sound(a.d) /\ Lags(a.d, 4)
  BY <1>3 DEF Attempted, SoundCall
<1>5. CASE SizeChange(a)
  BY <1>1, <1>3, <1>5, SizeChangeKeeps
<1>6. CASE NoFrameBuffer(a)
  BY <1>1, <1>3, <1>6, NoFrameBufferKeeps
<1>7. CASE ResetIntra(a)
  <2>1. /\ a.result # "NO_FRAME_BUFFER" /\ Flush /\ fault' = fault
        /\ h' = ResetContext(a.c) /\ dpb' = ResetPictures(a.d)
    BY <1>7 DEF ResetIntra, faultVars
  <2>2. SoundContext(h') /\ h'.eDecodStep = "REQUEST_STREAM"
    BY <1>4, <2>1, ResetContextIs
  <2>3. Sound(dpb') /\ Lags(dpb', 4) /\ Few(dpb')
    BY <1>4, <2>1, ResetPicturesIs
  <2>4. /\ stream' = stream /\ pCurStreamFrame' = 0 /\ next' = Requested + 1
        /\ Requested \in Nat \ {0} /\ Len(stream) \in Nat
    BY <1>1, <2>1, RequestedIs DEF Flush, Kept, StreamOK
  <2>5. FewAhead'
    BY <2>3 DEF FewAhead
  <2>6. /\ next' \in Nat \ {0} /\ pCurStreamFrame' \in 0 .. Len(stream')
        /\ h'.eDecodStep \in Steps
        /\ h'.eDecodStep = "DECODE_FRAME" <=> pCurStreamFrame' # 0
    BY <2>2, <2>4 DEF Steps
  <2> QED
    BY <2>1, <2>2, <2>3, <2>4, <2>5, <2>6, KeptBy
<1>8. CASE DropTheFrame(a) \/ Crash(a)
  <2>1. PICK step \in {"REQUEST_STREAM", "CRASH"} :
            h' = [a.c EXCEPT !.eDecodStep = step]
    BY <1>8 DEF DropTheFrame, Crash
  <2>2. /\ a.result # "NO_FRAME_BUFFER" /\ Flush /\ fault' = fault
        /\ dpb' = a.d
    BY <1>8 DEF DropTheFrame, Crash, faultVars
  <2>3. /\ SoundContext(h') /\ h'.eDecodStep = step
        /\ h'.SliceHeader = a.c.SliceHeader
    BY <1>4, <2>1, StepIs
  <2>4. Stale(h') => Stale(a.c)
    BY <2>3 DEF Stale
  <2>5. h'.eDecodStep \in Steps \ {"DECODE_FRAME"}
    BY <2>1, <2>3 DEF Steps
  <2> QED
    BY <1>1, <1>3, <1>4, <2>2, <2>3, <2>4, <2>5, PassedKept
<1>9. CASE ProcessResult(a)
  <2>1. PICK isLate \in BOOLEAN :
            h' = [a.c EXCEPT !.eDecodStep = "REQUEST_STREAM",
                             !.bDropFrameAdaptiveEnable = isLate]
    BY <1>9 DEF ProcessResult
  <2>2. /\ a.result # "NO_FRAME_BUFFER" /\ Flush /\ fault' = fault
        /\ dpb' = HevcOutputFrame(a.d, FALSE)
    BY <1>9 DEF ProcessResult
  <2>3. /\ SoundContext(h') /\ h'.eDecodStep = "REQUEST_STREAM"
        /\ h'.SliceHeader = a.c.SliceHeader
    BY <1>4, <2>1 DEF SoundContext, ContextFields
  <2>4. Stale(h') => Stale(a.c)
    BY <2>3 DEF Stale
  <2>5. h'.eDecodStep \in Steps \ {"DECODE_FRAME"}
    BY <2>3 DEF Steps
  <2>6. PICK no \in BOOLEAN : no = FALSE
    OBVIOUS
  <2>7. dpb' = HevcOutputFrame(a.d, no)
    BY <2>2, <2>6, Zenon
  <2>8. After(a.d, dpb')
    BY <1>4, <2>7, OutputFrameAfter
  <2>9. Sound(dpb') /\ Lags(dpb', 4)
    BY <1>4, <2>8 DEF After
  <2>10. Few(a.d) => Few(dpb')
    BY <1>4, <2>8, AfterHeld
  <2> QED
    BY <1>1, <1>3, <2>2, <2>3, <2>4, <2>5, <2>9, <2>10, PassedKept
<1> QED
  BY <1>2, <1>5, <1>6, <1>7, <1>8, <1>9

----------------------------------------------------------------------------
(* The stream. *)

FitPictures == {p \in Pictures : SetFits(p)}

NalSet ==
    [kind : {"slice"}, p : FitPictures, first : BOOLEAN, last : BOOLEAN,
     garbled : BOOLEAN, error : BOOLEAN]
    \cup [kind : {"vps", "sps", "pps", "eos"}, p : FitPictures]

\* The NAL units of the stream are those of the section before.
LEMMA NalSetIs == ASSUME NEW n \in NalSet PROVE NalOK(n)
<1>1. /\ n.p \in FitPictures
      /\ n.kind \in {"slice", "vps", "sps", "pps", "eos"}
      /\ n.kind = "slice" => n.first \in BOOLEAN /\ n.garbled \in BOOLEAN
  BY DEF NalSet
<1> DEFINE p == n.p
           short == ShortTermRefSet(p.short)
<1>2. p \in Pictures /\ SetFits(p)
  BY <1>1 DEF FitPictures
<1>3. /\ p.sps \in Nat \ {0} /\ p.lsb \in Int /\ p.output \in BOOLEAN
      /\ p.long \in Seq([lsb : Nat, msb : BOOLEAN, cycle : Nat,
                         used : BOOLEAN])
  BY <1>2, SMTT(30) DEF Pictures
<1>4. /\ short \in Seq([delta : Int, used : BOOLEAN])
      /\ Len(short) + Len(p.long) + nMaxNumReoderPics < nFrameBuffers
  BY <1>2 DEF SetFits, RefSets
<1> HIDE DEF short
<1>5. HeaderFits([list |-> short], p.long)
  <2>1. /\ DOMAIN short = 1 .. Len(short) /\ Len(short) \in Nat
        /\ DOMAIN p.long = 1 .. Len(p.long) /\ Len(p.long) \in Nat
    BY <1>3, <1>4
  <2> QED
    BY <1>4, <2>1 DEF HeaderFits
<1>6. SoundNalu(n)
  BY <1>3, <1>5, Zenon DEF SoundNalu, short
<1> QED
  BY <1>1, <1>6, Zenon DEF NalOK

\* A key picture comes with parameter sets.
HasSets(u) ==
    HEVC_IS_KEYFRAME(Picture(u).type) =>
        \A kind \in SetKinds : \E j \in DOMAIN u : u[j].kind = kind

\* An access unit as it is coded.
CodedUnits ==
    {u \in Seq(NalSet) :
        /\ IsWhole(u) /\ ~HasGarbled(u) /\ HasSets(u)
        /\ \A i, j \in DOMAIN u :
              u[i].kind = "eos" /\ u[j].kind = "eos" => i = j}

\* The parts of a sequence of two...
LEMMA PairOf ==
    ASSUME NEW S, NEW a \in Seq(S), NEW b \in Seq(S), NEW u, u = a \o b
    PROVE  /\ u \in Seq(S) /\ Len(u) = Len(a) + Len(b)
           /\ \A j \in 1 .. Len(a) : u[j] = a[j]
           /\ \A j \in 1 .. Len(b) : u[Len(a) + j] = b[j]
           /\ Len(a) \in Nat /\ Len(b) \in Nat
           /\ DOMAIN u = 1 .. Len(u)
OBVIOUS

\* ... and of three.
LEMMA PartsOf ==
    ASSUME NEW S, NEW a \in Seq(S), NEW b \in Seq(S), NEW c \in Seq(S),
           NEW u, u = (a \o b) \o c
    PROVE  /\ u \in Seq(S) /\ Len(u) = Len(a) + Len(b) + Len(c)
           /\ \A j \in 1 .. Len(a) : u[j] = a[j]
           /\ \A j \in 1 .. Len(b) : u[Len(a) + j] = b[j]
           /\ \A j \in 1 .. Len(c) : u[Len(a) + Len(b) + j] = c[j]
<1> DEFINE ab == a \o b
<1>1. /\ ab \in Seq(S) /\ Len(ab) = Len(a) + Len(b)
      /\ \A j \in 1 .. Len(a) : ab[j] = a[j]
      /\ \A j \in 1 .. Len(b) : ab[Len(a) + j] = b[j]
      /\ Len(a) \in Nat /\ Len(b) \in Nat /\ Len(c) \in Nat
  BY PairOf
<1>2. u = ab \o c
  OBVIOUS
<1> HIDE DEF ab
<1>3. /\ u \in Seq(S) /\ Len(u) = Len(ab) + Len(c)
      /\ \A j \in 1 .. Len(ab) : u[j] = ab[j]
      /\ \A j \in 1 .. Len(c) : u[Len(ab) + j] = c[j]
  <2>1. ab \in Seq(S)
    BY <1>1
  <2>2. ASSUME NEW w, w = ab \o c
        PROVE  /\ w \in Seq(S) /\ Len(w) = Len(ab) + Len(c)
               /\ \A j \in 1 .. Len(ab) : w[j] = ab[j]
               /\ \A j \in 1 .. Len(c) : w[Len(ab) + j] = c[j]
    BY <2>1, <2>2, PairOf
  <2> QED
    BY <1>2, <2>2, Zenon
<1> DEFINE x == Len(a)
           y == Len(b)
           z == Len(c)
<1>4. /\ x \in Nat /\ y \in Nat /\ z \in Nat
      /\ Len(ab) = x + y /\ Len(u) = (x + y) + z
  BY <1>1, <1>3
<1> HIDE DEF x, y, z
<1>5. ASSUME NEW j \in 1 .. x PROVE u[j] = a[j]
  <2>1. j \in 1 .. x + y
    BY <1>4
  <2> QED
    BY <1>1, <1>3, <1>4, <2>1 DEF x
<1>6. ASSUME NEW j \in 1 .. y PROVE u[x + j] = b[j]
  <2>1. x + j \in 1 .. x + y
    BY <1>4
  <2>2. u[x + j] = ab[x + j]
    BY <1>3, <1>4, <2>1
  <2> QED
    BY <1>1, <2>2 DEF x, y
<1>7. ASSUME NEW j \in 1 .. z PROVE u[(x + y) + j] = c[j]
  BY <1>3, <1>4 DEF z
<1> QED
  BY <1>3, <1>4, <1>5, <1>6, <1>7 DEF x, y, z

\* The NAL units a picture is coded as.
LEMMA NalsOfPicture ==
    ASSUME NEW p \in FitPictures
    PROVE  /\ \A kind \in {"vps", "sps", "pps", "eos"} :
                 Other(kind, p) \in NalSet
           /\ \A first, last \in BOOLEAN : Slice(p, first, last) \in NalSet
BY DEF NalSet, Other, Slice

\* Parameter sets, slices of one picture and ends of sequences, in this order.
Laid(u, p, x, y) ==
    \A j \in DOMAIN u :
        /\ u[j].p = p
        /\ \/ j <= x /\ u[j].kind \in SetKinds
           \/ /\ x < j /\ u[j].kind = "slice" /\ ~u[j].garbled
              /\ u[j].first <=> j = x + 1
           \/ j = x + y + 1 /\ u[j].kind = "eos"

\* A place in one of three parts.
LEMMA PartOf ==
    ASSUME NEW x \in Nat, NEW y \in Nat, NEW z \in 0 .. 1,
           NEW j \in 1 .. x + y + z
    PROVE  \/ j \in 1 .. x /\ j <= x
           \/ \E i \in 1 .. y : x + i = j /\ x < j /\ (i = 1 <=> j = x + 1)
           \/ j = x + y + 1 /\ 1 \in 1 .. z
<1>1. CASE x < j /\ j <= x + y
  <2>1. /\ j - x \in 1 .. y /\ x + (j - x) = j
        /\ j - x = 1 <=> j = x + 1
    BY <1>1
  <2> QED
    BY <1>1, <2>1
<1>2. CASE x + y < j
  BY <1>2
<1> QED
  BY <1>1, <1>2

\* n parameter sets, slices and ends of a sequence of the picture p.
AllSets(s, n, p) == \A j \in 1 .. n : s[j].kind \in SetKinds /\ s[j].p = p
AllSlices(s, n, p) ==
    \A j \in 1 .. n : /\ s[j].kind = "slice" /\ s[j].p = p /\ ~s[j].garbled
                      /\ s[j].first <=> j = 1
WithSets(s, n, p) ==
    HEVC_IS_KEYFRAME(p.type) =>
        \A kind \in SetKinds : \E j \in 1 .. n : s[j].kind = kind
AllEnds(s, n, p) == \A j \in 1 .. n : s[j].kind = "eos" /\ s[j].p = p

\* One after the other.
Joined(u, a, b, c, x, y, z) ==
    /\ DOMAIN u = 1 .. x + y + z
    /\ \A j \in 1 .. x : u[j] = a[j]
    /\ \A j \in 1 .. y : u[x + j] = b[j]
    /\ \A j \in 1 .. z : u[x + y + j] = c[j]

\* The parts of an access unit, one after the other...
LEMMA LaidIs ==
    ASSUME NEW p, NEW a, NEW b, NEW c,
           NEW x \in Nat, NEW y \in Nat, NEW z \in 0 .. 1,
           AllSets(a, x, p), AllSlices(b, y, p), AllEnds(c, z, p),
           NEW u, Joined(u, a, b, c, x, y, z)
    PROVE  Laid(u, p, x, y)
<1>1. ASSUME NEW j \in DOMAIN u
      PROVE  /\ u[j].p = p
             /\ \/ j <= x /\ u[j].kind \in SetKinds
                \/ /\ x < j /\ u[j].kind = "slice" /\ ~u[j].garbled
                   /\ u[j].first <=> j = x + 1
                \/ j = x + y + 1 /\ u[j].kind = "eos"
  <2>1. \/ j \in 1 .. x /\ j <= x
        \/ \E i \in 1 .. y : x + i = j /\ x < j /\ (i = 1 <=> j = x + 1)
        \/ j = x + y + 1 /\ 1 \in 1 .. z
    BY PartOf DEF Joined
  <2>2. CASE j \in 1 .. x /\ j <= x
    <3>1. u[j] = a[j]
      BY <2>2 DEF Joined
    <3>2. a[j].kind \in SetKinds /\ a[j].p = p
      BY <2>2 DEF AllSets
    <3>3. u[j].kind \in SetKinds /\ u[j].p = p
      BY <3>1, <3>2
    <3> QED
      BY <2>2, <3>3, Zenon
  <2>3. CASE \E i \in 1 .. y : x + i = j /\ x < j /\ (i = 1 <=> j = x + 1)
    <3>1. PICK i \in 1 .. y : x + i = j /\ x < j /\ (i = 1 <=> j = x + 1)
      BY <2>3
    <3>2. u[x + i] = b[i]
      BY DEF Joined
    <3>3. /\ b[i].kind = "slice" /\ b[i].p = p /\ ~b[i].garbled
          /\ b[i].first <=> i = 1
      BY Zenon DEF AllSlices
    <3>4. /\ u[j].kind = "slice" /\ u[j].p = p /\ ~u[j].garbled
          /\ u[j].first <=> j = x + 1
      BY <3>1, <3>2, <3>3, Zenon
    <3> QED
      BY <3>1, <3>4, Zenon
  <2>4. CASE j = x + y + 1 /\ 1 \in 1 .. z
    <3>1. u[x + y + 1] = c[1]
      BY <2>4 DEF Joined
    <3>2. c[1].kind = "eos" /\ c[1].p = p
      BY <2>4 DEF AllEnds
    <3>3. u[j].kind = "eos" /\ u[j].p = p
      BY <2>4, <3>1, <3>2, Zenon
    <3> QED
      BY <2>4, <3>3, Zenon
  <2> QED
    BY <2>1, <2>2, <2>3, <2>4, Zenon
<1> QED
  BY <1>1, Zenon DEF Laid

\* ... make one as it is coded...
LEMMA LaidCoded ==
    ASSUME NEW p, NEW u \in Seq(NalSet), NEW x \in Nat, NEW y \in Nat \ {0},
           NEW z \in 0 .. 1, Len(u) = x + y + z, Laid(u, p, x, y), HasSets(u)
    PROVE  u \in CodedUnits
<1>1. DOMAIN u = 1 .. Len(u)
  OBVIOUS
<1>2. \A j \in DOMAIN u : j \in Int
  BY <1>1
<1> DEFINE f == x + 1
<1>3. f \in DOMAIN u /\ 1 \in DOMAIN u /\ f > x /\ f # x + y + 1
  BY <1>1
<1>4. u[f].kind = "slice" /\ u[f].first
  BY <1>3 DEF Laid
<1>5. ASSUME NEW j \in DOMAIN u
      PROVE  /\ u[j].p = u[1].p
             /\ u[j].kind = "slice" => f <= j /\ (j # f => ~u[j].first)
             /\ ~Garbled(u[j])
  <2>1. u[j].p = u[1].p
    BY <1>3 DEF Laid
  <2>2. u[j].kind = "slice" =>
           x < j /\ ~u[j].garbled /\ (u[j].first <=> j = f)
    BY DEF Laid, SetKinds
  <2>3. f <= j <=> x < j
    BY <1>2
  <2> QED
    BY <2>1, <2>2, <2>3, Zenon DEF Garbled
<1> HIDE DEF f
<1>6. IsWhole(u)
  BY <1>3, <1>4, <1>5 DEF IsWhole, Whole
<1>7. ~HasGarbled(u)
  BY <1>5 DEF HasGarbled
<1>8. \A i, j \in DOMAIN u : u[i].kind = "eos" /\ u[j].kind = "eos" => i = j
  BY DEF Laid, SetKinds
<1> QED
  BY <1>6, <1>7, <1>8 DEF CodedUnits

\* ... however long they are.
LEMMA PartsCoded ==
    ASSUME NEW p, NEW a \in Seq(NalSet), NEW b \in Seq(NalSet),
           NEW c \in Seq(NalSet), Len(b) # 0, Len(c) <= 1,
           AllSets(a, Len(a), p), AllSlices(b, Len(b), p),
           AllEnds(c, Len(c), p), WithSets(a, Len(a), p),
           NEW u, u = (a \o b) \o c
    PROVE  u \in CodedUnits
<1>1. /\ u \in Seq(NalSet) /\ Len(u) = Len(a) + Len(b) + Len(c)
      /\ \A j \in 1 .. Len(a) : u[j] = a[j]
      /\ \A j \in 1 .. Len(b) : u[Len(a) + j] = b[j]
      /\ \A j \in 1 .. Len(c) : u[Len(a) + Len(b) + j] = c[j]
  BY PartsOf
<1>2. PICK x, y, z : x = Len(a) /\ y = Len(b) /\ z = Len(c)
  BY Zenon
<1>3. x \in Nat /\ y \in Nat /\ y \in Nat \ {0} /\ z \in 0 .. 1
  BY <1>2
<1>4. Joined(u, a, b, c, x, y, z)
  <2>1. DOMAIN u = 1 .. x + y + z
    BY <1>1, <1>2
  <2> QED
    BY <1>1, <1>2, <2>1, Zenon DEF Joined
<1>5. AllSets(a, x, p) /\ AllSlices(b, y, p) /\ AllEnds(c, z, p)
  BY <1>2, Zenon
<1>6. Laid(u, p, x, y)
  BY <1>3, <1>4, <1>5, LaidIs
<1>7. Len(u) = x + y + z
  BY <1>1, <1>2
<1>8. Picture(u) = p
  BY <1>1, <1>3, <1>6, <1>7 DEF Laid, Picture
<1>9. HasSets(u)
  <2>1. \A j \in 1 .. Len(a) : u[j] = a[j] /\ j \in DOMAIN u
    BY <1>1
  <2> QED
    BY <1>8, <2>1, Zenon DEF HasSets, WithSets
<1> QED
  BY <1>1, <1>3, <1>6, <1>7, <1>9, LaidCoded

\* An access unit is coded as one picture.
LEMMA UnitIs ==
    ASSUME NEW p \in FitPictures
    PROVE  Unit(p) \in CodedUnits
<1>1. /\ Other("vps", p) \in NalSet /\ Other("sps", p) \in NalSet
      /\ Other("pps", p) \in NalSet /\ Other("eos", p) \in NalSet
      /\ Slice(p, TRUE, TRUE) \in NalSet /\ Slice(p, TRUE, FALSE) \in NalSet
      /\ Slice(p, FALSE, TRUE) \in NalSet
  BY NalsOfPicture, Zenon
<1>2. /\ Other("vps", p).kind \in SetKinds /\ Other("vps", p).p = p
      /\ Other("vps", p).kind = "vps" /\ Other("sps", p).kind = "sps"
      /\ Other("pps", p).kind = "pps"
      /\ Other("sps", p).kind \in SetKinds /\ Other("sps", p).p = p
      /\ Other("pps", p).kind \in SetKinds /\ Other("pps", p).p = p
      /\ Other("eos", p).kind = "eos" /\ Other("eos", p).p = p
  BY DEF Other, SetKinds
<1>3. \A first, last \in BOOLEAN :
         /\ Slice(p, first, last).kind = "slice"
         /\ Slice(p, first, last).p = p
         /\ Slice(p, first, last).garbled = FALSE
         /\ Slice(p, first, last).first = first
  BY DEF Slice
<1>4. PICK vps, sps, pps, eos, only, one, two :
          /\ vps = Other("vps", p) /\ sps = Other("sps", p)
          /\ pps = Other("pps", p) /\ eos = Other("eos", p)
          /\ only = Slice(p, TRUE, TRUE) /\ one = Slice(p, TRUE, FALSE)
          /\ two = Slice(p, FALSE, TRUE)
  BY Zenon
<1>5. /\ vps \in NalSet /\ sps \in NalSet /\ pps \in NalSet
      /\ eos \in NalSet /\ only \in NalSet /\ one \in NalSet
      /\ two \in NalSet
      /\ vps.kind \in SetKinds /\ vps.p = p /\ sps.kind \in SetKinds
      /\ sps.p = p /\ pps.kind \in SetKinds /\ pps.p = p
      /\ eos.kind = "eos" /\ eos.p = p
  BY <1>1, <1>2, <1>4, Zenon
<1>6. /\ only.kind = "slice" /\ only.p = p /\ ~only.garbled /\ only.first
      /\ one.kind = "slice" /\ one.p = p /\ ~one.garbled /\ one.first
      /\ two.kind = "slice" /\ two.p = p /\ ~two.garbled /\ ~two.first
  BY <1>3, <1>4, Zenon
<1> DEFINE a == IF HEVC_IS_KEYFRAME(p.type) THEN <<vps, sps, pps>> ELSE <<>>
           b == IF p.slices = 1 THEN <<only>> ELSE <<one, two>>
           c == IF p.eos THEN <<eos>> ELSE <<>>
<1>7. Unit(p) = (a \o b) \o c
  BY <1>4, Zenon DEF Unit
<1>8. a \in Seq(NalSet) /\ AllSets(a, Len(a), p)
      /\ WithSets(a, Len(a), p)
  <2>1. vps.kind = "vps" /\ sps.kind = "sps" /\ pps.kind = "pps"
    BY <1>2, <1>4, Zenon
  <2>2. CASE HEVC_IS_KEYFRAME(p.type)
    <3>1. /\ a = <<vps, sps, pps>> /\ a \in Seq(NalSet) /\ Len(a) = 3
          /\ a[1] = vps /\ a[2] = sps /\ a[3] = pps
      BY <1>5, <2>2
    <3>2. \A j \in 1 .. Len(a) : a[j] \in {vps, sps, pps}
      BY <3>1
    <3>3. 1 \in 1 .. Len(a) /\ 2 \in 1 .. Len(a) /\ 3 \in 1 .. Len(a)
      BY <3>1
    <3> HIDE DEF a
    <3>4. AllSets(a, Len(a), p)
      BY <1>5, <3>2 DEF AllSets
    <3>5. WithSets(a, Len(a), p)
      BY <2>1, <3>1, <3>3 DEF WithSets, SetKinds
    <3> QED
      BY <3>1, <3>4, <3>5
  <2>3. CASE ~HEVC_IS_KEYFRAME(p.type)
    BY <2>3 DEF AllSets, WithSets
  <2> QED
    BY <2>2, <2>3
<1>9. b \in Seq(NalSet) /\ Len(b) # 0 /\ AllSlices(b, Len(b), p)
  <2>1. CASE p.slices = 1
    <3>1. b = <<only>> /\ Len(b) = 1 /\ b \in Seq(NalSet)
      BY <1>5, <2>1
    <3>2. \A j \in 1 .. Len(b) : b[j] = only /\ j = 1
      BY <3>1
    <3> HIDE DEF b
    <3> QED
      BY <1>6, <3>1, <3>2 DEF AllSlices
  <2>2. CASE p.slices # 1
    <3>1. b = <<one, two>> /\ Len(b) = 2 /\ b \in Seq(NalSet)
      BY <1>5, <2>2
    <3>2. \A j \in 1 .. Len(b) : (b[j] = one /\ j = 1) \/ (b[j] = two /\ j = 2)
      BY <3>1
    <3> HIDE DEF b
    <3> QED
      BY <1>6, <3>1, <3>2 DEF AllSlices
  <2> QED
    BY <2>1, <2>2
<1>10. c \in Seq(NalSet) /\ Len(c) <= 1 /\ AllEnds(c, Len(c), p)
  BY <1>5 DEF AllEnds
<1> HIDE DEF a, b, c
<1>11. ASSUME NEW u, u = (a \o b) \o c PROVE u \in CodedUnits
  BY <1>8, <1>9, <1>10, <1>11, PartsCoded
<1> QED
  BY <1>7, <1>11, Zenon

\* A picture of a group fits as those of the stream do.
LEMMA PictureFits ==
    ASSUME NEW p \in FitPictures, NEW q \in FitPictures, NEW n \in Nat,
           NEW r, r = [p EXCEPT !.ord = @ + 100 * n, !.sps = q.sps]
    PROVE  r \in FitPictures
<1>1. p \in Pictures /\ q \in Pictures /\ SetFits(p)
  BY DEF FitPictures
<1>2. p.ord \in Nat /\ q.sps \in Nat \ {0}
  BY <1>1 DEF Pictures
<1>3. p.ord + 100 * n \in Nat
  BY <1>2
<1>4. r \in Pictures
  BY <1>1, <1>2, <1>3 DEF Pictures
<1>5. r.short = p.short /\ r.long = p.long
  BY <1>1 DEF Pictures
<1>6. SetFits(r)
  BY <1>1, <1>5, Zenon DEF SetFits
<1> QED
  BY <1>4, <1>6 DEF FitPictures

\* A group is coded picture by picture,
LEMMA CodedGroupIs ==
    ASSUME NEW groups \in Streams, NEW n \in DOMAIN groups,
           NEW s, s = CodedGroup(groups[n], n)
    PROVE  s \in Seq(CodedUnits)
<1> DEFINE group == groups[n]
<1>1. /\ groups \in Seq(Seq(Pictures)) /\ \A k \in DOMAIN group :
                                             SetFits(group[k])
  BY StreamsAssumption
<1>2. n \in Nat /\ group \in Seq(Pictures)
  BY <1>1
<1> HIDE DEF group
<1>3. /\ DOMAIN group = 1 .. Len(group) /\ Len(group) \in Nat
      /\ \A k \in DOMAIN group : group[k] \in Pictures
  BY <1>2
<1>4. \A k \in DOMAIN group : group[k] \in FitPictures
  BY <1>1, <1>3 DEF FitPictures
<1>5. ASSUME NEW k \in DOMAIN group
      PROVE  Unit([group[k] EXCEPT !.ord = @ + 100 * n,
                                   !.sps = group[1].sps]) \in CodedUnits
  <2>1. group[k] \in FitPictures /\ group[1] \in FitPictures
    BY <1>3, <1>4
  <2>2. ASSUME NEW r, r = [group[k] EXCEPT !.ord = @ + 100 * n,
                                           !.sps = group[1].sps]
        PROVE  Unit(r) \in CodedUnits
    <3>1. r \in FitPictures
      BY <1>2, <2>1, <2>2, PictureFits
    <3> QED
      BY <3>1, UnitIs
  <2> QED
    BY <2>2, Zenon
<1>6. s = [k \in DOMAIN group |->
             Unit([group[k] EXCEPT !.ord = @ + 100 * n,
                                   !.sps = group[1].sps])]
  BY DEF CodedGroup, group
<1>7. s \in [DOMAIN group -> CodedUnits]
  BY <1>5, <1>6, Zenon
<1> QED
  BY <1>3, <1>7

GroupLoop ==
    INSTANCE Loop WITH
        Step <- LAMBDA groups, s, n : s \o CodedGroup(groups[n], n),
        Good <- LAMBDA p, k, s : s \in Seq(CodedUnits)

\* ... and the stream group by group.
LEMMA CodedIs ==
    ASSUME NEW groups \in Streams
    PROVE  Coded(groups) \in Seq(CodedUnits)
<1> DEFINE all == [n \in DOMAIN groups |-> n]
<1>1. groups \in Seq(Seq(Pictures))
  BY StreamsAssumption
<1>2. DOMAIN all = 1 .. Len(groups) /\ Len(groups) \in Nat
  BY <1>1
<1>3. Coded(groups) = GroupLoop!Turns(groups, <<>>, all)
  BY DEF Coded, FoldLeft, MapThenFoldSet, GroupLoop!Turns, GroupLoop!Last, Max
<1>4. ASSUME NEW k \in 1 .. Len(groups), NEW s, s \in Seq(CodedUnits)
      PROVE  s \o CodedGroup(groups[all[k]], all[k]) \in Seq(CodedUnits)
  <2>1. all[k] = k /\ k \in DOMAIN groups
    BY <1>2
  <2>2. CodedGroup(groups[k], k) \in Seq(CodedUnits)
    BY <2>1, CodedGroupIs
  <2> HIDE DEF all
  <2>3. ASSUME NEW t, t \in Seq(CodedUnits)
        PROVE  s \o t \in Seq(CodedUnits)
    BY <1>4, <2>3
  <2> QED
    BY <2>1, <2>2, <2>3, Zenon
<1>5. <<>> \in Seq(CodedUnits)
  OBVIOUS
<1> HIDE DEF all
<1>6. GroupLoop!Turns(groups, <<>>, all) \in Seq(CodedUnits)
  BY <1>2, <1>4, <1>5, GroupLoop!TurnsReach, Zenon
<1> QED
  BY <1>3, <1>6

\* An access unit that has lost NAL units, or got some of the next.
OpenUnits == {u \in Seq(NalSet) : UnitOK(u) /\ ~HasGarbled(u)}

\* The first slice of a picture and the ends of sequences of u are at f, e, x.
Placed3(u, f, e, x) ==
    /\ f \in Nat \ {0} /\ e \in Nat \ {0} /\ x \in Nat \ {0}
    /\ \A j \in DOMAIN u :
          /\ u[j].kind = "slice" /\ u[j].first => j = f
          /\ u[j].kind = "eos" => j \in {e, x}

\* An access unit of NAL units as they are coded, by its places.
LEMMA UnitOKIs ==
    ASSUME NEW u \in Seq(NalSet)
    PROVE  UnitOK(u) <=> \E f, e, x : Placed3(u, f, e, x)
<1>1. DOMAIN u = 1 .. Len(u) /\ Len(u) \in Nat
      /\ \A j \in DOMAIN u : u[j] \in NalSet
  OBVIOUS
<1>2. \A j \in DOMAIN u : NalOK(u[j])
  BY <1>1, NalSetIs
<1>3. ASSUME NEW m \in Nat, NEW f \in Nat \ {0}, NEW e \in Nat \ {0},
             NEW x \in Nat \ {0},
             UnitLaid([u |-> u, m |-> m, f |-> f, e |-> e, x |-> x])
      PROVE  Placed3(u, f, e, x)
  BY <1>3 DEF UnitLaid, Placed3
<1>4. ASSUME NEW f, NEW e, NEW x, Placed3(u, f, e, x)
      PROVE  UnitOK(u)
  <2> DEFINE p == [u |-> u, m |-> Len(u), f |-> f, e |-> e, x |-> x]
  <2>1. /\ p.u = u /\ p.m = Len(u) /\ p.f = f /\ p.e = e /\ p.x = x
    OBVIOUS
  <2> HIDE DEF p
  <2>2. UnitLaid(p)
    BY <1>1, <1>2, <1>4, <2>1 DEF Placed3, UnitLaid
  <2> QED
    BY <1>1, <1>4, <2>2 DEF UnitOK, Placed3, p
<1> QED
  BY <1>3, <1>4 DEF UnitOK

\* What is coded has one first slice and one end of a sequence at most...
LEMMA CodedPlaced ==
    ASSUME NEW u \in CodedUnits
    PROVE  \E f, e : Placed3(u, f, e, e)
<1>1. /\ u \in Seq(NalSet) /\ IsWhole(u)
      /\ \A i, j \in DOMAIN u :
            u[i].kind = "eos" /\ u[j].kind = "eos" => i = j
  BY DEF CodedUnits
<1>2. DOMAIN u \subseteq Nat \ {0}
  BY <1>1
<1>3. PICK f \in DOMAIN u : Whole(u, f)
  BY <1>1 DEF IsWhole
<1>4. \A j \in DOMAIN u : u[j].kind = "slice" /\ u[j].first => j = f
  BY <1>3 DEF Whole
<1>5. \E e \in DOMAIN u : \A j \in DOMAIN u : u[j].kind = "eos" => j = e
  BY <1>1, <1>3
<1> QED
  BY <1>2, <1>3, <1>4, <1>5 DEF Placed3

\* ... and is an access unit the decoder can take.
LEMMA CodedOpen == CodedUnits \subseteq OpenUnits
<1> SUFFICES ASSUME NEW u \in CodedUnits PROVE u \in OpenUnits
  OBVIOUS
<1>1. u \in Seq(NalSet) /\ ~HasGarbled(u)
  BY DEF CodedUnits
<1>2. UnitOK(u)
  BY <1>1, CodedPlaced, UnitOKIs
<1> QED
  BY <1>1, <1>2 DEF OpenUnits

\* A stream that may have lost something,
LEMMA OpenStream ==
    ASSUME stream \in Seq(OpenUnits), fault # "garbled"
    PROVE  StreamOK
<1>1. /\ DOMAIN stream = 1 .. Len(stream) /\ Len(stream) \in Nat
      /\ \A k \in DOMAIN stream : stream[k] \in OpenUnits
  OBVIOUS
<1>2. \A k \in DOMAIN stream : UnitOK(stream[k]) /\ ~HasGarbled(stream[k])
  BY <1>1 DEF OpenUnits
<1> QED
  BY <1>1, <1>2 DEF StreamOK

\* ... and one that has not.
LEMMA CodedStream ==
    ASSUME stream \in Seq(CodedUnits), fault # "garbled"
    PROVE  StreamOK
<1>1. stream \in Seq(OpenUnits)
  BY CodedOpen
<1> QED
  BY <1>1, OpenStream

\* An element is taken out of a sequence.
LEMMA RemoveAtIs ==
    ASSUME NEW T, NEW s \in Seq(T), NEW k \in DOMAIN s,
           NEW r, r = RemoveAt(s, k)
    PROVE  /\ r \in Seq(T) /\ DOMAIN r = 1 .. Len(s) - 1
           /\ \A j \in DOMAIN r : /\ j < k => r[j] = s[j]
                                  /\ k <= j => r[j] = s[j + 1]
<1> DEFINE a == SubSeq(s, 1, k - 1)
           b == SubSeq(s, k + 1, Len(s))
           m == k - 1
<1>1. k \in 1 .. Len(s) /\ Len(s) \in Nat
  OBVIOUS
<1>2. /\ a \in Seq(T) /\ Len(a) = k - 1
      /\ \A j \in 1 .. k - 1 : a[j] = s[j]
  BY <1>1
<1>3. /\ b \in Seq(T) /\ Len(b) = Len(s) - k
      /\ \A j \in 1 .. Len(s) - k : b[j] = s[k + j]
  BY <1>1
<1>4. r = a \o b
  BY DEF RemoveAt
<1> HIDE DEF a, b
<1>5. /\ r \in Seq(T) /\ Len(r) = Len(s) - 1
      /\ \A j \in 1 .. Len(s) - 1 : r[j] = IF j <= m THEN a[j] ELSE b[j - m]
  <2>1. /\ r \in Seq(T) /\ Len(r) = Len(a) + Len(b)
        /\ \A j \in 1 .. Len(a) + Len(b) :
              r[j] = IF j <= Len(a) THEN a[j] ELSE b[j - Len(a)]
    <3>1. a \in Seq(T) /\ b \in Seq(T)
      BY <1>2, <1>3
    <3>2. /\ a \o b \in Seq(T) /\ Len(a \o b) = Len(a) + Len(b)
          /\ \A j \in 1 .. Len(a) + Len(b) :
                (a \o b)[j] = IF j <= Len(a) THEN a[j] ELSE b[j - Len(a)]
      BY <3>1, ConcatProperties, Zenon
    <3> QED
      BY <1>4, <3>2, Zenon
  <2>2. Len(a) + Len(b) = Len(s) - 1
    BY <1>1, <1>2, <1>3
  <2> QED
    BY <1>2, <2>1, <2>2
<1>6. m \in Nat /\ k = m + 1
  BY <1>1
<1> HIDE DEF m
<1>7. ASSUME NEW j \in 1 .. Len(s) - 1, k <= j
      PROVE  r[j] = s[j + 1]
  <2>1. j - m \in 1 .. Len(s) - k /\ k + (j - m) = j + 1 /\ ~(j <= m)
    BY <1>1, <1>6, <1>7
  <2>2. r[j] = b[j - m]
    BY <1>5, <2>1
  <2> QED
    BY <1>3, <2>1, <2>2
<1>8. ASSUME NEW j \in 1 .. Len(s) - 1, j < k
      PROVE  r[j] = s[j]
  <2>1. j \in 1 .. k - 1 /\ j <= m
    BY <1>1, <1>6, <1>8
  <2> QED
    BY <1>2, <1>5, <2>1
<1>9. DOMAIN r = 1 .. Len(s) - 1
  BY <1>5
<1> QED
  BY <1>1, <1>5, <1>7, <1>8, <1>9

\* A NAL unit is lost.
LEMMA LessOpen ==
    ASSUME NEW u \in OpenUnits, NEW k \in DOMAIN u,
           NEW v, v = RemoveAt(u, k)
    PROVE  v \in OpenUnits
<1>1. u \in Seq(NalSet) /\ UnitOK(u) /\ ~HasGarbled(u)
  BY DEF OpenUnits
<1>2. /\ v \in Seq(NalSet) /\ DOMAIN v = 1 .. Len(u) - 1
      /\ \A j \in DOMAIN v : /\ j < k => v[j] = u[j]
                             /\ k <= j => v[j] = u[j + 1]
  BY <1>1, RemoveAtIs
<1>3. DOMAIN u = 1 .. Len(u) /\ Len(u) \in Nat /\ k \in Nat \ {0}
  BY <1>1
<1>4. PICK f, e, x : Placed3(u, f, e, x)
  BY <1>1, UnitOKIs
<1> DEFINE Move(i) == IF i < k \/ i = 1 THEN i ELSE i - 1
<1>5. ASSUME NEW j \in DOMAIN v
      PROVE  \E i \in DOMAIN u : v[j] = u[i] /\ j = Move(i)
  <2>1. CASE j < k
    BY <1>2, <1>3, <2>1
  <2>2. CASE k <= j
    <3>1. j + 1 \in DOMAIN u /\ j = Move(j + 1)
      BY <1>2, <1>3, <2>2
    <3> QED
      BY <1>2, <2>2, <3>1
  <2> QED
    BY <1>2, <1>3, <2>1, <2>2
<1>6. \A i \in Nat \ {0} : Move(i) \in Nat \ {0}
  BY <1>3
<1> HIDE DEF Move
<1>7. Placed3(v, Move(f), Move(e), Move(x))
  BY <1>4, <1>5, <1>6 DEF Placed3
<1>8. ~HasGarbled(v)
  BY <1>1, <1>5 DEF HasGarbled
<1>9. UnitOK(v)
  BY <1>2, <1>7, UnitOKIs
<1> QED
  BY <1>2, <1>8, <1>9 DEF OpenUnits

\* A set of numbers up to n has a greatest one.
LEMMA GreatestIs ==
    ASSUME NEW n \in Nat, NEW X \in SUBSET (1 .. n), X # {}
    PROVE  Max(X) \in X
<1> DEFINE Top(Y) == \E x \in Y : \A y \in Y : x >= y
           T == {m \in 0 .. n : \A Y \in SUBSET (1 .. m) : Y # {} => Top(Y)}
<1>1. 0 \in T
  <2>1. \A Y \in SUBSET (1 .. 0) : Y = {}
    OBVIOUS
  <2>2. 0 \in 0 .. n
    OBVIOUS
  <2> HIDE DEF Top
  <2> QED
    BY <2>1, <2>2, Zenon
<1>2. ASSUME NEW m \in 0 .. n - 1, m \in T PROVE m + 1 \in T
  <2> SUFFICES ASSUME NEW Y \in SUBSET (1 .. m + 1), Y # {}
               PROVE  Top(Y)
    OBVIOUS
  <2>1. CASE m + 1 \in Y
    <3>1. \A y \in Y : m + 1 >= y
      OBVIOUS
    <3> QED
      BY <2>1, <3>1
  <2>2. CASE m + 1 \notin Y
    <3>1. Y \in SUBSET (1 .. m)
      BY <2>2
    <3> HIDE DEF Top
    <3> QED
      BY <1>2, <3>1
  <2> QED
    BY <2>1, <2>2
<1> HIDE DEF T
<1>3. 0 .. n \subseteq T
  BY <1>1, <1>2, UnitLoop!CountUp
<1>4. Top(X)
  BY <1>3, SMTT(30) DEF T
<1> QED
  BY <1>4 DEF Max

\* The first and the last slice of an access unit as it is coded.
LEMMA SlicesAre ==
    ASSUME NEW u \in CodedUnits
    PROVE  /\ Max(SliceAt(u)) \in DOMAIN u /\ u[Max(SliceAt(u))].kind = "slice"
           /\ Min(SliceAt(u)) \in DOMAIN u /\ Whole(u, Min(SliceAt(u)))
<1>1. u \in Seq(NalSet) /\ IsWhole(u)
  BY DEF CodedUnits
<1>2. DOMAIN u = 1 .. Len(u) /\ Len(u) \in Nat
  BY <1>1
<1>3. PICK f \in DOMAIN u : Whole(u, f)
  BY <1>1 DEF IsWhole
<1>4. /\ SliceAt(u) \in SUBSET (1 .. Len(u)) /\ f \in SliceAt(u)
      /\ \A j \in SliceAt(u) : f <= j
  BY <1>2, <1>3 DEF SliceAt, Whole
<1>5. Max(SliceAt(u)) \in SliceAt(u)
  BY <1>2, <1>4, GreatestIs
<1>6. Min(SliceAt(u)) = f
  <2>1. \A x \in SliceAt(u) : (\A y \in SliceAt(u) : x <= y) => x = f
    BY <1>4
  <2> QED
    BY <1>4, <2>1 DEF Min
<1> QED
  BY <1>3, <1>5, <1>6 DEF SliceAt

\* A slice that is garbled, or has an error.
LEMMA MarkedNal ==
    ASSUME NEW n \in NalSet, n.kind = "slice"
    PROVE  /\ [n EXCEPT !.garbled = TRUE] \in NalSet
           /\ [n EXCEPT !.error = TRUE] \in NalSet
           /\ [n EXCEPT !.garbled = TRUE].garbled = TRUE
           /\ [n EXCEPT !.garbled = TRUE].kind = "slice"
           /\ [n EXCEPT !.garbled = TRUE].p = n.p
           /\ [n EXCEPT !.garbled = TRUE].first = n.first
           /\ [n EXCEPT !.error = TRUE].kind = "slice"
           /\ [n EXCEPT !.error = TRUE].first = n.first
           /\ [n EXCEPT !.error = TRUE].garbled = n.garbled
BY DEF NalSet

\* An element of a sequence is another.
LEMMA PutIn ==
    ASSUME NEW T, NEW s \in Seq(T), NEW k \in DOMAIN s, NEW w \in T,
           NEW r, r = [s EXCEPT ![k] = w]
    PROVE  /\ r \in Seq(T) /\ DOMAIN r = DOMAIN s /\ Len(r) = Len(s)
           /\ r[k] = w /\ \A j \in DOMAIN s : j # k => r[j] = s[j]
OBVIOUS

\* A slice that stays where it is.
LEMMA MarkedOpen ==
    ASSUME NEW u \in CodedUnits, NEW i \in DOMAIN u, u[i].kind = "slice",
           NEW m \in NalSet, m.kind = "slice", m.first = u[i].first,
           m.garbled = u[i].garbled, NEW v, v = [u EXCEPT ![i] = m]
    PROVE  v \in OpenUnits
<1>1. u \in OpenUnits
  BY CodedOpen
<1>2. u \in Seq(NalSet) /\ UnitOK(u) /\ ~HasGarbled(u)
  BY <1>1 DEF OpenUnits
<1>3. /\ v \in Seq(NalSet) /\ DOMAIN v = DOMAIN u /\ v[i] = m
      /\ \A j \in DOMAIN u : j # i => v[j] = u[j]
  BY <1>2, PutIn
<1>4. \A j \in DOMAIN v : /\ v[j].kind = u[j].kind
                          /\ v[j].kind = "slice" =>
                                /\ v[j].first = u[j].first
                                /\ v[j].garbled = u[j].garbled
  BY <1>3
<1>5. \A f, e, x : Placed3(u, f, e, x) => Placed3(v, f, e, x)
  BY <1>3, <1>4 DEF Placed3
<1>6. UnitOK(v)
  BY <1>2, <1>3, <1>5, UnitOKIs
<1>7. ~HasGarbled(v)
  BY <1>2, <1>3, <1>4, Zenon DEF HasGarbled, Garbled
<1> QED
  BY <1>3, <1>6, <1>7 DEF OpenUnits

\* A slice with an error.
LEMMA ErrorOpen ==
    ASSUME NEW u \in CodedUnits, NEW i \in DOMAIN u, u[i].kind = "slice",
           NEW v, v = [u EXCEPT ![i] = [u[i] EXCEPT !.error = TRUE]]
    PROVE  v \in OpenUnits
<1>1. u[i] \in NalSet
  BY DEF CodedUnits
<1> DEFINE m == [u[i] EXCEPT !.error = TRUE]
<1>2. /\ m \in NalSet /\ m.kind = "slice" /\ m.first = u[i].first
      /\ m.garbled = u[i].garbled
  BY <1>1, MarkedNal
<1>3. v = [u EXCEPT ![i] = m]
  OBVIOUS
<1> HIDE DEF m
<1> QED
  BY <1>2, <1>3, MarkedOpen

\* A picture that says it has more references than there can be.
LEMMA ManyRefs ==
    ASSUME NEW p \in FitPictures, NEW q,
           q = [p EXCEPT !.lists[1].n = HEVC_MAX_REFS + 1]
    PROVE  q \in FitPictures
<1> DEFINE R == [n : Nat, mod : Seq(Nat)]
           n == HEVC_MAX_REFS + 1
           l == [p.lists EXCEPT ![1].n = n]
<1>1. p \in Pictures /\ SetFits(p) /\ p.lists \in Seq(R)
  <2>1. p \in Pictures /\ SetFits(p)
    BY DEF FitPictures
  <2> QED
    BY <2>1, SMTT(30) DEF Pictures
<1>2. n \in Nat
  BY DEF HEVC_MAX_REFS
<1>3. q = [p EXCEPT !.lists = l]
  <2> HIDE DEF n
  <2>1. q = [p EXCEPT !.lists[1].n = n]
    BY DEF n
  <2> QED
    BY <2>1
<1>4. l \in Seq(R)
  <2> DEFINE r == [p.lists[1] EXCEPT !.n = n]
  <2>1. l = [p.lists EXCEPT ![1] = r]
    OBVIOUS
  <2>2. ASSUME NEW x \in R PROVE [x EXCEPT !.n = n] \in R
    <3> HIDE DEF n
    <3> QED
      BY <1>2
  <2> HIDE DEF l, n, R
  <2>3. CASE 1 \in DOMAIN p.lists
    <3>1. p.lists[1] \in R
      BY <1>1, <2>3
    <3>2. r \in R
      BY <2>2, <3>1
    <3> HIDE DEF r
    <3> QED
      BY <1>1, <2>1, <2>3, <3>2, PutIn
  <2>4. CASE 1 \notin DOMAIN p.lists
    <3> HIDE DEF r
    <3>1. p.lists = <<>>
      <4>1. p.lists \in [1 .. Len(p.lists) -> R] /\ Len(p.lists) \in Nat
        BY <1>1
      <4> QED
        BY <2>4, <4>1
    <3>2. l = [j \in DOMAIN p.lists |-> IF j = 1 THEN r ELSE p.lists[j]]
      BY <2>1, Zenon
    <3>3. l = <<>>
      BY <3>1, <3>2
    <3> QED
      BY <3>3
  <2> QED
    BY <2>3, <2>4
<1> HIDE DEF l
<1>5. q \in Pictures
  <2> DEFINE S == [kind : {"sps"}, idx : Nat \ {0}]
                  \cup [kind : {"coded"},
                        neg : Seq([minus1 : Nat, used : BOOLEAN]),
                        pos : Seq([minus1 : Nat, used : BOOLEAN])]
                  \cup [kind : {"predicted"}, idx : Nat \ {0}, delta : Int,
                        flags : Seq([used : BOOLEAN, useDelta : BOOLEAN])]
             L == Seq([lsb : Nat, msb : BOOLEAN, cycle : Nat, used : BOOLEAN])
             M == Seq(R)
             W == Seq(Seq(Nat))
  <2>1. Pictures =
           [ord : Nat, type : STRING, tid : Nat, slice : {"I", "P", "B"},
            lsb : Nat, output : BOOLEAN, slices : {1, 2}, sps : Nat \ {0},
            eos : BOOLEAN, short : S, long : L, lists : M, want : W]
    BY Zenon DEF Pictures
  <2>2. l \in M
    BY <1>4
  <2> HIDE DEF S, L, M, W
  <2> QED
    BY <1>1, <1>3, <2>1, <2>2
<1> HIDE DEF R
<1>6. q.short = p.short /\ q.long = p.long
  BY <1>1, <1>3, SMTT(30) DEF Pictures
<1> QED
  BY <1>1, <1>5, <1>6 DEF FitPictures, SetFits

\* A slice that says so.
LEMMA RefsOpen ==
    ASSUME NEW u \in CodedUnits, NEW i \in DOMAIN u, u[i].kind = "slice",
           NEW p, p = [u[i].p EXCEPT !.lists[1].n = HEVC_MAX_REFS + 1],
           NEW m, m = [u[i] EXCEPT !.p = p], NEW v, v = [u EXCEPT ![i] = m]
    PROVE  v \in OpenUnits
<1>1. u[i] \in NalSet
  BY DEF CodedUnits
<1>2. u[i].p \in FitPictures
  BY <1>1 DEF NalSet
<1>3. p \in FitPictures
  BY <1>2, ManyRefs
<1>4. /\ m \in NalSet /\ m.kind = "slice" /\ m.first = u[i].first
      /\ m.garbled = u[i].garbled
  <2>1. \A n \in NalSet, q \in FitPictures :
           n.kind = "slice" =>
              /\ [n EXCEPT !.p = q] \in NalSet
              /\ [n EXCEPT !.p = q].kind = "slice"
              /\ [n EXCEPT !.p = q].first = n.first
              /\ [n EXCEPT !.p = q].garbled = n.garbled
    BY DEF NalSet
  <2> QED
    BY <1>1, <1>3, <2>1, Zenon
<1> QED
  BY <1>4, MarkedOpen

\* A first slice that is garbled.
LEMMA GarbledIs ==
    ASSUME NEW u \in CodedUnits, NEW f \in DOMAIN u, Whole(u, f),
           NEW v, v = [u EXCEPT ![f] = [u[f] EXCEPT !.garbled = TRUE]]
    PROVE  UnitOK(v) /\ IsWhole(v)
<1>1. u \in OpenUnits
  BY CodedOpen
<1>2. u \in Seq(NalSet) /\ UnitOK(u) /\ ~HasGarbled(u)
  BY <1>1 DEF OpenUnits
<1>3. u[f] \in NalSet /\ u[f].kind = "slice" /\ u[f].first
  BY <1>2 DEF Whole
<1> DEFINE m == [u[f] EXCEPT !.garbled = TRUE]
<1>4. /\ m \in NalSet /\ m.kind = "slice" /\ m.first = u[f].first
      /\ m.p = u[f].p
  BY <1>3, MarkedNal
<1> HIDE DEF m
<1>5. /\ v \in Seq(NalSet) /\ DOMAIN v = DOMAIN u /\ v[f] = m
      /\ \A j \in DOMAIN u : j # f => v[j] = u[j]
  BY <1>2, <1>4, PutIn DEF m
<1>6. \A j \in DOMAIN v : /\ v[j].kind = u[j].kind /\ v[j].p = u[j].p
                          /\ v[j].kind = "slice" => v[j].first = u[j].first
                          /\ Garbled(v[j]) => j = f
  <2>1. \A j \in DOMAIN u : ~Garbled(u[j])
    BY <1>2 DEF HasGarbled
  <2> QED
    BY <1>3, <1>4, <1>5, <2>1, Zenon
<1>7. \A x, e, y : Placed3(u, x, e, y) => Placed3(v, x, e, y)
  BY <1>5, <1>6 DEF Placed3
<1>8. UnitOK(v)
  BY <1>2, <1>5, <1>7, UnitOKIs
<1>9. Whole(v, f)
  <2>1. 1 \in DOMAIN u
    <3>1. DOMAIN u = 1 .. Len(u) /\ Len(u) \in Nat
      BY <1>2
    <3> QED
      BY <3>1
  <2>2. v[f].kind = "slice" /\ v[f].first
    BY <1>3, <1>4, <1>5, Zenon
  <2>3. ASSUME NEW j \in DOMAIN u
        PROVE  /\ v[j].p = v[1].p
               /\ v[j].kind = "slice" => f <= j /\ (j # f => ~v[j].first)
               /\ Garbled(v[j]) => j = f
    <3>1. v[j].p = v[1].p
      <4>1. u[j].p = u[1].p
        BY DEF Whole
      <4> QED
        BY <1>5, <1>6, <2>1, <4>1
    <3>2. v[j].kind = "slice" => f <= j /\ (j # f => ~v[j].first)
      <4>1. u[j].kind = "slice" => f <= j /\ (j # f => ~u[j].first)
        BY DEF Whole
      <4> QED
        BY <1>5, <1>6, <4>1, Zenon
    <3> QED
      BY <1>5, <1>6, <3>1, <3>2, Zenon
  <2> QED
    BY <1>5, <2>2, <2>3, Zenon DEF Whole
<1> QED
  BY <1>5, <1>8, <1>9 DEF IsWhole

\* The end of a sequence after k.
LEMMA EndOf ==
    ASSUME NEW T, NEW s \in Seq(T), NEW k \in 1 .. Len(s),
           NEW r, r = SubSeq(s, k + 1, Len(s))
    PROVE  /\ r \in Seq(T) /\ Len(r) = Len(s) - k
           /\ \A j \in 1 .. Len(r) : r[j] = s[k + j]
<1>1. r \in Seq(T) /\ Len(r) = Len(s) - k
  OBVIOUS
<1>2. ASSUME NEW j \in 1 .. Len(r) PROVE r[j] = s[k + j]
  <2>1. r[j] = s[k + 1 + j - 1]
    BY <1>1
  <2>2. k + 1 + j - 1 = k + j
    BY <1>1
  <2> QED
    BY <2>1, <2>2
<1> QED
  BY <1>1, <1>2

\* What is left of an access unit that has lost its first slice, behind the
\* one before.
LEMMA RestOpen ==
    ASSUME NEW t \in CodedUnits, NEW u \in CodedUnits, NEW f \in DOMAIN u,
           Whole(u, f), NEW r, r = SubSeq(u, f + 1, Len(u)),
           NEW v, v = t \o r
    PROVE  v \in OpenUnits
<1>1. /\ t \in Seq(NalSet) /\ ~HasGarbled(t)
      /\ u \in Seq(NalSet) /\ ~HasGarbled(u)
  BY DEF CodedUnits
<1>2. /\ DOMAIN u = 1 .. Len(u) /\ Len(u) \in Nat /\ f \in 1 .. Len(u)
      /\ DOMAIN t = 1 .. Len(t) /\ Len(t) \in Nat
  BY <1>1
<1>3. /\ r \in Seq(NalSet) /\ Len(r) = Len(u) - f
      /\ \A j \in 1 .. Len(r) : r[j] = u[f + j]
  BY <1>1, <1>2, EndOf
<1>4. PICK g, e : Placed3(t, g, e, e)
  BY CodedPlaced
<1>5. PICK i, x : Placed3(u, i, x, x)
  BY CodedPlaced
<1> DEFINE m == Len(t)
           n == Len(u) - f
           y == IF x > f THEN m + (x - f) ELSE 1
<1>6. /\ m \in Nat /\ n \in Nat /\ y \in Nat \ {0}
      /\ x \in Nat \ {0} /\ e \in Nat \ {0} /\ g \in Nat \ {0}
  BY <1>2, <1>4, <1>5, SMTT(30) DEF Placed3
<1>7. /\ v \in Seq(NalSet) /\ Len(v) = m + n
      /\ \A j \in 1 .. m : v[j] = t[j]
      /\ \A j \in 1 .. n : v[m + j] = r[j]
  BY <1>1, <1>3, PairOf
<1>8. DOMAIN v = 1 .. m + n
  BY <1>7
<1>9. \A j \in 1 .. n : v[m + j] = u[f + j]
  BY <1>3, <1>7
<1> HIDE DEF m, n, y
<1>10. ASSUME NEW j \in 1 .. n
       PROVE  /\ f + j \in DOMAIN u /\ f + j # f
              /\ u[f + j].kind = "eos" => m + j = y
  <2>1. f + j \in DOMAIN u /\ f + j # f /\ f + j > f
    BY <1>2 DEF n
  <2>2. u[f + j].kind = "eos" => f + j = x
    BY <1>5, <2>1 DEF Placed3
  <2>3. f + j = x => m + j = y
    BY <1>2, <1>6 DEF y
  <2> QED
    BY <2>1, <2>2, <2>3
<1>11. ASSUME NEW j \in 1 .. n
       PROVE  /\ v[m + j].kind = "slice" => ~v[m + j].first
              /\ ~Garbled(v[m + j])
              /\ v[m + j].kind = "eos" => m + j = y
  <2>1. u[f + j].kind = "slice" => ~u[f + j].first
    BY <1>10 DEF Whole
  <2>2. ~Garbled(u[f + j])
    BY <1>1, <1>10 DEF HasGarbled
  <2>3. v[m + j] = u[f + j]
    BY <1>9
  <2> QED
    BY <1>10, <2>1, <2>2, <2>3, Zenon
<1>12. ASSUME NEW j \in 1 .. m
       PROVE  /\ v[j].kind = "slice" /\ v[j].first => j = g
              /\ ~Garbled(v[j])
              /\ v[j].kind = "eos" => j = e
  <2>1. j \in DOMAIN t /\ v[j] = t[j]
    BY <1>2, <1>7 DEF m
  <2>2. ~Garbled(t[j])
    BY <1>1, <2>1 DEF HasGarbled
  <2>3. /\ t[j].kind = "slice" /\ t[j].first => j = g
        /\ t[j].kind = "eos" => j = e
    BY <1>4, <2>1 DEF Placed3
  <2> QED
    BY <2>1, <2>2, <2>3, Zenon
<1>13. \A j \in DOMAIN v : j \in 1 .. m \/ \E k \in 1 .. n : j = m + k
  <2> SUFFICES ASSUME NEW j \in DOMAIN v, j \notin 1 .. m
               PROVE  \E k \in 1 .. n : j = m + k
    OBVIOUS
  <2>1. j - m \in 1 .. n /\ j = m + (j - m)
    BY <1>6, <1>8, SMTT(30)
  <2> QED
    BY <2>1
<1>14. ASSUME NEW j \in DOMAIN v
       PROVE  /\ v[j].kind = "slice" /\ v[j].first => j = g
              /\ ~Garbled(v[j])
              /\ v[j].kind = "eos" => j \in {e, y}
  BY <1>11, <1>12, <1>13
<1>15. Placed3(v, g, e, y)
  BY <1>6, <1>14 DEF Placed3
<1>16. UnitOK(v) /\ ~HasGarbled(v)
  BY <1>7, <1>14, <1>15, UnitOKIs DEF HasGarbled
<1> QED
  BY <1>7, <1>16 DEF OpenUnits

\* What a fault of each kind makes of the stream.
HitMakes(s, k, kind, u, first, last, g) ==
    /\ kind = "picture" => g = RemoveAt(s, k)
    /\ kind = "burst" =>
          g = SubSeq(s, 1, k - 1) \o SubSeq(s, k + 3, Len(s))
    /\ kind = "tail" => g = [s EXCEPT ![k] = RemoveAt(u, last)]
    /\ kind = "head" =>
          g = RemoveAt([s EXCEPT ![k - 1] = s[k - 1]
                                  \o SubSeq(u, first + 1, Len(u))], k)
    /\ kind = "garbled" =>
          \E m : /\ m = [u[first] EXCEPT !.garbled = TRUE]
                 /\ \E w : w = [u EXCEPT ![first] = m]
                           /\ g = [s EXCEPT ![k] = w]
    /\ kind = "refs" =>
          \E p : /\ p = [u[first].p EXCEPT !.lists[1].n = HEVC_MAX_REFS + 1]
                 /\ \E m : /\ m = [u[first] EXCEPT !.p = p]
                           /\ \E w : w = [u EXCEPT ![first] = m]
                                     /\ g = [s EXCEPT ![k] = w]
    /\ kind = "error" =>
          \E m : /\ m = [u[last] EXCEPT !.error = TRUE]
                 /\ \E w : w = [u EXCEPT ![last] = m]
                           /\ g = [s EXCEPT ![k] = w]
    /\ kind \in SetKinds =>
          g = [s EXCEPT ![k] = RemoveAt(u,
                   CHOOSE j \in DOMAIN u : u[j].kind = kind)]

\* Hit, kind by kind.
LEMMA HitIs ==
    ASSUME NEW s, NEW k, NEW kind, NEW u, u = s[k],
           NEW first, first = Min(SliceAt(u)),
           NEW last, last = Max(SliceAt(u)),
           NEW g, g = Hit(s, kind, k)
    PROVE  HitMakes(s, k, kind, u, first, last, g)
<1> DEFINE picture == RemoveAt(s, k)
           burst == SubSeq(s, 1, k - 1) \o SubSeq(s, k + 3, Len(s))
           tail == [s EXCEPT ![k] = RemoveAt(s[k], last)]
           head == RemoveAt([s EXCEPT ![k - 1] = s[k - 1]
                                   \o SubSeq(s[k], first + 1, Len(s[k]))], k)
           garbled == [s EXCEPT ![k] = [s[k] EXCEPT ![first] =
                                [s[k][first] EXCEPT !.garbled = TRUE]]]
           refs == [s EXCEPT ![k] = [s[k] EXCEPT ![first] =
                       [s[k][first] EXCEPT !.p =
                           [s[k][first].p EXCEPT !.lists[1].n =
                                                    HEVC_MAX_REFS + 1]]]]
           error == [s EXCEPT ![k] = [s[k] EXCEPT ![last] =
                                [s[k][last] EXCEPT !.error = TRUE]]]
           set == [s EXCEPT ![k] = RemoveAt(s[k],
                          CHOOSE j \in DOMAIN s[k] : s[k][j].kind = kind)]
<1>1. Hit(s, kind, k) =
         CASE kind = "picture" -> picture
           [] kind = "burst" -> burst
           [] kind = "tail" -> tail
           [] kind = "head" -> head
           [] kind = "garbled" -> garbled
           [] kind = "refs" -> refs
           [] kind = "error" -> error
           [] kind \in SetKinds -> set
  BY Zenon DEF Hit
<1> HIDE DEF picture, burst, tail, head, garbled, refs, error, set
<1>2. /\ kind = "picture" => g = picture
      /\ kind = "burst" => g = burst
      /\ kind = "tail" => g = tail
      /\ kind = "head" => g = head
      /\ kind = "garbled" => g = garbled
      /\ kind = "refs" => g = refs
      /\ kind = "error" => g = error
      /\ kind \in SetKinds => g = set
  BY <1>1 DEF SetKinds
<1>3. /\ kind = "picture" => g = RemoveAt(s, k)
      /\ kind = "burst" =>
            g = SubSeq(s, 1, k - 1) \o SubSeq(s, k + 3, Len(s))
      /\ kind = "tail" => g = [s EXCEPT ![k] = RemoveAt(u, last)]
      /\ kind = "head" =>
            g = RemoveAt([s EXCEPT ![k - 1] = s[k - 1]
                                      \o SubSeq(u, first + 1, Len(u))], k)
  BY <1>2, Zenon DEF picture, burst, tail, head
<1>4. kind = "garbled" =>
         \E m : /\ m = [u[first] EXCEPT !.garbled = TRUE]
                /\ \E w : w = [u EXCEPT ![first] = m]
                          /\ g = [s EXCEPT ![k] = w]
  BY <1>2, Zenon DEF garbled
<1>5. kind = "error" =>
         \E m : /\ m = [u[last] EXCEPT !.error = TRUE]
                /\ \E w : w = [u EXCEPT ![last] = m]
                          /\ g = [s EXCEPT ![k] = w]
  BY <1>2, Zenon DEF error
<1>6. kind \in SetKinds =>
         g = [s EXCEPT ![k] = RemoveAt(u,
                  CHOOSE j \in DOMAIN u : u[j].kind = kind)]
  BY <1>2, Zenon DEF set
<1>7. kind = "refs" =>
         \E p : /\ p = [u[first].p EXCEPT !.lists[1].n = HEVC_MAX_REFS + 1]
                /\ \E m : /\ m = [u[first] EXCEPT !.p = p]
                          /\ \E w : w = [u EXCEPT ![first] = m]
                                    /\ g = [s EXCEPT ![k] = w]
  BY <1>2, Zenon DEF refs
<1> QED
  BY <1>3, <1>4, <1>5, <1>6, <1>7, Zenon DEF HitMakes

\* The stream with a fault.
LEMMA HitOpen ==
    ASSUME NEW s \in Seq(CodedUnits), NEW k \in DOMAIN s,
           NEW kind \in FaultKinds \ {"late", "garbled"}, CanHit(s, kind, k),
           NEW g, g = Hit(s, kind, k)
    PROVE  g \in Seq(OpenUnits)
<1> DEFINE u == s[k]
           first == Min(SliceAt(u))
           last == Max(SliceAt(u))
<1>1. /\ DOMAIN s = 1 .. Len(s) /\ Len(s) \in Nat
      /\ \A j \in DOMAIN s : s[j] \in CodedUnits
  OBVIOUS
<1>2. u \in CodedUnits /\ u \in OpenUnits /\ s \in Seq(OpenUnits)
  BY <1>1, CodedOpen
<1>3. /\ last \in DOMAIN u /\ u[last].kind = "slice"
      /\ first \in DOMAIN u /\ Whole(u, first)
  BY <1>2, SlicesAre
<1> HIDE DEF u, first, last
<1>0. HitMakes(s, k, kind, u, first, last, g)
  BY HitIs DEF u, first, last
<1>4. CASE kind = "picture"
  <2>1. g = RemoveAt(s, k)
    BY <1>4, <1>0, Zenon DEF HitMakes
  <2> QED
    BY <1>2, <2>1, RemoveAtIs
<1>5. CASE kind = "burst"
  <2>1. g = SubSeq(s, 1, k - 1) \o SubSeq(s, k + 3, Len(s))
    BY <1>5, <1>0, Zenon DEF HitMakes
  <2>2. k + 3 <= Len(s)
    BY <1>5 DEF CanHit, SetKinds
  <2>3. /\ SubSeq(s, 1, k - 1) \in Seq(OpenUnits)
        /\ SubSeq(s, k + 3, Len(s)) \in Seq(OpenUnits)
    BY <1>1, <1>2, <2>2
  <2>4. ASSUME NEW a \in Seq(OpenUnits), NEW b \in Seq(OpenUnits)
        PROVE  a \o b \in Seq(OpenUnits)
    OBVIOUS
  <2> QED
    BY <2>1, <2>3, <2>4, Zenon
<1>6. CASE kind = "tail"
  <2>1. g = [s EXCEPT ![k] = RemoveAt(u, last)]
    BY <1>6, <1>0, Zenon DEF HitMakes
  <2>2. RemoveAt(u, last) \in OpenUnits
    BY <1>2, <1>3, LessOpen
  <2> QED
    BY <1>2, <2>1, <2>2, PutIn
<1>7. CASE kind = "head"
  <2> DEFINE t == s[k - 1]
             r == SubSeq(u, first + 1, Len(u))
             z == [s EXCEPT ![k - 1] = t \o r]
  <2>1. g = RemoveAt(z, k)
    BY <1>7, <1>0, Zenon DEF HitMakes
  <2>2. k - 1 \in DOMAIN s
    BY <1>1, <1>7 DEF CanHit
  <2>3. t \in CodedUnits
    BY <1>1, <2>2
  <2> HIDE DEF t
  <2>4. t \o r \in OpenUnits
    BY <1>2, <1>3, <2>3, RestOpen
  <2> HIDE DEF r
  <2>5. z \in Seq(OpenUnits) /\ DOMAIN z = DOMAIN s
    BY <1>2, <2>2, <2>4, PutIn
  <2> HIDE DEF z
  <2> QED
    BY <2>1, <2>5, RemoveAtIs
<1>8. CASE kind = "error"
  <2>1. PICK m, v : /\ m = [u[last] EXCEPT !.error = TRUE]
                    /\ v = [u EXCEPT ![last] = m]
                    /\ g = [s EXCEPT ![k] = v]
    BY <1>8, <1>0, Zenon DEF HitMakes
  <2>2. v = [u EXCEPT ![last] = [u[last] EXCEPT !.error = TRUE]]
    BY <2>1, Zenon
  <2>3. v \in OpenUnits
    BY <1>2, <1>3, <2>2, ErrorOpen
  <2> QED
    BY <1>2, <2>1, <2>3, PutIn
<1>9. CASE kind \in SetKinds
  <2> DEFINE j == CHOOSE i \in DOMAIN u : u[i].kind = kind
  <2>1. g = [s EXCEPT ![k] = RemoveAt(u, j)]
    BY <1>9, <1>0, Zenon DEF HitMakes
  <2>2. HEVC_IS_KEYFRAME(Picture(u).type)
    BY <1>9 DEF CanHit, u, SetKinds
  <2>3. \E i \in DOMAIN u : u[i].kind = kind
    BY <1>2, <1>9, <2>2 DEF CodedUnits, HasSets
  <2>4. j \in DOMAIN u
    BY <2>3
  <2> HIDE DEF j
  <2>5. RemoveAt(u, j) \in OpenUnits
    BY <1>2, <2>4, LessOpen
  <2> QED
    BY <1>2, <2>1, <2>5, PutIn
<1>10. CASE kind = "refs"
  <2>1. PICK p :
            /\ p = [u[first].p EXCEPT !.lists[1].n = HEVC_MAX_REFS + 1]
            /\ \E m : /\ m = [u[first] EXCEPT !.p = p]
                      /\ \E w : w = [u EXCEPT ![first] = m]
                                /\ g = [s EXCEPT ![k] = w]
    BY <1>10, <1>0, Zenon DEF HitMakes
  <2>2. PICK m, v : /\ m = [u[first] EXCEPT !.p = p]
                    /\ v = [u EXCEPT ![first] = m]
                    /\ g = [s EXCEPT ![k] = v]
    BY <2>1, Zenon
  <2>3. u[first].kind = "slice"
    BY <1>3 DEF Whole
  <2>4. v \in OpenUnits
    BY <1>2, <1>3, <2>1, <2>2, <2>3, RefsOpen
  <2> QED
    BY <1>2, <2>2, <2>4, PutIn
<1>11. kind \in {"picture", "burst", "tail", "head", "refs", "error"}
                \cup SetKinds
  BY DEF FaultKinds, SetKinds
<1> QED
  BY <1>4, <1>5, <1>6, <1>7, <1>8, <1>9, <1>10, <1>11

\* The stream with a slice that is garbled.
LEMMA HitGarbled ==
    ASSUME NEW s \in Seq(CodedUnits), NEW k \in DOMAIN s,
           fault = "garbled", stream = Hit(s, fault, k)
    PROVE  StreamOK
<1> DEFINE u == s[k]
           f == Min(SliceAt(u))
<1>1. PICK m, v : /\ m = [u[f] EXCEPT !.garbled = TRUE]
                  /\ v = [u EXCEPT ![f] = m]
                  /\ stream = [s EXCEPT ![k] = v]
  <2>1. HitMakes(s, k, fault, u, f, Max(SliceAt(u)), stream)
    BY HitIs
  <2> HIDE DEF u, f
  <2> QED
    BY <2>1, Zenon DEF HitMakes
<1>2. u \in CodedUnits
  OBVIOUS
<1>3. f \in DOMAIN u /\ Whole(u, f)
  BY <1>2, SlicesAre
<1> HIDE DEF u, f
<1>4. UnitOK(v) /\ IsWhole(v)
  <2>1. v = [u EXCEPT ![f] = [u[f] EXCEPT !.garbled = TRUE]]
    BY <1>1, Zenon
  <2> QED
    BY <1>2, <1>3, <2>1, GarbledIs
<1>5. /\ DOMAIN stream = DOMAIN s /\ stream[k] = v
      /\ \A j \in DOMAIN s : j # k => stream[j] = s[j]
      /\ Len(s) \in Nat /\ DOMAIN s = 1 .. Len(s)
      /\ Len(stream) = Len(s)
  BY <1>1
<1>6. ASSUME NEW j \in DOMAIN s, j # k
      PROVE  UnitOK(s[j]) /\ IsWhole(s[j]) /\ ~HasGarbled(s[j])
  <2>1. s[j] \in CodedUnits
    OBVIOUS
  <2> QED
    BY <2>1, CodedOpen DEF CodedUnits, OpenUnits
<1>7. \A j \in DOMAIN stream : /\ UnitOK(stream[j]) /\ IsWhole(stream[j])
                               /\ HasGarbled(stream[j]) => j = k
  BY <1>4, <1>5, <1>6
<1> QED
  BY <1>5, <1>7 DEF StreamOK

\* The stream playback starts with.
LEMMA StreamIs ==
    ASSUME Init
    PROVE  StreamOK
<1>1. PICK groups \in Streams : \E s :
         /\ s = Coded(groups)
         /\ \/ /\ fault \in {"none"} \cup (Faults \cap {"late"})
               /\ stream = s
            \/ \E kind \in Faults \ {"late"}, k \in DOMAIN s :
                  /\ CanHit(s, kind, k)
                  /\ fault = kind /\ stream = Hit(s, kind, k)
  BY DEF Init
<1> DEFINE s == Coded(groups)
<1>2. s \in Seq(CodedUnits)
  BY <1>1, CodedIs
<1>3. CASE fault \in {"none"} \cup (Faults \cap {"late"}) /\ stream = s
  BY <1>2, <1>3, CodedStream
<1>4. ASSUME NEW kind \in Faults \ {"late"}, NEW k \in DOMAIN s,
             CanHit(s, kind, k), fault = kind, stream = Hit(s, kind, k)
      PROVE  StreamOK
  <2>1. CASE kind = "garbled"
    BY <1>2, <1>4, <2>1, HitGarbled
  <2>2. CASE kind # "garbled"
    <3>1. kind \in FaultKinds \ {"late", "garbled"}
      BY <2>2, StreamsAssumption
    <3>2. stream \in Seq(OpenUnits)
      BY <1>2, <1>4, <3>1, HitOpen
    <3> QED
      BY <1>4, <2>2, <3>2, OpenStream
  <2> QED
    BY <2>1, <2>2
<1> QED
  BY <1>1, <1>3, <1>4

\* The inductive invariant holds when playback starts...
LEMMA InitKept == Init => Kept
<1> SUFFICES ASSUME Init PROVE Kept
  OBVIOUS
<1>1. StreamOK
  BY StreamIs
<1>2. /\ next = 1 /\ pCurStreamFrame = 0 /\ h = NewContext /\ dpb = EmptyDpb
  BY DEF Init
<1>3. SoundContext(h) /\ h.eDecodStep = "REQUEST_STREAM"
  BY <1>2, NewContextIs
<1>4. Sound(dpb) /\ Lags(dpb, 4) /\ Few(dpb)
  <2>1. EmptyDpb = [EmptyDpb EXCEPT !.shown = EmptyDpb.shown]
    BY DEF EmptyDpb
  <2> QED
    BY <1>2, <2>1, EmptyDpbIs
<1>5. pCurStreamFrame \in 0 .. Len(stream) /\ next \in Nat \ {0}
  BY <1>1, <1>2 DEF StreamOK
<1>6. FewAhead
  BY <1>4 DEF FewAhead
<1> QED
  BY <1>1, <1>2, <1>3, <1>4, <1>5, <1>6 DEF Kept, Steps

\* ... and is kept by every step.
LEMMA NextKept == Kept /\ [Next]_vars => Kept'
<1> SUFFICES ASSUME Kept, [Next]_vars PROVE Kept'
  OBVIOUS
<1>1. CASE OutputPicture
  BY <1>1, OutputPictureKeeps
<1>2. CASE EndOfStream
  BY <1>2, EndOfStreamKeeps
<1>3. CASE DecodeFrame
  BY <1>3, DecodeFrameKeeps
<1>4. CASE Reopen
  BY <1>4, ReopenKeeps
<1>5. CASE Reset
  BY <1>5, ResetKeeps
<1>6. CASE ReturnPicture
  BY <1>6, ReturnPictureKeeps
<1>7. CASE UNCHANGED vars
  <2>1. UNCHANGED <<streamVars, h, faultVars>> /\ dpb' = dpb
    BY <1>7 DEF vars
  <2>2. Sound(dpb)' /\ Lags(dpb, 4)' /\ (Few(dpb) => Few(dpb)')
    <3>1. Sound(dpb) /\ Lags(dpb, 4)
      BY DEF Kept
    <3> QED
      BY <2>1, <3>1
  <2> QED
    BY <2>1, <2>2, DisplayKept
<1> QED
  BY <1>1, <1>2, <1>3, <1>4, <1>5, <1>6, <1>7 DEF Next

\* It says what the types are,
LEMMA KeptTypes == Kept => TypeOK
<1> SUFFICES ASSUME Kept PROVE TypeOK
  OBVIOUS
<1>1. /\ SoundContext(h) /\ h.eDecodStep \in Steps /\ Sound(dpb)
      /\ next \in Nat \ {0} /\ pCurStreamFrame \in 0 .. Len(stream)
      /\ h.eDecodStep = "DECODE_FRAME" <=> pCurStreamFrame # 0
  BY DEF Kept
<1>2. /\ {h.VpsList, h.SpsList, h.PpsList, h.pSps, h.pPps} \subseteq Nat
      /\ h.nMaxRa \in Int /\ h.nPoc \in Int /\ h.nPocTid0 \in Int
      /\ {h.bFindKeyFrameOnly, h.bErrorFrameFlag, h.ctuShort,
          h.bDropFrameAdaptiveEnable} \subseteq BOOLEAN
  BY <1>1 DEF SoundContext
<1>3. /\ SoundShape(dpb) /\ \A i \in Slots : SoundFrame(dpb.DPB[i])
      /\ dpb.held = BuffersOf(dpb, UsedSlots(dpb))
  BY <1>1 DEF Sound
<1>4. dpb.held \subseteq Buffers
  BY <1>3 DEF BuffersOf, UsedSlots, SoundFrame
<1>5. Range(dpb.display) \subseteq Buffers
  BY <1>3 DEF SoundShape, Range
<1>6. \A list \in DOMAIN dpb.Rps : Range(dpb.Rps[list]) \subseteq Slots
  <2> SUFFICES ASSUME NEW list \in DOMAIN dpb.Rps
               PROVE  Range(dpb.Rps[list]) \subseteq Slots
    OBVIOUS
  <2>1. dpb.Rps[list] \in Seq(Slots)
    BY <1>3 DEF SoundShape
  <2> QED
    BY <2>1 DEF Range
<1>7. /\ dpb.pCurrDPB \in {0} \cup Slots
      /\ {dpb.nSeqDecode, dpb.nSeqOutput} \subseteq 0..SeqModulus - 1
  BY <1>3 DEF SoundShape, Sequences
<1>8. \A i \in Slots : /\ dpb.DPB[i].pFbmBuffer \in {0} \cup Buffers
                       /\ dpb.DPB[i].ref \in {"", "short", "long"}
  BY <1>3 DEF SoundFrame
<1> QED
  BY <1>1, <1>2, <1>4, <1>5, <1>6, <1>7, <1>8, Zenon DEF TypeOK, Steps

\* ... who owns the buffers,
LEMMA KeptOwned == Kept => BuffersOwned
<1> SUFFICES ASSUME Kept PROVE BuffersOwned
  OBVIOUS
<1>1. dpb.held = BuffersOf(dpb, UsedSlots(dpb)) /\ OneOwner(dpb)
  BY DEF Kept, Sound
<1>2. /\ UsedSlots(dpb) \in SUBSET Slots
      /\ \A i, j \in UsedSlots(dpb) :
            dpb.DPB[i].pFbmBuffer = dpb.DPB[j].pFbmBuffer => i = j
  BY <1>1 DEF UsedSlots, OneOwner
<1>3. Cardinality(BuffersOf(dpb, UsedSlots(dpb)))
         = Cardinality(UsedSlots(dpb))
  BY <1>2, ImageCount
<1> QED
  BY <1>1, <1>3 DEF BuffersOwned, BuffersOf, UsedSlots

\* ... and that a decoder that waits for a buffer gets one.
LEMMA KeptServed == Kept => NeverStarved
<1> SUFFICES ASSUME Kept, h.eDecodStep = "DECODE_FRAME",
                    ~OutputDue(dpb, FALSE), dpb.display = <<>>
             PROVE  Attempt.result # "NO_FRAME_BUFFER"
  BY DEF NeverStarved
<1>1. CanDecode
  BY DEF CanDecode
<1>2. Requested \in DOMAIN stream /\ h.eDecodStep # "REOPEN"
  BY <1>1, RequestedIs
<1>3. Attempted(Attempt)
  BY <1>2, AttemptIs
<1> QED
  BY <1>3 DEF Attempted

\* The buffers of a decoder: the variables have their types, every buffer
\* held belongs to one picture, and a decoder that waits for a buffer gets one
\* once the player has returned what it displays (h265_ref.c:92, 353, 615).
THEOREM BuffersStayKept == Spec => []BuffersKept
<1>1. Kept => BuffersKept
  BY KeptTypes, KeptOwned, KeptServed DEF BuffersKept
<1> QED
  BY <1>1, InitKept, NextKept, PTL DEF Spec

============================================================================
