----------------------------- MODULE Vp9Proofs ------------------------------
(***************************************************************************)
(* For any number of slots and buffers and for any streams: the reference  *)
(* buffers of the VP9 core are counted right (CountsKept), a frame is      *)
(* decoded from the state the encoder coded it from (DecodedAsCoded), and  *)
(* the player is given the frames that are shown, in order and with time   *)
(* stamps that keep up with them (ShownAsCoded).                           *)
(*                                                                         *)
(* RingSound is about the queue alone: its ring holds the buffers with the *)
(* count 0, each once.  SlotsCounted says what the counts are: the slots   *)
(* that hold a buffer, and one for each buffer in held.  Both hold after   *)
(* every operation of the queue.  Primed, that the slots hold pictures     *)
(* with a picture_info or a key frame is next, keeps the decoder from      *)
(* falling over them.                                                      *)
(*                                                                         *)
(* For DecodedAsCoded the decoder runs beside the encoder: Encoders counts *)
(* the frames of a stream up and gives the encoder's memories after each;  *)
(* InStep says which of them the decoder has at nDecStep.                  *)
(*                                                                         *)
(* For ShownAsCoded the player runs beside it too: what it has is what was *)
(* shown before the frame at hand (GivenInv), and the time stamp of the    *)
(* last picture is ahead of its unit by the frames that came on top of one *)
(* per unit, at most (StampInv).                                           *)
(***************************************************************************)
EXTENDS Vp9, FiniteSetTheorems, SequenceTheorems, WellFoundedInduction, TLAPS

Queue == [nodes : [Places -> Buffers], tail_index : Places,
          num_of_objects : Int, n_buffers : NumBuffers .. MaxBuffers,
          n_references : [Buffers -> Int],
          ref_status : [RefSlots -> Buffers \cup {REFERENCE_NOT_SET}]]

\* The k-th buffer in the ring, from 0 on, and their number.
Stored(r, k) == r.nodes[(r.tail_index + k) % NumBuffers]
Stores(r) == 0 .. r.num_of_objects - 1

\* The buffers there are.
Pool(r) == 0 .. r.n_buffers - 1

RingSound(r) ==
    /\ r \in Queue
    /\ r.num_of_objects \in 0 .. NumBuffers
    /\ \A i \in Places : r.nodes[i] \in Pool(r)
    /\ \A b \in Buffers : r.n_references[b] >= 0
    /\ \A k \in Stores(r) : r.n_references[Stored(r, k)] = 0
    /\ \A b \in Pool(r) :
          r.n_references[b] = 0 => \E k \in Stores(r) : Stored(r, k) = b
    /\ \A j, k \in Stores(r) : Stored(r, j) = Stored(r, k) => j = k

SlotsCounted(r, held) ==
    /\ \A s \in RefSlots : r.ref_status[s] \in Pool(r) \cup {REFERENCE_NOT_SET}
    /\ held \subseteq Pool(r)
    /\ \A b \in Buffers :
          r.n_references[b] = SlotCount(r, b) + (IF b \in held THEN 1 ELSE 0)

\* A buffer beyond those at the start was added for each one held for good.
Grown(r, held) == r.n_buffers <= NumBuffers + Cardinality(held)

\* What holds of the queue at every time: held are the buffers with a
\* reference besides those of the slots.
Held(r, held) == RingSound(r) /\ SlotsCounted(r, held) /\ Grown(r, held)

Contents == Nat \X Nat

Header == [key_frame : BOOLEAN, show_frame : BOOLEAN, intra_only : BOOLEAN,
           error_resilient : BOOLEAN, show_existing_frame : BOOLEAN,
           reset_frame_flags : BOOLEAN, refresh_frame_flags : SUBSET RefSlots,
           active_ref_idx : Seq(RefSlots), refresh_entropy_probs : BOOLEAN,
           frame_context_idx : Contexts, reset_frame_context : 0 .. 3,
           segment : {"off", "keep", "update"}, features : Contents,
           filter : {"off", "keep", "update"}, deltas : Contents,
           prev_is_key_frame : BOOLEAN, prev_show_frame : BOOLEAN,
           pic_callback_arg : [index : Buffers, show_frame : BOOLEAN]]

Pictures == [Buffers -> [pic : Contents, motion : Contents, info : BOOLEAN]]

Displayed == [frame : Contents, pts : Nat, content : Contents]
Frees == [free : Nat, display : Seq(Displayed), held : Nat, lost : Nat]

\* The types TypeOK leaves out.
Types ==
    /\ TypeOK
    /\ q \in Queue /\ h \in Header /\ pool \in Pictures
    /\ fbm \in Frees /\ pts \in [cur : Nat, pre : Nat]
    /\ g.repeated \in BOOLEAN /\ faults \in Nat
    /\ g = [from |-> g.from, clean |-> g.clean, hurt |-> g.hurt,
            repeated |-> g.repeated, leaked |-> g.leaked, used |-> g.used,
            out |-> g.out]

\* A frame of the unit at hand is still to be decoded.
UnitAtHand ==
    nDecStep # "data" =>
        /\ unit \in DOMAIN Streams[stream]
        /\ nFrameNums \in 0 .. Len(Streams[stream][unit].frames)
        /\ nDecStep \in {"header", "frame"} => nFrameNums # 0

\* A frame that starts anew is kept in every slot.
HeaderRead ==
    ~g.repeated =>
        /\ ~h.show_existing_frame
        /\ nDecStep = "frame" /\ (h.key_frame \/ h.reset_frame_flags) =>
               h.refresh_frame_flags = RefSlots

\* Between two pictures only lost ones are held besides the slots.
ReferencesHeld == ~g.repeated => Held(q, g.leaked)

\* The slots hold pictures with a picture_info.
SlotsFilled ==
    \A s \in RefSlots : /\ q.ref_status[s] # REFERENCE_NOT_SET
                        /\ pool[q.ref_status[s]].info

\* The frame decoded next is a key frame.
KeyNext ==
    \/ /\ nDecStep = "data"
       /\ next \in DOMAIN Streams[stream] =>
              Streams[stream][next].frames[1].kind = "key"
    \/ nDecStep = "header" /\ FrameAt(stream, Id).kind = "key"
    \/ nDecStep = "frame" /\ h.key_frame

\* As long as every picture has come out, the decoder finds what it needs.
Primed ==
    faults = 0 /\ ~g.repeated =>
        /\ halted = "no" /\ g.leaked = {}
        /\ SlotsFilled \/ KeyNext

CountInv == Types /\ UnitAtHand /\ HeaderRead /\ ReferencesHeld /\ Primed

-----------------------------------------------------------------------------
(* The ring. *)

\* Positions in the ring go round once.
LEMMA Wrap ==
    ASSUME NEW a \in 0 .. 2 * NumBuffers - 1
    PROVE  /\ a % NumBuffers = IF a < NumBuffers THEN a ELSE a - NumBuffers
           /\ a % NumBuffers \in Places
  BY QueueAssumption DEF Places

\* Whatever is counted, a position lies in the ring.
LEMMA WrapAny ==
    ASSUME NEW a \in Int
    PROVE  a % NumBuffers \in Places
  BY QueueAssumption DEF Places

\* The places of stored buffers differ, and so does the next free one.
LEMMA PlacesDiffer ==
    ASSUME NEW t \in Places, NEW j \in 0 .. NumBuffers - 1,
           NEW k \in 0 .. NumBuffers - 1,
           (t + j) % NumBuffers = (t + k) % NumBuffers
    PROVE  j = k
<1>1. t + j \in 0 .. 2 * NumBuffers - 1 /\ t + k \in 0 .. 2 * NumBuffers - 1
  BY QueueAssumption DEF Places
<1> DEFINE a == t + j
           b == t + k
<1>2. /\ a \in 0 .. 2 * NumBuffers - 1 /\ b \in 0 .. 2 * NumBuffers - 1
      /\ a % NumBuffers = b % NumBuffers
      /\ a - t \in 0 .. NumBuffers - 1 /\ b - t \in 0 .. NumBuffers - 1
      /\ a = b => j = k
  BY <1>1 DEF Places
<1> HIDE DEF a, b
<1> DEFINE x == a % NumBuffers
           y == b % NumBuffers
<1>3. /\ x = IF a < NumBuffers THEN a ELSE a - NumBuffers
      /\ y = IF b < NumBuffers THEN b ELSE b - NumBuffers
      /\ x = y
  BY <1>2, Wrap
<1> HIDE DEF x, y
<1>4. a = b
  BY <1>2, <1>3, QueueAssumption DEF Places
<1> QED
  BY <1>2, <1>4

\* A push puts the buffer behind the others.
LEMMA PushStores ==
    ASSUME NEW r \in Queue, NEW b \in Buffers,
           r.num_of_objects \in 0 .. NumBuffers - 1
    PROVE  LET p == FifoPush(r, b)
           IN  /\ p \in Queue
               /\ p = [r EXCEPT !.nodes = p.nodes, !.num_of_objects = @ + 1]
               /\ \A k \in Stores(r) : Stored(p, k) = Stored(r, k)
               /\ Stored(p, r.num_of_objects) = b
               /\ \A i \in Places : p.nodes[i] \in {r.nodes[i], b}
<1> DEFINE p == FifoPush(r, b)
           at == (r.tail_index + r.num_of_objects) % NumBuffers
<1>1. /\ r.nodes \in [Places -> Buffers] /\ r.tail_index \in Places
      /\ r.num_of_objects \in Nat /\ at \in Places
  <2>1. /\ r.nodes \in [Places -> Buffers] /\ r.tail_index \in Places
        /\ r.num_of_objects \in Nat
    BY QueueAssumption DEF Queue
  <2>2. r.tail_index + r.num_of_objects \in Int
    BY <2>1 DEF Places
  <2> QED
    BY <2>1, <2>2, WrapAny
<1>2. p = [r EXCEPT !.nodes = [@ EXCEPT ![at] = b], !.num_of_objects = @ + 1]
  BY DEF FifoPush
<1>3. /\ p.nodes = [r.nodes EXCEPT ![at] = b]
      /\ p.tail_index = r.tail_index
      /\ p.num_of_objects = r.num_of_objects + 1
  BY <1>2 DEF Queue
<1>4. p \in Queue
  <2>1. p.nodes \in [Places -> Buffers]
    BY <1>1, <1>3
  <2>2. p = [r EXCEPT !.nodes = p.nodes, !.num_of_objects = @ + 1]
    BY <1>2, <1>3
  <2>3. r.num_of_objects + 1 \in Int
    BY <1>1
  <2> HIDE DEF p
  <2>4. p = [nodes |-> p.nodes, tail_index |-> r.tail_index,
             num_of_objects |-> r.num_of_objects + 1,
             n_buffers |-> r.n_buffers, n_references |-> r.n_references,
             ref_status |-> r.ref_status]
    BY <2>2 DEF Queue
  <2> QED
    BY <2>1, <2>3, <2>4 DEF Queue
<1>5. ASSUME NEW k \in Stores(r) PROVE Stored(p, k) = Stored(r, k)
  <2>1. (r.tail_index + k) % NumBuffers # at
    BY <1>1, PlacesDiffer, QueueAssumption DEF Stores
  <2>2. (r.tail_index + k) % NumBuffers \in Places
    <3>1. r.tail_index + k \in Int
      BY <1>1 DEF Stores, Places
    <3> QED
      BY <3>1, WrapAny
  <2> QED
    BY <1>1, <1>3, <2>1, <2>2 DEF Stored
<1>6. Stored(p, r.num_of_objects) = b
  BY <1>1, <1>3 DEF Stored
<1>7. p = [r EXCEPT !.nodes = p.nodes, !.num_of_objects = @ + 1]
  BY <1>2, <1>3 DEF Queue
<1>8. \A i \in Places : p.nodes[i] \in {r.nodes[i], b}
  BY <1>1, <1>3
<1> QED
  BY <1>4, <1>5, <1>6, <1>7, <1>8

\* What the ring stores are buffers.
LEMMA StoredBuffers ==
    ASSUME NEW r \in Queue
    PROVE  /\ Pool(r) \subseteq Buffers
           /\ \A k \in Stores(r) : Stored(r, k) \in Buffers
<1>1. /\ r.n_buffers \in NumBuffers .. MaxBuffers /\ r.tail_index \in Places
      /\ r.nodes \in [Places -> Buffers] /\ r.num_of_objects \in Int
  BY DEF Queue
<1>2. Pool(r) \subseteq Buffers
  BY <1>1, QueueAssumption DEF Pool, Buffers
<1>3. ASSUME NEW k \in Stores(r) PROVE Stored(r, k) \in Buffers
  <2>1. r.tail_index + k \in Int
    BY <1>1 DEF Stores, Places
  <2>2. (r.tail_index + k) % NumBuffers \in Places
    BY <2>1, WrapAny
  <2> QED
    BY <1>1, <2>2 DEF Stored
<1> QED
  BY <1>2, <1>3

\* A new count leaves everything else.
LEMMA Recount ==
    ASSUME NEW r \in Queue, NEW b \in Buffers, NEW v \in Int
    PROVE  LET i == [r EXCEPT !.n_references[b] = v]
           IN  /\ i \in Queue
               /\ i.n_references = [r.n_references EXCEPT ![b] = v]
               /\ i.nodes = r.nodes /\ i.tail_index = r.tail_index
               /\ i.num_of_objects = r.num_of_objects
               /\ i.n_buffers = r.n_buffers /\ i.ref_status = r.ref_status
<1>1. [r.n_references EXCEPT ![b] = v] \in [Buffers -> Int]
  BY DEF Queue
<1> QED
  BY <1>1 DEF Queue

\* There are n numbers below n.
LEMMA CountFrom0 ==
    ASSUME NEW n \in Nat
    PROVE  IsFiniteSet(0 .. n - 1) /\ Cardinality(0 .. n - 1) = n
<1>1. 0 \in Int /\ n - 1 \in Int
  OBVIOUS
<1>2. /\ IsFiniteSet(0 .. n - 1)
      /\ Cardinality(0 .. n - 1) =
             IF 0 > n - 1 THEN 0 ELSE (n - 1) - 0 + 1
  BY <1>1, FS_Interval, Zenon
<1>3. CASE n = 0
  BY <1>2, <1>3
<1>4. CASE n # 0
  BY <1>2, <1>4
<1> QED
  BY <1>3, <1>4

\* As long as some buffer has a reference and is not held, there is a free
\* place in the ring: it has as many as there are buffers not held.
LEMMA RoomInRing ==
    ASSUME NEW r \in Queue, r.num_of_objects \in 0 .. NumBuffers,
           NEW b \in Pool(r), NEW held \in SUBSET Pool(r), b \notin held,
           \A k \in Stores(r) :
               Stored(r, k) \in Pool(r) /\ Stored(r, k) \notin held \cup {b},
           \A j, k \in Stores(r) : Stored(r, j) = Stored(r, k) => j = k,
           Grown(r, held)
    PROVE  r.num_of_objects < NumBuffers
<1> DEFINE rest == Pool(r) \ (held \cup {b})
           f == [k \in Stores(r) |-> Stored(r, k)]
<1>1. r.n_buffers \in Nat /\ NumBuffers \in Nat
  BY QueueAssumption DEF Queue
<1>2. /\ IsFiniteSet(Pool(r)) /\ Cardinality(Pool(r)) = r.n_buffers
      /\ Cardinality(Stores(r)) = r.num_of_objects
  <2>1. \A n \in Nat : /\ IsFiniteSet(0 .. n - 1)
                       /\ Cardinality(0 .. n - 1) = n
    BY CountFrom0
  <2> QED
    BY <1>1, <2>1 DEF Pool, Stores
<1>3. /\ IsFiniteSet(held) /\ IsFiniteSet(rest) /\ IsFiniteSet(held \cup {b})
      /\ Cardinality(held \cup {b}) = Cardinality(held) + 1
  BY <1>2, FS_Subset, FS_AddElement
<1>4. Cardinality(rest) = r.n_buffers - Cardinality(held) - 1
  <2>1. rest \cup (held \cup {b}) = Pool(r) /\ rest \cap (held \cup {b}) = {}
    OBVIOUS
  <2>2. Cardinality(rest \cup (held \cup {b})) =
            Cardinality(rest) + Cardinality(held \cup {b}) - Cardinality({})
    BY <1>3, <2>1, FS_Union
  <2>3. /\ Cardinality(rest) \in Nat /\ Cardinality(held) \in Nat
        /\ Cardinality({}) = 0
    BY <1>3, FS_CardinalityType, FS_EmptySet
  <2>4. r.n_buffers = Cardinality(rest) + (Cardinality(held) + 1) - 0
    BY <1>2, <1>3, <2>1, <2>2, <2>3
  <2> HIDE DEF rest
  <2> QED
    BY <1>1, <2>3, <2>4
<1>5. f \in Injection(Stores(r), rest)
  <2>1. f \in [Stores(r) -> rest]
    OBVIOUS
  <2>2. \A j, k \in Stores(r) : f[j] = f[k] => j = k
    OBVIOUS
  <2> HIDE DEF f, rest
  <2> QED
    BY <2>1, <2>2, Zenon DEF Injection, IsInjective
<1>6. Cardinality(Stores(r)) <= Cardinality(rest)
  BY <1>3, <1>5, FS_Injection
<1>7. Cardinality(held) \in Nat
  BY <1>3, FS_CardinalityType
<1> HIDE DEF rest
<1> QED
  BY <1>1, <1>2, <1>4, <1>6, <1>7 DEF Grown

\* A buffer that has a reference may get another one.
LEMMA IncreaseSound ==
    ASSUME NEW r, RingSound(r), NEW b \in Buffers, r.n_references[b] >= 1
    PROVE  LET i == IncreaseRefCount(r, b)
           IN  /\ RingSound(i)
               /\ i.n_references = [r.n_references EXCEPT ![b] = @ + 1]
               /\ i.n_buffers = r.n_buffers /\ i.ref_status = r.ref_status
<1> DEFINE i == IncreaseRefCount(r, b)
<1>1. r \in Queue /\ r.n_references \in [Buffers -> Int]
  BY DEF RingSound, Queue
<1>2. /\ i \in Queue
      /\ i.n_references = [r.n_references EXCEPT ![b] = r.n_references[b] + 1]
      /\ i.nodes = r.nodes /\ i.tail_index = r.tail_index
      /\ i.num_of_objects = r.num_of_objects
      /\ i.n_buffers = r.n_buffers /\ i.ref_status = r.ref_status
  <2>1. r.n_references[b] + 1 \in Int
    BY <1>1
  <2> QED
    BY <1>1, <2>1, Recount DEF IncreaseRefCount
<1>3. \A c \in Buffers : i.n_references[c] = 0 <=> r.n_references[c] = 0
  BY <1>1, <1>2
<1>4. \A c \in Buffers : i.n_references[c] >= 0
  BY <1>1, <1>2 DEF RingSound
<1>5. /\ Stores(i) = Stores(r) /\ Pool(i) = Pool(r)
      /\ \A k : Stored(i, k) = Stored(r, k)
  BY <1>2 DEF Stores, Pool, Stored
<1>6. /\ \A k \in Stores(r) : Stored(r, k) \in Buffers
      /\ Pool(r) \subseteq Buffers
  BY StoredBuffers DEF RingSound
<1> HIDE DEF i
<1>7. RingSound(i)
  BY <1>2, <1>3, <1>4, <1>5, <1>6 DEF RingSound
<1> QED
  BY <1>2, <1>7 DEF i

\* A push of a buffer that has just lost its last reference.
LEMMA PushSound ==
    ASSUME NEW r \in Queue, r.num_of_objects \in 0 .. NumBuffers - 1,
           NEW b \in Pool(r), r.n_references[b] = 0,
           \A i \in Places : r.nodes[i] \in Pool(r),
           \A c \in Buffers : r.n_references[c] >= 0,
           \A k \in Stores(r) :
               r.n_references[Stored(r, k)] = 0 /\ Stored(r, k) # b,
           \A c \in Pool(r) : r.n_references[c] = 0 =>
               c = b \/ \E k \in Stores(r) : Stored(r, k) = c,
           \A j, k \in Stores(r) : Stored(r, j) = Stored(r, k) => j = k
    PROVE  LET p == FifoPush(r, b)
           IN  /\ RingSound(p)
               /\ p.n_references = r.n_references
               /\ p.n_buffers = r.n_buffers /\ p.ref_status = r.ref_status
<1> DEFINE p == FifoPush(r, b)
           n == r.num_of_objects
<1>1. b \in Buffers
  BY StoredBuffers
<1>2. /\ p \in Queue
      /\ p = [r EXCEPT !.nodes = p.nodes, !.num_of_objects = @ + 1]
      /\ \A k \in Stores(r) : Stored(p, k) = Stored(r, k)
      /\ Stored(p, n) = b
      /\ \A i \in Places : p.nodes[i] \in {r.nodes[i], b}
  BY <1>1, PushStores
<1> HIDE DEF p
<1>3. /\ p.n_references = r.n_references /\ p.n_buffers = r.n_buffers
      /\ p.ref_status = r.ref_status
      /\ p.num_of_objects = n + 1
  BY <1>2 DEF Queue
<1>4. /\ n \in Nat /\ n + 1 \in 0 .. NumBuffers
      /\ Stores(p) = Stores(r) \cup {n} /\ n \notin Stores(r)
      /\ Pool(p) = Pool(r)
  BY <1>3, QueueAssumption DEF Stores, Pool
<1>5. \A k \in Stores(p) : p.n_references[Stored(p, k)] = 0
  BY <1>2, <1>3, <1>4
<1>6. \A c \in Pool(p) :
         p.n_references[c] = 0 => \E k \in Stores(p) : Stored(p, k) = c
  BY <1>2, <1>3, <1>4
<1>7. \A j, k \in Stores(p) : Stored(p, j) = Stored(p, k) => j = k
  BY <1>2, <1>4
<1>8. RingSound(p)
  BY <1>2, <1>3, <1>4, <1>5, <1>6, <1>7 DEF RingSound
<1> QED
  BY <1>3, <1>8 DEF p

\* A buffer loses a reference, and goes to the ring with the last one.
LEMMA DecreaseSound ==
    ASSUME NEW r, RingSound(r), NEW b \in Pool(r), r.n_references[b] >= 1,
           NEW held \in SUBSET Pool(r), Grown(r, held),
           \A c \in held : r.n_references[c] >= IF c = b THEN 2 ELSE 1
    PROVE  LET d == DecreaseRefCount(r, b)
           IN  /\ RingSound(d)
               /\ d.n_references = [r.n_references EXCEPT ![b] = @ - 1]
               /\ d.n_buffers = r.n_buffers /\ d.ref_status = r.ref_status
<1> DEFINE i == [r EXCEPT !.n_references[b] = r.n_references[b] - 1]
           d == DecreaseRefCount(r, b)
<1>1. /\ r \in Queue /\ b \in Buffers /\ Pool(r) \subseteq Buffers
      /\ r.n_references \in [Buffers -> Int]
  BY StoredBuffers DEF RingSound, Queue
<1>2. /\ i \in Queue
      /\ i.n_references = [r.n_references EXCEPT ![b] = r.n_references[b] - 1]
      /\ i.nodes = r.nodes /\ i.tail_index = r.tail_index
      /\ i.num_of_objects = r.num_of_objects
      /\ i.n_buffers = r.n_buffers /\ i.ref_status = r.ref_status
  <2>1. r.n_references[b] - 1 \in Int
    BY <1>1
  <2> QED
    BY <1>1, <2>1, Recount
<1>3. d = IF i.n_references[b] = 0 THEN FifoPush(i, b) ELSE i
  BY DEF DecreaseRefCount
<1> HIDE DEF i, d
<1>4. /\ Stores(i) = Stores(r) /\ Pool(i) = Pool(r)
      /\ \A k : Stored(i, k) = Stored(r, k)
  BY <1>2 DEF Stores, Pool, Stored
<1>5. /\ i.n_references[b] = r.n_references[b] - 1
      /\ \A c \in Buffers : c # b => i.n_references[c] = r.n_references[c]
      /\ \A c \in Buffers : i.n_references[c] >= 0
  BY <1>1, <1>2 DEF RingSound
<1>6. \A k \in Stores(r) : /\ Stored(r, k) \in Pool(r)
                           /\ r.n_references[Stored(r, k)] = 0
                           /\ Stored(r, k) # b
  <2>1. ASSUME NEW k \in Stores(r) PROVE Stored(r, k) \in Pool(r)
    <3>1. r.tail_index + k \in Int
      BY <1>1 DEF Queue, Stores, Places
    <3> QED
      BY <3>1, WrapAny DEF RingSound, Stored
  <2> QED
    BY <2>1 DEF RingSound
<1>7. CASE i.n_references[b] = 0
  <2>1. b \notin held
    BY <1>1, <1>5, <1>7
  <2>2. \A c \in held : r.n_references[c] >= 1
    BY <1>1, <2>1
  <2>3. r.num_of_objects < NumBuffers
    BY <1>1, <1>6, <2>1, <2>2, RoomInRing DEF RingSound
  <2>4. i.num_of_objects \in 0 .. NumBuffers - 1
    BY <1>2, <2>3, QueueAssumption DEF RingSound
  <2>5. \A c \in Pool(i) : i.n_references[c] = 0 =>
            c = b \/ \E k \in Stores(i) : Stored(i, k) = c
    BY <1>1, <1>4, <1>5 DEF RingSound
  <2>6. \A k \in Stores(i) :
            i.n_references[Stored(i, k)] = 0 /\ Stored(i, k) # b
    BY <1>1, <1>4, <1>5, <1>6
  <2>7. /\ \A k \in Places : i.nodes[k] \in Pool(i)
        /\ \A j, k \in Stores(i) : Stored(i, j) = Stored(i, k) => j = k
        /\ b \in Pool(i)
    BY <1>2, <1>4 DEF RingSound
  <2>8. /\ RingSound(FifoPush(i, b))
        /\ FifoPush(i, b).n_references = i.n_references
        /\ FifoPush(i, b).n_buffers = i.n_buffers
        /\ FifoPush(i, b).ref_status = i.ref_status
    BY <1>2, <1>5, <1>7, <2>4, <2>5, <2>6, <2>7, PushSound
  <2> QED
    BY <1>2, <1>3, <1>7, <2>8 DEF d
<1>8. CASE i.n_references[b] # 0
  <2>1. \A c \in Pool(i) : i.n_references[c] = 0 =>
            \E k \in Stores(i) : Stored(i, k) = c
    BY <1>1, <1>4, <1>5, <1>8 DEF RingSound
  <2>2. \A k \in Stores(i) : i.n_references[Stored(i, k)] = 0
    BY <1>1, <1>4, <1>5, <1>6
  <2>3. RingSound(i)
    BY <1>2, <1>4, <1>5, <2>1, <2>2 DEF RingSound
  <2> QED
    BY <1>2, <1>3, <1>8, <2>3 DEF d
<1> QED
  BY <1>7, <1>8

\* After a pop the others move up by one.
LEMMA PopStores ==
    ASSUME NEW r \in Queue, r.num_of_objects \in 1 .. NumBuffers
    PROVE  LET p == FifoPop(r)
           IN  /\ p \in Queue
               /\ p.num_of_objects = r.num_of_objects - 1
               /\ p.nodes = r.nodes /\ p.n_buffers = r.n_buffers
               /\ p.n_references = r.n_references
               /\ p.ref_status = r.ref_status
               /\ \A k \in Stores(p) : Stored(p, k) = Stored(r, k + 1)
<1> DEFINE p == FifoPop(r)
           t == (r.tail_index + 1) % NumBuffers
<1>1. /\ r.tail_index \in Places /\ r.num_of_objects \in Nat
      /\ NumBuffers \in Nat \ {0}
  BY QueueAssumption DEF Queue
<1>2. /\ r.tail_index + 1 \in 0 .. 2 * NumBuffers - 1
      /\ r.tail_index + 1 \in Int
  BY <1>1 DEF Places
<1>3. /\ t \in Places
      /\ t = IF r.tail_index + 1 < NumBuffers THEN r.tail_index + 1
             ELSE r.tail_index + 1 - NumBuffers
  BY <1>1, <1>2, Wrap, QueueAssumption DEF Places
<1>4. r.num_of_objects - 1 \in Int
  BY <1>1
<1>5. p = [r EXCEPT !.tail_index = t,
                    !.num_of_objects = r.num_of_objects - 1]
  BY DEF FifoPop
<1> HIDE DEF p, t
<1>6. /\ p.num_of_objects = r.num_of_objects - 1 /\ p.tail_index = t
      /\ p.nodes = r.nodes /\ p.n_buffers = r.n_buffers
      /\ p.n_references = r.n_references
      /\ p.ref_status = r.ref_status
  BY <1>5 DEF Queue
<1>7. p \in Queue
  BY <1>3, <1>4, <1>5 DEF Queue
<1>8. ASSUME NEW k \in Stores(p) PROVE Stored(p, k) = Stored(r, k + 1)
  <2>1. /\ k \in 0 .. NumBuffers - 2
        /\ t + k \in 0 .. 2 * NumBuffers - 1
        /\ r.tail_index + (k + 1) \in 0 .. 2 * NumBuffers - 1
    BY <1>1, <1>3, <1>6 DEF Stores, Places
  <2> DEFINE a == t + k
             b == r.tail_index + (k + 1)
  <2>2. /\ a \in 0 .. 2 * NumBuffers - 1 /\ b \in 0 .. 2 * NumBuffers - 1
        /\ a = b \/ (a = b - NumBuffers /\ a < NumBuffers)
    BY <1>1, <1>3, <2>1 DEF Places
  <2> HIDE DEF a, b
  <2>3. /\ a % NumBuffers = IF a < NumBuffers THEN a ELSE a - NumBuffers
        /\ b % NumBuffers = IF b < NumBuffers THEN b ELSE b - NumBuffers
    BY <2>2, Wrap
  <2> DEFINE x == a % NumBuffers
             y == b % NumBuffers
  <2>4. x = y
    <3>1. /\ x = IF a < NumBuffers THEN a ELSE a - NumBuffers
          /\ y = IF b < NumBuffers THEN b ELSE b - NumBuffers
      BY <2>3
    <3> HIDE DEF x, y
    <3> QED
      BY <1>1, <2>2, <3>1
  <2>5. (t + k) % NumBuffers = (r.tail_index + (k + 1)) % NumBuffers
    BY <2>4 DEF a, b
  <2> QED
    BY <1>6, <2>5 DEF Stored
<1> QED
  BY <1>6, <1>7, <1>8 DEF p

\* An attempt that fails leaves the queue as it was.
LEMMA PopReverted ==
    ASSUME NEW r \in Queue
    PROVE  FifoPopRevert(FifoPop(r)) = r
<1> DEFINE t == (r.tail_index + 1) % NumBuffers
           u == (t + NumBuffers - 1) % NumBuffers
<1>1. r.tail_index \in Places /\ NumBuffers \in Nat \ {0}
  BY QueueAssumption DEF Queue
<1>2. r.tail_index + 1 \in 0 .. 2 * NumBuffers - 1
  BY <1>1 DEF Places
<1>3. /\ t \in Places
      /\ t = IF r.tail_index + 1 < NumBuffers THEN r.tail_index + 1
             ELSE r.tail_index + 1 - NumBuffers
  BY <1>1, <1>2, Wrap, QueueAssumption DEF Places
<1>4. t + NumBuffers - 1 \in 0 .. 2 * NumBuffers - 1
  <2> HIDE DEF t
  <2> QED
    BY <1>1, <1>3 DEF Places
<1> DEFINE a == t + NumBuffers - 1
<1>5. u = IF a < NumBuffers THEN a ELSE a - NumBuffers
  <2>1. a \in 0 .. 2 * NumBuffers - 1
    BY <1>4
  <2> HIDE DEF a
  <2>2. a % NumBuffers = IF a < NumBuffers THEN a ELSE a - NumBuffers
    BY <2>1, Wrap
  <2>3. u = a % NumBuffers
    BY DEF a
  <2> QED
    BY <2>2, <2>3, Zenon
<1>6. u = r.tail_index
  <2> HIDE DEF t, u
  <2> QED
    BY <1>1, <1>3, <1>5 DEF Places
<1>7. FifoPopRevert(FifoPop(r)) =
          [r EXCEPT !.tail_index = u,
                    !.num_of_objects = (r.num_of_objects - 1) + 1]
  BY DEF FifoPopRevert, FifoPop, Queue
<1>8. (r.num_of_objects - 1) + 1 = r.num_of_objects
  BY DEF Queue
<1> HIDE DEF u
<1> QED
  BY <1>6, <1>7, <1>8 DEF Queue

\* The head of the ring is the place at its tail index.
LEMMA HeadStored ==
    ASSUME NEW r \in Queue
    PROVE  FifoHead(r) = r.nodes[r.tail_index] /\ FifoHead(r) = Stored(r, 0)
<1>1. r.tail_index \in Places /\ NumBuffers \in Nat \ {0}
  BY QueueAssumption DEF Queue
<1>2. (r.tail_index + 0) % NumBuffers = r.tail_index
  BY <1>1 DEF Places
<1> QED
  BY <1>2 DEF FifoHead, Stored

\* Nothing is got from an empty ring: what its place still holds is in use.
LEMMA GetNone ==
    ASSUME NEW r, RingSound(r), r.num_of_objects = 0
    PROVE  Vp9BufferQueueGetBuffer(r) = [buffer |-> -1, queue |-> r]
<1>1. r \in Queue /\ r.tail_index \in Places
  BY DEF RingSound, Queue
<1>2. FifoHead(r) \in Pool(r)
  BY <1>1, HeadStored DEF RingSound
<1>3. Stores(r) = {}
  BY DEF Stores
<1>4. r.n_references[FifoHead(r)] # 0
  BY <1>2, <1>3 DEF RingSound
<1> QED
  BY <1>1, <1>4, PopReverted DEF Vp9BufferQueueGetBuffer

\* Otherwise the oldest buffer in the ring is got, with its first reference.
LEMMA GetSome ==
    ASSUME NEW r, RingSound(r), r.num_of_objects # 0
    PROVE  LET given == Vp9BufferQueueGetBuffer(r)
               b == given.buffer
               n == given.queue
           IN  /\ b \in Pool(r) /\ r.n_references[b] = 0
               /\ RingSound(n)
               /\ n.n_references = [r.n_references EXCEPT ![b] = 1]
               /\ n.n_buffers = r.n_buffers /\ n.ref_status = r.ref_status
<1> DEFINE b == FifoHead(r)
           p == FifoPop(r)
           n == IncreaseRefCount(p, b)
<1>1. /\ r \in Queue /\ r.num_of_objects \in 1 .. NumBuffers
      /\ 0 \in Stores(r) /\ r.tail_index \in Places
      /\ r.n_references \in [Buffers -> Int]
  BY QueueAssumption DEF RingSound, Queue, Stores
<1>2. /\ b = Stored(r, 0) /\ b \in Pool(r) /\ b \in Buffers
      /\ r.n_references[b] = 0
  <2>1. b = Stored(r, 0) /\ b \in Pool(r)
    BY <1>1, HeadStored DEF RingSound
  <2>2. r.n_references[Stored(r, 0)] = 0
    BY <1>1 DEF RingSound
  <2> HIDE DEF b
  <2> QED
    BY <1>1, <2>1, <2>2, StoredBuffers
<1>3. /\ p \in Queue
      /\ p.num_of_objects = r.num_of_objects - 1
      /\ p.nodes = r.nodes /\ p.n_buffers = r.n_buffers
      /\ p.n_references = r.n_references
      /\ p.ref_status = r.ref_status
      /\ \A k \in Stores(p) : Stored(p, k) = Stored(r, k + 1)
  BY <1>1, PopStores
<1>4. Vp9BufferQueueGetBuffer(r) = [buffer |-> b, queue |-> n]
  BY <1>2 DEF Vp9BufferQueueGetBuffer
<1> HIDE DEF b, p
<1>5. /\ n \in Queue
      /\ n.n_references = [p.n_references EXCEPT ![b] = 1]
      /\ n.nodes = p.nodes /\ n.tail_index = p.tail_index
      /\ n.num_of_objects = p.num_of_objects
      /\ n.n_buffers = p.n_buffers /\ n.ref_status = p.ref_status
  <2>1. n = [p EXCEPT !.n_references[b] = p.n_references[b] + 1]
    BY DEF IncreaseRefCount
  <2>2. p.n_references[b] + 1 = 1 /\ 1 \in Int
    BY <1>2, <1>3
  <2>3. n = [p EXCEPT !.n_references[b] = 1]
    BY <2>1, <2>2
  <2> HIDE DEF n
  <2> QED
    <3> DEFINE m == [p EXCEPT !.n_references[b] = 1]
    <3>1. /\ m \in Queue
          /\ m.n_references = [p.n_references EXCEPT ![b] = 1]
          /\ m.nodes = p.nodes /\ m.tail_index = p.tail_index
          /\ m.num_of_objects = p.num_of_objects
          /\ m.n_buffers = p.n_buffers /\ m.ref_status = p.ref_status
      BY <1>2, <1>3, <2>2, Recount
    <3> HIDE DEF m
    <3> QED
      BY <2>3, <3>1 DEF m
<1> HIDE DEF n
<1>6. /\ Pool(n) = Pool(r) /\ Pool(r) \subseteq Buffers
      /\ n.num_of_objects \in 0 .. NumBuffers
      /\ \A k \in Stores(n) : /\ k + 1 \in Stores(r) /\ k + 1 # 0
                              /\ Stored(n, k) = Stored(r, k + 1)
      /\ \A k \in Stores(r) : k # 0 => k - 1 \in Stores(n)
  <2>1. /\ Stores(n) = Stores(p) /\ Pool(n) = Pool(r)
        /\ \A k : Stored(n, k) = Stored(p, k)
    BY <1>3, <1>5 DEF Stores, Pool, Stored
  <2>2. Pool(r) \subseteq Buffers
    BY <1>1, StoredBuffers
  <2>3. /\ Stores(n) = 0 .. (r.num_of_objects - 1) - 1
        /\ Stores(r) = 0 .. r.num_of_objects - 1
        /\ r.num_of_objects \in Nat
    BY <1>1, <1>3, <1>5, QueueAssumption DEF Stores
  <2>4. /\ \A k \in Stores(n) : k + 1 \in Stores(r) /\ k + 1 # 0
        /\ \A k \in Stores(r) : k # 0 => k - 1 \in Stores(n)
    BY <2>3
  <2> QED
    <3>1. n.num_of_objects \in 0 .. NumBuffers
      BY <1>1, <1>3, <1>5, QueueAssumption
    <3> QED
      BY <1>3, <2>1, <2>2, <2>4, <3>1
<1>7. /\ n.n_references[b] = 1
      /\ \A c \in Buffers : c # b => n.n_references[c] = r.n_references[c]
  BY <1>1, <1>2, <1>3, <1>5
<1>8. \A k \in Stores(n) : n.n_references[Stored(n, k)] = 0
  <2> SUFFICES ASSUME NEW k \in Stores(n)
               PROVE  n.n_references[Stored(n, k)] = 0
    OBVIOUS
  <2>1. Stored(r, k + 1) # b
    BY <1>1, <1>2, <1>6 DEF RingSound
  <2>2. Stored(r, k + 1) \in Buffers /\ r.n_references[Stored(r, k + 1)] = 0
    BY <1>1, <1>6, StoredBuffers DEF RingSound
  <2> QED
    BY <1>6, <1>7, <2>1, <2>2
<1>9. \A c \in Pool(n) : n.n_references[c] = 0 =>
          \E k \in Stores(n) : Stored(n, k) = c
  <2> SUFFICES ASSUME NEW c \in Pool(r), n.n_references[c] = 0
               PROVE  \E k \in Stores(n) : Stored(n, k) = c
    BY <1>6
  <2>1. c # b /\ r.n_references[c] = 0
    BY <1>6, <1>7
  <2>2. PICK k \in Stores(r) : Stored(r, k) = c
    BY <2>1 DEF RingSound
  <2>3. k # 0 /\ k - 1 \in Stores(n) /\ (k - 1) + 1 = k
    BY <1>1, <1>2, <1>6, <2>1, <2>2 DEF Stores
  <2> QED
    BY <1>6, <2>2, <2>3
<1>10. \A j, k \in Stores(n) : Stored(n, j) = Stored(n, k) => j = k
  <2> SUFFICES ASSUME NEW j \in Stores(n), NEW k \in Stores(n),
                      Stored(n, j) = Stored(n, k)
               PROVE  j = k
    OBVIOUS
  <2>1. j + 1 = k + 1
    BY <1>6 DEF RingSound
  <2> QED
    BY <1>5, <2>1 DEF Stores
<1>11. \A c \in Buffers : n.n_references[c] >= 0
  BY <1>7 DEF RingSound
<1>12. \A i \in Places : n.nodes[i] \in Pool(n)
  BY <1>3, <1>5, <1>6 DEF RingSound
<1>13. RingSound(n)
  BY <1>5, <1>6, <1>8, <1>9, <1>10, <1>11, <1>12 DEF RingSound
<1> QED
  BY <1>2, <1>3, <1>4, <1>5, <1>13

\* The pool grows by a buffer nobody refers to.
LEMMA AddSound ==
    ASSUME NEW r, RingSound(r), r.num_of_objects = 0,
           r.n_buffers < MaxBuffers, r.n_references[r.n_buffers] = 0
    PROVE  LET a == Vp9BufferQueueAddBuffer(r)
           IN  /\ RingSound(a) /\ a.num_of_objects = 1
               /\ a.n_references = r.n_references
               /\ a.n_buffers = r.n_buffers + 1
               /\ a.ref_status = r.ref_status
<1> DEFINE new == r.n_buffers
           p == FifoPush(r, new)
           a == Vp9BufferQueueAddBuffer(r)
<1>1. /\ r \in Queue /\ new \in NumBuffers .. MaxBuffers
      /\ new \in Buffers /\ new + 1 \in NumBuffers .. MaxBuffers
      /\ 0 \in 0 .. NumBuffers - 1
  <2>1. r \in Queue /\ new \in NumBuffers .. MaxBuffers /\ new < MaxBuffers
    BY DEF RingSound, Queue
  <2> HIDE DEF new
  <2> QED
    BY <2>1, QueueAssumption DEF Buffers
<1>2. /\ p \in Queue
      /\ p = [r EXCEPT !.nodes = p.nodes, !.num_of_objects = @ + 1]
      /\ Stored(p, 0) = new
      /\ \A i \in Places : p.nodes[i] \in {r.nodes[i], new}
  <2>1. r.num_of_objects \in 0 .. NumBuffers - 1
    BY <1>1
  <2> QED
    <3>1. /\ p \in Queue
          /\ p = [r EXCEPT !.nodes = p.nodes, !.num_of_objects = @ + 1]
          /\ Stored(p, r.num_of_objects) = new
          /\ \A i \in Places : p.nodes[i] \in {r.nodes[i], new}
      BY <1>1, <2>1, PushStores
    <3> QED
      BY <3>1
<1>3. a = [p EXCEPT !.n_buffers = p.n_buffers + 1]
  BY DEF Vp9BufferQueueAddBuffer
<1> HIDE DEF p, a
<1>4. /\ p.num_of_objects = 1 /\ p.n_buffers = new
      /\ p.n_references = r.n_references /\ p.ref_status = r.ref_status
  <2>1. p.num_of_objects = r.num_of_objects + 1 /\ p.n_buffers = new
        /\ p.n_references = r.n_references /\ p.ref_status = r.ref_status
    BY <1>1, <1>2 DEF Queue
  <2> QED
    BY <2>1
<1>5. /\ a \in Queue /\ a.num_of_objects = 1
      /\ a.n_references = r.n_references /\ a.ref_status = r.ref_status
      /\ a.n_buffers = new + 1
      /\ a.nodes = p.nodes /\ a.tail_index = p.tail_index
  BY <1>1, <1>2, <1>3, <1>4 DEF Queue
<1>6. /\ Stores(a) = {0} /\ Stored(a, 0) = new
      /\ Pool(a) = Pool(r) \cup {new} /\ Stores(r) = {}
      /\ Pool(r) \subseteq Buffers
  <2>1. Stores(a) = {0} /\ Stores(r) = {}
    BY <1>5 DEF Stores
  <2>2. Pool(a) = Pool(r) \cup {new}
    BY <1>1, <1>5, QueueAssumption DEF Pool
  <2> QED
    BY <1>1, <1>2, <1>5, <2>1, <2>2, StoredBuffers DEF Stored
<1>7. \A c \in Pool(a) : a.n_references[c] = 0 =>
          \E k \in Stores(a) : Stored(a, k) = c
  BY <1>5, <1>6 DEF RingSound
<1>8. \A i \in Places : a.nodes[i] \in Pool(a)
  BY <1>2, <1>5, <1>6 DEF RingSound
<1>9. a.num_of_objects \in 0 .. NumBuffers
  BY <1>1, <1>5, QueueAssumption
<1>10. RingSound(a)
  BY <1>5, <1>6, <1>7, <1>8, <1>9 DEF RingSound
<1> QED
  BY <1>5, <1>10 DEF a

-----------------------------------------------------------------------------
(* The slots. *)

\* There are NumRefs slots.
LEMMA SlotsFinite == IsFiniteSet(RefSlots) /\ Cardinality(RefSlots) = NumRefs
  BY CountFrom0, QueueAssumption DEF RefSlots

\* How many slots hold a buffer is a number, and not 0 if one does.
LEMMA SlotCountIs ==
    ASSUME NEW r, NEW b
    PROVE  /\ SlotCount(r, b) \in Nat
           /\ \A s \in RefSlots : r.ref_status[s] = b => SlotCount(r, b) >= 1
           /\ (\A s \in RefSlots : r.ref_status[s] # b) => SlotCount(r, b) = 0
<1> DEFINE S == {s \in RefSlots : r.ref_status[s] = b}
<1>1. IsFiniteSet(S) /\ S \in SUBSET RefSlots
  BY SlotsFinite, FS_Subset
<1>2. Cardinality(S) \in Nat
  BY <1>1, FS_CardinalityType
<1>3. Cardinality(S) = 0 <=> S = {}
  BY <1>1, FS_EmptySet
<1>4. SlotCount(r, b) = Cardinality(S)
  BY DEF SlotCount
<1>5. ASSUME NEW s \in RefSlots, r.ref_status[s] = b
      PROVE  SlotCount(r, b) >= 1
  <2>1. s \in S
    BY <1>5
  <2> HIDE DEF S
  <2> QED
    BY <1>2, <1>3, <1>4, <2>1
<1>6. (\A s \in RefSlots : r.ref_status[s] # b) => S = {}
  OBVIOUS
<1> HIDE DEF S
<1> QED
  BY <1>2, <1>3, <1>4, <1>5, <1>6

\* A slot that is given another buffer counts for that one.
LEMMA SlotMoved ==
    ASSUME NEW r \in Queue, NEW s \in RefSlots, NEW v, v # r.ref_status[s],
           NEW n, n.ref_status = [r.ref_status EXCEPT ![s] = v],
           NEW b
    PROVE  SlotCount(n, b) = SlotCount(r, b) + (IF b = v THEN 1 ELSE 0)
                                - (IF b = r.ref_status[s] THEN 1 ELSE 0)
<1> DEFINE S == {i \in RefSlots : r.ref_status[i] = b}
           T == {i \in RefSlots : n.ref_status[i] = b}
<1>1. SlotCount(r, b) = Cardinality(S) /\ SlotCount(n, b) = Cardinality(T)
  BY DEF SlotCount
<1>2. IsFiniteSet(S) /\ Cardinality(S) \in Nat
  BY SlotsFinite, FS_Subset, FS_CardinalityType
<1>3. r.ref_status \in [RefSlots -> Buffers \cup {REFERENCE_NOT_SET}]
  BY DEF Queue
<1>4. /\ n.ref_status[s] = v
      /\ \A i \in RefSlots : i # s => n.ref_status[i] = r.ref_status[i]
  BY <1>3
<1>5. CASE b = v
  <2>1. s \notin S /\ T = S \cup {s} /\ b # r.ref_status[s]
    BY <1>4, <1>5
  <2>2. Cardinality(T) = Cardinality(S) + 1
    <3> HIDE DEF S, T
    <3> QED
      BY <1>2, <2>1, FS_AddElement
  <2> HIDE DEF S, T
  <2> QED
    BY <1>1, <1>2, <1>5, <2>1, <2>2
<1>6. CASE b = r.ref_status[s]
  <2>1. s \in S /\ T = S \ {s} /\ b # v
    BY <1>4, <1>6
  <2>2. Cardinality(T) = Cardinality(S) - 1
    <3> HIDE DEF S, T
    <3> QED
      BY <1>2, <2>1, FS_RemoveElement
  <2> HIDE DEF S, T
  <2> QED
    BY <1>1, <1>2, <1>6, <2>1, <2>2
<1>7. CASE b # v /\ b # r.ref_status[s]
  <2>1. T = S
    BY <1>4, <1>7
  <2> HIDE DEF S, T
  <2> QED
    BY <1>1, <1>2, <1>7, <2>1
<1> QED
  BY <1>5, <1>6, <1>7

\* One turn of the loop: the slot holds b, and the counts follow.
LEMMA UpdateSlotHeld ==
    ASSUME NEW r, NEW held, Held(r, held), NEW s \in RefSlots,
           NEW b, b \in held \/ b = REFERENCE_NOT_SET
    PROVE  LET u == UpdateSlot(r, s, b)
           IN  /\ Held(u, held) /\ u.n_buffers = r.n_buffers
               /\ u.ref_status = [r.ref_status EXCEPT ![s] = b]
<1> DEFINE old == r.ref_status[s]
           freed == IF old = REFERENCE_NOT_SET THEN r
                    ELSE DecreaseRefCount(r, old)
           set == [freed EXCEPT !.ref_status[s] = b]
           u == UpdateSlot(r, s, b)
<1>1. /\ r \in Queue /\ RingSound(r)
      /\ r.n_references \in [Buffers -> Int]
      /\ r.ref_status \in [RefSlots -> Buffers \cup {REFERENCE_NOT_SET}]
      /\ Pool(r) \subseteq Buffers /\ held \subseteq Pool(r)
      /\ r.n_buffers \in Nat
  BY StoredBuffers, QueueAssumption DEF Held, RingSound, SlotsCounted, Queue
<1>2. REFERENCE_NOT_SET \notin Pool(r) /\ REFERENCE_NOT_SET \notin Buffers
  BY DEF REFERENCE_NOT_SET, Pool, Buffers
<1>3. u = IF old = b THEN r
          ELSE IF b = REFERENCE_NOT_SET THEN set ELSE IncreaseRefCount(set, b)
  BY DEF UpdateSlot
<1>4. old \in Pool(r) \cup {REFERENCE_NOT_SET}
  BY DEF Held, SlotsCounted
<1>5. \A c \in Buffers :
         /\ SlotCount(r, c) \in Nat
         /\ r.n_references[c] = SlotCount(r, c) + (IF c \in held THEN 1 ELSE 0)
  BY SlotCountIs DEF Held, SlotsCounted
<1>6. CASE old = b
  <2>1. r.ref_status = [r.ref_status EXCEPT ![s] = b]
    BY <1>1, <1>6
  <2> HIDE DEF u
  <2> QED
    BY <1>3, <1>6, <2>1 DEF u
<1>7. CASE old # b
  <2>1. /\ RingSound(freed) /\ freed.n_buffers = r.n_buffers
        /\ freed.ref_status = r.ref_status
        /\ freed.n_references \in [Buffers -> Int]
        /\ \A c \in Buffers :
              freed.n_references[c] =
                  r.n_references[c] - (IF c = old THEN 1 ELSE 0)
    <3>1. CASE old = REFERENCE_NOT_SET
      <4>1. freed = r
        BY <3>1
      <4>2. \A c \in Buffers : c # old
        BY <1>2, <3>1
      <4> HIDE DEF freed
      <4> QED
        BY <1>1, <4>1, <4>2
    <3>2. CASE old # REFERENCE_NOT_SET
      <4>1. freed = DecreaseRefCount(r, old) /\ old \in Pool(r)
        BY <1>4, <3>2
      <4>2. SlotCount(r, old) >= 1
        BY SlotCountIs
      <4>3. r.n_references[old] >= 1
        BY <1>1, <1>5, <4>1, <4>2
      <4>4. \A c \in held : r.n_references[c] >= IF c = old THEN 2 ELSE 1
        BY <1>1, <1>5, <4>2
      <4>5. Grown(r, held) /\ held \in SUBSET Pool(r)
        BY <1>1 DEF Held
      <4> HIDE DEF freed, old
      <4>6. /\ RingSound(freed)
            /\ freed.n_references = [r.n_references EXCEPT ![old] = @ - 1]
            /\ freed.n_buffers = r.n_buffers
            /\ freed.ref_status = r.ref_status
        BY <1>1, <4>1, <4>3, <4>4, <4>5, DecreaseSound
      <4>7. old \in Buffers
        BY <1>1, <4>1
      <4> QED
        BY <1>1, <4>6, <4>7
    <3> QED
      BY <3>1, <3>2
  <2> HIDE DEF freed
  <2>2. /\ set.ref_status = [r.ref_status EXCEPT ![s] = b]
        /\ set.n_references = freed.n_references
        /\ set.n_buffers = r.n_buffers
        /\ RingSound(set)
    <3>1. freed \in Queue /\ b \in Buffers \cup {REFERENCE_NOT_SET}
      BY <1>1, <2>1 DEF RingSound
    <3>2. /\ set.ref_status = [r.ref_status EXCEPT ![s] = b]
          /\ set.n_references = freed.n_references
          /\ set.nodes = freed.nodes /\ set.tail_index = freed.tail_index
          /\ set.num_of_objects = freed.num_of_objects
          /\ set.n_buffers = freed.n_buffers
      BY <2>1, <3>1 DEF Queue
    <3>3. set \in Queue
      <4>1. [freed.ref_status EXCEPT ![s] = b] \in
                [RefSlots -> Buffers \cup {REFERENCE_NOT_SET}]
        BY <1>1, <2>1, <3>1
      <4> QED
        BY <3>1, <4>1 DEF Queue
    <3> HIDE DEF set
    <3>4. /\ Stores(set) = Stores(freed) /\ Pool(set) = Pool(freed)
          /\ \A k : Stored(set, k) = Stored(freed, k)
      BY <3>2 DEF Stores, Pool, Stored
    <3>5. RingSound(set)
      BY <2>1, <3>2, <3>3, <3>4 DEF RingSound
    <3> QED
      BY <2>1, <3>2, <3>5
  <2> HIDE DEF set
  <2>3. \A c \in Buffers :
           SlotCount(set, c) = SlotCount(r, c) + (IF c = b THEN 1 ELSE 0)
                                  - (IF c = old THEN 1 ELSE 0)
    BY <1>1, <1>7, <2>2, SlotMoved
  <2>4. /\ RingSound(u) /\ u.n_buffers = r.n_buffers
        /\ u.ref_status = [r.ref_status EXCEPT ![s] = b]
        /\ \A c \in Buffers :
              u.n_references[c] =
                  SlotCount(set, c) + (IF c \in held THEN 1 ELSE 0)
    <3>1. CASE b = REFERENCE_NOT_SET
      <4>1. u = set
        BY <1>3, <1>7, <3>1
      <4>2. \A c \in Buffers : c # b
        BY <1>2, <3>1
      <4> HIDE DEF u, old
      <4> QED
        BY <1>5, <2>1, <2>2, <2>3, <4>1, <4>2
    <3>2. CASE b # REFERENCE_NOT_SET
      <4>1. u = IncreaseRefCount(set, b) /\ b \in held /\ b \in Buffers
        BY <1>1, <1>3, <1>7, <3>2
      <4>2. set.n_references[b] >= 1
        BY <1>5, <1>7, <2>1, <2>2, <4>1
      <4> HIDE DEF u, old
      <4>3. /\ RingSound(u) /\ u.n_buffers = set.n_buffers
            /\ u.ref_status = set.ref_status
            /\ u.n_references = [set.n_references EXCEPT ![b] = @ + 1]
        BY <2>2, <4>1, <4>2, IncreaseSound
      <4>4. \A c \in Buffers :
               u.n_references[c] =
                   set.n_references[c] + (IF c = b THEN 1 ELSE 0)
        BY <2>1, <2>2, <4>1, <4>3
      <4> QED
        BY <1>5, <2>1, <2>2, <2>3, <4>3, <4>4
    <3> QED
      BY <3>1, <3>2
  <2>5. \A c : SlotCount(u, c) = SlotCount(set, c)
    BY <2>2, <2>4 DEF SlotCount
  <2>6. SlotsCounted(u, held)
    <3>1. Pool(u) = Pool(r)
      BY <2>4 DEF Pool
    <3>2. \A i \in RefSlots : u.ref_status[i] \in {r.ref_status[i], b}
      BY <1>1, <2>4
    <3>3. b \in Pool(r) \cup {REFERENCE_NOT_SET}
      BY <1>1
    <3> HIDE DEF u
    <3> QED
      BY <1>1, <2>4, <2>5, <3>1, <3>2, <3>3 DEF SlotsCounted, Held
  <2> HIDE DEF u
  <2> QED
    BY <2>4, <2>6 DEF Held, Grown, u
<1> QED
  BY <1>6, <1>7

-----------------------------------------------------------------------------
(* The loop over the slots. *)

\* A set with 0, and with the successor of each of its numbers below m, has
\* all numbers up to m: otherwise there were a least one it lacks.
LEMMA CountUp ==
    ASSUME NEW T, NEW m \in Nat, 0 \in T,
           \A n \in 0 .. m - 1 : n \in T => n + 1 \in T
    PROVE  0 .. m \subseteq T
<1> DEFINE lacks == (0 .. m) \ T
<1> SUFFICES ASSUME lacks # {} PROVE FALSE
  OBVIOUS
<1>1. PICK x \in lacks : \A y \in lacks : ~ (<<y, x>> \in OpToRel(<, Nat))
  <2>1. lacks \subseteq Nat
    OBVIOUS
  <2> HIDE DEF lacks
  <2> QED
    BY <2>1, WFMin, NatLessThanWellFounded
<1>2. x \in Nat /\ x # 0 /\ x <= m
  OBVIOUS
<1>3. x - 1 \in T
  <2>1. <<x - 1, x>> \in OpToRel(<, Nat)
    <3>1. <<x - 1, x>> \in Nat \X Nat /\ x - 1 < x
      BY <1>2
    <3>2. <<x - 1, x>> \in {ss \in Nat \X Nat : ss[1] < ss[2]}
      BY <3>1
    <3> QED
      BY <3>2, Zenon DEF OpToRel
  <2>2. x - 1 \notin lacks
    <3> HIDE DEF lacks
    <3> QED
      BY <1>1, <2>1
  <2> QED
    BY <1>2, <2>2
<1>4. x - 1 \in 0 .. m - 1 /\ (x - 1) + 1 = x
  BY <1>2
<1>5. x \in T
  BY <1>3, <1>4
<1> QED
  BY <1>5

\* What holds before the first turn, and after each turn if it did before it,
\* holds after the last one; reached[n] are the queues n turns may lead to.
LEMMA UpdateRefReaches ==
    ASSUME NEW r, NEW flags, NEW b, NEW reached, r \in reached[0],
           \A n \in 0 .. NumRefs - 1 : \A x \in reached[n] :
               (IF n \in flags THEN UpdateSlot(x, n, b) ELSE x)
                   \in reached[n + 1]
    PROVE  Vp9BufferQueueUpdateRef(r, flags, b) \in reached[NumRefs]
<1> DEFINE Turn(x, n) ==
               IF n - 1 \in flags THEN UpdateSlot(x, n - 1, b) ELSE x
           Turns(f, m) ==
               f = [n \in 0 .. m |-> IF n = 0 THEN r ELSE Turn(f[n - 1], n)]
           upTo == CHOOSE f : Turns(f, NumRefs)
           T == {n \in 0 .. NumRefs : \E f : Turns(f, n)}
           U == {n \in 0 .. NumRefs : upTo[n] \in reached[n]}
<1>1. NumRefs \in Nat /\ NumRefs \in 0 .. NumRefs
  BY QueueAssumption
<1>2. 0 \in T
  <2> DEFINE f == [n \in 0 .. 0 |-> r]
  <2>1. Turns(f, 0)
    OBVIOUS
  <2>2. 0 \in 0 .. NumRefs
    BY <1>1
  <2> HIDE DEF f, Turns
  <2> QED
    BY <2>1, <2>2
<1>3. ASSUME NEW n \in 0 .. NumRefs - 1, n \in T PROVE n + 1 \in T
  <2>1. PICK f : Turns(f, n)
    BY <1>3
  <2> DEFINE more == [k \in 0 .. n + 1 |->
                      IF k <= n THEN f[k] ELSE Turn(f[n], n + 1)]
  <2>2. \A k \in 0 .. n : f[k] = IF k = 0 THEN r ELSE Turn(f[k - 1], k)
    <3> HIDE DEF Turn
    <3> QED
      BY <2>1
  <2>3. \A k \in 0 .. n + 1 :
           more[k] = IF k = 0 THEN r ELSE Turn(more[k - 1], k)
    <3> SUFFICES ASSUME NEW k \in 0 .. n + 1
                 PROVE  more[k] = IF k = 0 THEN r ELSE Turn(more[k - 1], k)
      OBVIOUS
    <3>1. CASE k <= n
      <4>1. k = 0 \/ (k - 1 \in 0 .. n + 1 /\ k - 1 <= n)
        BY <3>1
      <4>2. more[k] = f[k] /\ (k # 0 => more[k - 1] = f[k - 1]) /\ k \in 0 .. n
        BY <3>1, <4>1
      <4> HIDE DEF more, Turn
      <4> QED
        BY <2>2, <4>2
    <3>2. CASE k = n + 1
      <4>1. k - 1 = n /\ k # 0 /\ n \in 0 .. n + 1 /\ ~ k <= n
        BY <3>2
      <4>2. more[k] = Turn(f[n], k) /\ more[k - 1] = f[n]
        BY <3>2, <4>1
      <4> HIDE DEF more, Turn
      <4> QED
        BY <4>1, <4>2
    <3> QED
      BY <3>1, <3>2
  <2>4. Turns(more, n + 1)
    <3>1. more = [k \in 0 .. n + 1 |-> more[k]]
      OBVIOUS
    <3> HIDE DEF more, Turn
    <3> QED
      BY <2>3, <3>1
  <2>5. n + 1 \in 0 .. NumRefs
    BY <1>1
  <2> HIDE DEF more, Turns
  <2> QED
    BY <2>4, <2>5
<1>4. NumRefs \in T
  <2> HIDE DEF T
  <2> QED
    BY <1>1, <1>2, <1>3, CountUp
<1>5. Turns(upTo, NumRefs)
  <2>1. \E f : Turns(f, NumRefs)
    BY <1>4
  <2> HIDE DEF Turns
  <2> QED
    BY <2>1
<1> HIDE DEF upTo, T
<1>6. \A n \in 0 .. NumRefs :
         upTo[n] = IF n = 0 THEN r ELSE Turn(upTo[n - 1], n)
  <2> HIDE DEF Turn
  <2> QED
    BY <1>5
<1>7. 0 \in U
  BY <1>1, <1>6
<1>8. ASSUME NEW n \in 0 .. NumRefs - 1, n \in U PROVE n + 1 \in U
  <2>1. n + 1 \in 0 .. NumRefs /\ n + 1 # 0 /\ (n + 1) - 1 = n
    BY <1>1
  <2>2. upTo[n + 1] = IF n \in flags THEN UpdateSlot(upTo[n], n, b)
                      ELSE upTo[n]
    BY <1>6, <2>1
  <2>3. upTo[n + 1] \in reached[n + 1]
    BY <1>8, <2>2
  <2> QED
    BY <2>1, <2>3
<1>9. NumRefs \in U
  <2> HIDE DEF U
  <2> QED
    BY <1>1, <1>7, <1>8, CountUp
<1>10. Vp9BufferQueueUpdateRef(r, flags, b) = upTo[NumRefs]
  BY DEF Vp9BufferQueueUpdateRef, upTo
<1> QED
  BY <1>9, <1>10

\* The slots with a flag hold b, the others what they held.
LEMMA UpdateRefHeld ==
    ASSUME NEW r, NEW held, Held(r, held), NEW flags \in SUBSET RefSlots,
           NEW b, b \in held \/ b = REFERENCE_NOT_SET
    PROVE  LET u == Vp9BufferQueueUpdateRef(r, flags, b)
           IN  /\ Held(u, held) /\ u.n_buffers = r.n_buffers
               /\ \A s \in RefSlots :
                     u.ref_status[s] = IF s \in flags THEN b
                                       ELSE r.ref_status[s]
<1> DEFINE Reached(n) ==
               {x \in Queue :
                   /\ Held(x, held) /\ x.n_buffers = r.n_buffers
                   /\ \A s \in RefSlots :
                         x.ref_status[s] = IF s \in flags /\ s < n THEN b
                                           ELSE r.ref_status[s]}
           reached == [n \in 0 .. NumRefs |-> Reached(n)]
<1>1. NumRefs \in Nat
  BY QueueAssumption
<1>2. r \in reached[0]
  BY <1>1 DEF Held, RingSound, RefSlots
<1>3. ASSUME NEW n \in 0 .. NumRefs - 1, NEW x \in Reached(n)
      PROVE  (IF n \in flags THEN UpdateSlot(x, n, b) ELSE x)
                 \in Reached(n + 1)
  <2>1. n \in RefSlots /\ n + 1 \in 0 .. NumRefs
        /\ \A s \in RefSlots : s < n + 1 <=> (s < n \/ s = n)
    BY <1>1 DEF RefSlots
  <2>2. CASE n \in flags
    <3> DEFINE u == UpdateSlot(x, n, b)
    <3>1. /\ Held(u, held) /\ u.n_buffers = x.n_buffers
          /\ u.ref_status = [x.ref_status EXCEPT ![n] = b]
      BY <2>1, UpdateSlotHeld
    <3> HIDE DEF u
    <3>2. u \in Queue /\ x.ref_status \in
              [RefSlots -> Buffers \cup {REFERENCE_NOT_SET}]
      BY <3>1 DEF Held, RingSound, Queue
    <3>3. \A s \in RefSlots :
             u.ref_status[s] = IF s = n THEN b ELSE x.ref_status[s]
      BY <2>1, <3>1, <3>2
    <3>4. u \in Reached(n + 1)
      BY <2>1, <2>2, <3>1, <3>2, <3>3
    <3> QED
      BY <2>2, <3>4 DEF u
  <2>3. CASE n \notin flags
    BY <2>1, <2>3
  <2> QED
    BY <2>2, <2>3
<1>4. \A n \in 0 .. NumRefs - 1 : \A x \in reached[n] :
         (IF n \in flags THEN UpdateSlot(x, n, b) ELSE x) \in reached[n + 1]
  <2>1. \A n \in 0 .. NumRefs - 1 : /\ reached[n] = Reached(n)
                                    /\ reached[n + 1] = Reached(n + 1)
    BY <1>1
  <2> HIDE DEF reached, Reached
  <2> QED
    BY <1>3, <2>1
<1>5. reached[NumRefs] = Reached(NumRefs)
  BY <1>1
<1> DEFINE u == Vp9BufferQueueUpdateRef(r, flags, b)
<1>6. u \in Reached(NumRefs)
  <2> HIDE DEF reached, Reached
  <2> QED
    BY <1>2, <1>4, <1>5, UpdateRefReaches
<1>7. \A s \in RefSlots : s < NumRefs
  BY <1>1 DEF RefSlots
<1> HIDE DEF u
<1> QED
  BY <1>6, <1>7 DEF u

-----------------------------------------------------------------------------
(* A buffer for the picture. *)

\* Sets of buffers are finite.
LEMMA HeldFinite ==
    ASSUME NEW r \in Queue, NEW held \in SUBSET Pool(r)
    PROVE  /\ IsFiniteSet(Pool(r)) /\ Cardinality(Pool(r)) = r.n_buffers
           /\ IsFiniteSet(held) /\ Cardinality(held) \in Nat
<1>1. r.n_buffers \in Nat
  BY QueueAssumption DEF Queue
<1>2. IsFiniteSet(Pool(r)) /\ Cardinality(Pool(r)) = r.n_buffers
  BY <1>1, CountFrom0 DEF Pool
<1> QED
  BY <1>2, FS_Subset, FS_CardinalityType

\* If the ring is empty, every buffer is in a slot or held.
LEMMA EmptyRing ==
    ASSUME NEW r, NEW held, Held(r, held), r.num_of_objects = 0
    PROVE  r.n_buffers <= NumRefs + Cardinality(held)
<1> DEFINE image == {r.ref_status[s] : s \in RefSlots}
           f == [s \in RefSlots |-> r.ref_status[s]]
<1>1. /\ r \in Queue /\ held \in SUBSET Pool(r) /\ Pool(r) \subseteq Buffers
      /\ r.n_buffers \in Nat /\ NumRefs \in Nat
  BY StoredBuffers, QueueAssumption
     DEF Held, RingSound, SlotsCounted, Queue
<1>2. /\ IsFiniteSet(Pool(r)) /\ Cardinality(Pool(r)) = r.n_buffers
      /\ IsFiniteSet(held) /\ Cardinality(held) \in Nat
  BY <1>1, HeldFinite
<1>3. IsFiniteSet(image) /\ Cardinality(image) <= NumRefs
  <2>1. /\ f \in [RefSlots -> image]
        /\ \A x \in image : \E s \in RefSlots : f[s] = x
    OBVIOUS
  <2> HIDE DEF f, image
  <2>2. f \in Surjection(RefSlots, image)
    BY <2>1, Zenon DEF Surjection
  <2> QED
    BY <2>2, SlotsFinite, FS_Surjection
<1>4. Pool(r) \subseteq image \cup held
  <2> SUFFICES ASSUME NEW b \in Pool(r), b \notin held PROVE b \in image
    OBVIOUS
  <2>1. Stores(r) = {}
    BY DEF Stores
  <2>2. r.n_references[b] # 0
    BY <2>1 DEF Held, RingSound
  <2>3. r.n_references[b] = SlotCount(r, b) + 0
    BY <1>1 DEF Held, SlotsCounted
  <2>4. \E s \in RefSlots : r.ref_status[s] = b
    BY <2>2, <2>3, SlotCountIs
  <2> QED
    BY <2>4
<1> HIDE DEF image
<1>5. /\ IsFiniteSet(image \cup held)
      /\ Cardinality(image \cup held) =
             Cardinality(image) + Cardinality(held)
                 - Cardinality(image \cap held)
  BY <1>2, <1>3, FS_Union
<1>6. /\ Cardinality(image) \in Nat
      /\ Cardinality(image \cap held) \in Nat
  <2>1. image \cap held \in SUBSET image
    OBVIOUS
  <2> QED
    BY <1>3, <2>1, FS_Subset, FS_CardinalityType
<1>7. Cardinality(Pool(r)) <= Cardinality(image \cup held)
  BY <1>4, <1>5, FS_Subset
<1> QED
  BY <1>1, <1>2, <1>3, <1>5, <1>6, <1>7

\* One more held.
LEMMA GrownMore ==
    ASSUME NEW r \in Queue, NEW held \in SUBSET Pool(r), NEW b,
           Grown(r, held)
    PROVE  Grown(r, held \cup {b})
<1>1. r.n_buffers \in Nat /\ NumBuffers \in Nat
  BY QueueAssumption DEF Queue
<1>2. IsFiniteSet(held) /\ Cardinality(held) \in Nat
  BY HeldFinite
<1>3. Cardinality(held \cup {b}) =
          IF b \in held THEN Cardinality(held) ELSE Cardinality(held) + 1
  BY <1>2, FS_AddElement
<1> QED
  BY <1>1, <1>2, <1>3 DEF Grown

\* The buffer that is got is in no slot and held by nobody else, whether it was
\* in the ring or the pool has grown by it.
LEMMA GetRefFrmHeld ==
    ASSUME NEW r, NEW held, Held(r, held), Vp9GetRefFrm(r).buffer # -1
    PROVE  LET b == Vp9GetRefFrm(r).buffer
               n == Vp9GetRefFrm(r).queue
           IN  /\ b \in Buffers /\ b \notin held
               /\ Held(n, held \cup {b}) /\ Grown(n, held)
               /\ n.ref_status = r.ref_status
               /\ \A s \in RefSlots : r.ref_status[s] # b
<1>1. /\ r \in Queue /\ held \in SUBSET Pool(r) /\ Pool(r) \subseteq Buffers
      /\ r.n_references \in [Buffers -> Int]
      /\ RingSound(r) /\ Grown(r, held)
      /\ r.n_buffers \in NumBuffers .. MaxBuffers
  BY StoredBuffers DEF Held, RingSound, SlotsCounted, Queue
<1>2. ASSUME NEW a, RingSound(a), a.num_of_objects # 0,
             a.n_references = r.n_references, a.ref_status = r.ref_status,
             Pool(r) \subseteq Pool(a), Grown(a, held)
      PROVE  LET b == Vp9BufferQueueGetBuffer(a).buffer
                 n == Vp9BufferQueueGetBuffer(a).queue
             IN  /\ b \in Buffers /\ b \notin held
                 /\ Held(n, held \cup {b}) /\ Grown(n, held)
                 /\ n.ref_status = r.ref_status
                 /\ \A s \in RefSlots : r.ref_status[s] # b
  <2> DEFINE b == Vp9BufferQueueGetBuffer(a).buffer
             n == Vp9BufferQueueGetBuffer(a).queue
  <2>1. /\ b \in Pool(a) /\ a.n_references[b] = 0
        /\ RingSound(n)
        /\ n.n_references = [a.n_references EXCEPT ![b] = 1]
        /\ n.n_buffers = a.n_buffers /\ n.ref_status = a.ref_status
    BY <1>2, GetSome
  <2> HIDE DEF b, n
  <2>2. /\ a \in Queue /\ n \in Queue /\ Pool(a) \subseteq Buffers
        /\ Pool(n) = Pool(a)
    BY <1>2, <2>1, StoredBuffers DEF RingSound, Pool
  <2>3. \A c \in Buffers :
           /\ SlotCount(r, c) \in Nat /\ SlotCount(n, c) = SlotCount(r, c)
           /\ r.n_references[c] =
                  SlotCount(r, c) + (IF c \in held THEN 1 ELSE 0)
    <3>1. \A c : SlotCount(n, c) = SlotCount(r, c)
      BY <1>2, <2>1 DEF SlotCount
    <3> QED
      BY <3>1, SlotCountIs DEF Held, SlotsCounted
  <2>4. b \in Buffers /\ b \notin held /\ SlotCount(r, b) = 0
    BY <1>2, <2>1, <2>2, <2>3
  <2>5. \A c \in Buffers :
           n.n_references[c] =
               SlotCount(n, c) + (IF c \in held \cup {b} THEN 1 ELSE 0)
    BY <1>1, <1>2, <2>1, <2>3, <2>4
  <2>6. SlotsCounted(n, held \cup {b})
    BY <1>1, <1>2, <2>1, <2>2, <2>5 DEF SlotsCounted, Held
  <2>7. Grown(n, held)
    BY <1>2, <2>1 DEF Grown
  <2>8. Grown(n, held \cup {b})
    BY <1>1, <1>2, <2>2, <2>7, GrownMore
  <2>9. \A s \in RefSlots : r.ref_status[s] # b
    BY <2>4, SlotCountIs
  <2> QED
    BY <1>2, <2>1, <2>4, <2>6, <2>7, <2>8, <2>9 DEF Held, b, n
<1>3. CASE r.num_of_objects # 0
  <2>1. Vp9BufferQueueGetBuffer(r).buffer \in Pool(r)
    BY <1>1, <1>3, GetSome
  <2>2. Vp9BufferQueueGetBuffer(r).buffer # -1
    BY <2>1 DEF Pool
  <2>3. Vp9GetRefFrm(r) = Vp9BufferQueueGetBuffer(r)
    BY <2>2 DEF Vp9GetRefFrm
  <2> QED
    BY <1>1, <1>2, <1>3, <2>3
<1>4. CASE r.num_of_objects = 0
  <2> DEFINE a == Vp9BufferQueueAddBuffer(r)
  <2>1. Vp9BufferQueueGetBuffer(r) = [buffer |-> -1, queue |-> r]
    BY <1>1, <1>4, GetNone
  <2>2. /\ r.n_buffers # MaxBuffers
        /\ Vp9GetRefFrm(r) = Vp9BufferQueueGetBuffer(a)
    BY <2>1 DEF Vp9GetRefFrm
  <2>3. r.n_buffers < MaxBuffers /\ r.n_buffers \in Buffers
        /\ r.n_buffers \notin Pool(r) /\ r.n_buffers # REFERENCE_NOT_SET
    BY <1>1, <2>2, QueueAssumption DEF Buffers, Pool, REFERENCE_NOT_SET
  <2>4. r.n_references[r.n_buffers] = 0
    <3>1. \A s \in RefSlots : r.ref_status[s] # r.n_buffers
      BY <2>3 DEF Held, SlotsCounted
    <3>2. SlotCount(r, r.n_buffers) = 0
      BY <3>1, SlotCountIs
    <3>3. r.n_buffers \notin held
      BY <1>1, <2>3
    <3> QED
      BY <2>3, <3>2, <3>3 DEF Held, SlotsCounted
  <2>5. /\ RingSound(a) /\ a.num_of_objects = 1
        /\ a.n_references = r.n_references
        /\ a.n_buffers = r.n_buffers + 1
        /\ a.ref_status = r.ref_status
    BY <1>1, <1>4, <2>3, <2>4, AddSound
  <2> HIDE DEF a
  <2>6. Pool(r) \subseteq Pool(a)
    BY <1>1, <2>5, QueueAssumption DEF Pool
  <2>7. Grown(a, held)
    <3>1. r.n_buffers <= NumRefs + Cardinality(held)
      BY <1>4, EmptyRing
    <3>2. Cardinality(held) \in Nat
      BY <1>1, HeldFinite
    <3> QED
      BY <1>1, <2>5, <3>1, <3>2, QueueAssumption DEF Grown
  <2> QED
    BY <1>2, <2>2, <2>5, <2>6, <2>7
<1> QED
  BY <1>3, <1>4

\* As long as no buffer is held for good, one is got.
LEMMA GetRefFrmThere ==
    ASSUME NEW r, Held(r, {})
    PROVE  Vp9GetRefFrm(r).buffer # -1
<1>1. /\ r \in Queue /\ RingSound(r)
      /\ r.n_buffers \in NumBuffers .. MaxBuffers
  BY DEF Held, RingSound, Queue
<1>2. r.num_of_objects # 0
  <2> SUFFICES ASSUME r.num_of_objects = 0 PROVE FALSE
    OBVIOUS
  <2>1. r.n_buffers <= NumRefs + Cardinality({})
    BY EmptyRing
  <2>2. Cardinality({}) = 0
    BY FS_EmptySet
  <2> QED
    BY <1>1, <2>1, <2>2, QueueAssumption
<1>3. Vp9BufferQueueGetBuffer(r).buffer \in Pool(r)
  BY <1>1, <1>2, GetSome
<1>4. Vp9BufferQueueGetBuffer(r).buffer # -1
  BY <1>3 DEF Pool
<1> QED
  BY <1>4 DEF Vp9GetRefFrm

\* A held buffer is let go.
LEMMA DropHeld ==
    ASSUME NEW r, NEW held, NEW b, b \notin held,
           Held(r, held \cup {b}), Grown(r, held)
    PROVE  LET d == DecreaseRefCount(r, b)
           IN  Held(d, held) /\ d.ref_status = r.ref_status
<1> DEFINE d == DecreaseRefCount(r, b)
<1>1. /\ r \in Queue /\ held \in SUBSET Pool(r) /\ Pool(r) \subseteq Buffers
      /\ r.n_references \in [Buffers -> Int]
      /\ RingSound(r) /\ b \in Pool(r)
  BY StoredBuffers DEF Held, RingSound, SlotsCounted, Queue
<1>2. \A c \in Buffers :
         /\ SlotCount(r, c) \in Nat
         /\ r.n_references[c] =
                SlotCount(r, c) + (IF c \in held \cup {b} THEN 1 ELSE 0)
  BY SlotCountIs DEF Held, SlotsCounted
<1>3. /\ r.n_references[b] >= 1
      /\ \A c \in held : r.n_references[c] >= IF c = b THEN 2 ELSE 1
  BY <1>1, <1>2
<1>4. /\ RingSound(d)
      /\ d.n_references = [r.n_references EXCEPT ![b] = @ - 1]
      /\ d.n_buffers = r.n_buffers /\ d.ref_status = r.ref_status
  BY <1>1, <1>3, DecreaseSound
<1> HIDE DEF d
<1>5. \A c : SlotCount(d, c) = SlotCount(r, c)
  BY <1>4 DEF SlotCount
<1>6. \A c \in Buffers :
         d.n_references[c] = SlotCount(d, c) + (IF c \in held THEN 1 ELSE 0)
  BY <1>1, <1>2, <1>4, <1>5
<1>7. Pool(d) = Pool(r)
  BY <1>4 DEF Pool
<1>8. SlotsCounted(d, held)
  BY <1>1, <1>4, <1>6, <1>7 DEF SlotsCounted, Held
<1> QED
  BY <1>4, <1>8 DEF Held, Grown, d

-----------------------------------------------------------------------------
(* The types, which hold whatever is counted. *)

\* A push into a full ring overwrites, a pop from an empty one gives what the
\* place holds: buffers either way.
LEMMA FifoTypes ==
    ASSUME NEW r \in Queue, NEW b \in Buffers
    PROVE  /\ FifoPush(r, b) \in Queue
           /\ FifoPush(r, b).n_buffers = r.n_buffers
           /\ FifoPop(r) \in Queue /\ FifoHead(r) \in Buffers
           /\ FifoPop(r).ref_status = r.ref_status
<1> DEFINE at == (r.tail_index + r.num_of_objects) % NumBuffers
           t == (r.tail_index + 1) % NumBuffers
           nodes == [r.nodes EXCEPT ![at] = b]
<1>1. /\ r.nodes \in [Places -> Buffers] /\ r.tail_index \in Places
      /\ r.num_of_objects \in Int
  BY DEF Queue
<1>2. at \in Places /\ t \in Places
  <2>1. /\ r.tail_index + r.num_of_objects \in Int
        /\ r.tail_index + 1 \in Int
    BY <1>1 DEF Places
  <2> QED
    BY <2>1, WrapAny
<1>3. nodes \in [Places -> Buffers]
  BY <1>1, <1>2
<1>4. /\ FifoPush(r, b) = [r EXCEPT !.nodes = nodes,
                           !.num_of_objects = r.num_of_objects + 1]
      /\ FifoPop(r) = [r EXCEPT !.tail_index = t,
                           !.num_of_objects = r.num_of_objects - 1]
  BY DEF FifoPush, FifoPop
<1>5. r.num_of_objects + 1 \in Int /\ r.num_of_objects - 1 \in Int
  BY <1>1
<1> HIDE DEF nodes, t
<1>6. FifoPush(r, b) \in Queue /\ FifoPush(r, b).n_buffers = r.n_buffers
  BY <1>3, <1>4, <1>5 DEF Queue
<1>7. FifoPop(r) \in Queue /\ FifoPop(r).ref_status = r.ref_status
  BY <1>2, <1>4, <1>5 DEF Queue
<1>8. FifoHead(r) \in Buffers
  BY <1>1 DEF FifoHead
<1> QED
  BY <1>6, <1>7, <1>8

\* A count that goes up or down.
LEMMA CountTypes ==
    ASSUME NEW r \in Queue, NEW b \in Buffers
    PROVE  IncreaseRefCount(r, b) \in Queue /\ DecreaseRefCount(r, b) \in Queue
<1>1. r.n_references[b] + 1 \in Int /\ r.n_references[b] - 1 \in Int
  BY DEF Queue
<1> DEFINE i == [r EXCEPT !.n_references[b] = r.n_references[b] + 1]
           d == [r EXCEPT !.n_references[b] = r.n_references[b] - 1]
<1>2. i \in Queue /\ d \in Queue
  <2> DEFINE v == r.n_references[b] + 1
             w == r.n_references[b] - 1
  <2>1. [r EXCEPT !.n_references[b] = v] \in Queue
        /\ [r EXCEPT !.n_references[b] = w] \in Queue
    <3>1. v \in Int /\ w \in Int
      BY <1>1
    <3> HIDE DEF v, w
    <3> QED
      BY <3>1, Recount
  <2> QED
    BY <2>1
<1>3. /\ IncreaseRefCount(r, b) = i
      /\ DecreaseRefCount(r, b) =
             IF d.n_references[b] = 0 THEN FifoPush(d, b) ELSE d
  BY DEF IncreaseRefCount, DecreaseRefCount
<1> HIDE DEF i, d
<1> QED
  BY <1>2, <1>3, FifoTypes

\* Slots that are set.
LEMMA UpdateRefTypes ==
    ASSUME NEW r \in Queue, NEW flags,
           NEW b \in Buffers \cup {REFERENCE_NOT_SET}
    PROVE  Vp9BufferQueueUpdateRef(r, flags, b) \in Queue
<1> DEFINE reached == [n \in 0 .. NumRefs |-> Queue]
<1>1. ASSUME NEW n \in 0 .. NumRefs - 1, NEW x \in Queue
      PROVE  (IF n \in flags THEN UpdateSlot(x, n, b) ELSE x) \in Queue
  <2> DEFINE old == x.ref_status[n]
             freed == IF old = REFERENCE_NOT_SET THEN x
                      ELSE DecreaseRefCount(x, old)
             set == [freed EXCEPT !.ref_status[n] = b]
  <2>1. n \in RefSlots
    BY QueueAssumption DEF RefSlots
  <2>2. old \in Buffers \cup {REFERENCE_NOT_SET}
    BY <2>1 DEF Queue
  <2>3. freed \in Queue
    <3> HIDE DEF old
    <3> QED
      BY <2>2, CountTypes
  <2> HIDE DEF freed
  <2>4. set \in Queue
    <3>1. [freed.ref_status EXCEPT ![n] = b] \in
              [RefSlots -> Buffers \cup {REFERENCE_NOT_SET}]
      BY <2>1, <2>3 DEF Queue
    <3> QED
      BY <2>3, <3>1 DEF Queue
  <2> HIDE DEF set
  <2>5. b # REFERENCE_NOT_SET => IncreaseRefCount(set, b) \in Queue
    BY <2>4, CountTypes
  <2>6. UpdateSlot(x, n, b) =
            IF old = b THEN x
            ELSE IF b = REFERENCE_NOT_SET THEN set
            ELSE IncreaseRefCount(set, b)
    BY DEF UpdateSlot, set, freed
  <2> HIDE DEF old
  <2> QED
    BY <2>4, <2>5, <2>6
<1>2. /\ r \in reached[0] /\ reached[NumRefs] = Queue
      /\ \A n \in 0 .. NumRefs - 1 :
            reached[n] = Queue /\ reached[n + 1] = Queue
  BY QueueAssumption
<1> HIDE DEF reached
<1>3. \A n \in 0 .. NumRefs - 1 : \A x \in reached[n] :
         (IF n \in flags THEN UpdateSlot(x, n, b) ELSE x) \in reached[n + 1]
  BY <1>1, <1>2
<1> QED
  BY <1>2, <1>3, UpdateRefReaches

\* A buffer that is got, or none.
LEMMA GetBufferTypes ==
    ASSUME NEW r \in Queue
    PROVE  /\ Vp9BufferQueueGetBuffer(r).buffer \in Buffers \cup {-1}
           /\ Vp9BufferQueueGetBuffer(r).queue \in Queue
           /\ Vp9BufferQueueGetBuffer(r).buffer = -1 =>
                  Vp9BufferQueueGetBuffer(r).queue = r
<1> DEFINE i == FifoHead(r)
           p == FifoPop(r)
<1>1. i \in Buffers /\ p \in Queue /\ 0 \in Buffers
  <2>1. 0 \in Buffers
    BY QueueAssumption DEF Buffers
  <2> QED
    BY <2>1, FifoTypes
<1>2. IncreaseRefCount(p, i) \in Queue
  <2> HIDE DEF p, i
  <2> QED
    BY <1>1, CountTypes
<1>3. Vp9BufferQueueGetBuffer(r) =
         IF r.n_references[i] # 0
         THEN [buffer |-> -1, queue |-> FifoPopRevert(p)]
         ELSE [buffer |-> i, queue |-> IncreaseRefCount(p, i)]
  BY DEF Vp9BufferQueueGetBuffer
<1>4. FifoPopRevert(p) = r
  BY PopReverted
<1>5. i # -1
  <2> HIDE DEF i
  <2> QED
    BY <1>1 DEF Buffers
<1> HIDE DEF i, p
<1> QED
  BY <1>1, <1>2, <1>3, <1>4, <1>5

\* The same, with a pool that may grow.
LEMMA GetRefFrmTypes ==
    ASSUME NEW r \in Queue
    PROVE  /\ Vp9GetRefFrm(r).buffer \in Buffers \cup {-1}
           /\ Vp9GetRefFrm(r).queue \in Queue
<1> DEFINE first == Vp9BufferQueueGetBuffer(r)
           a == Vp9BufferQueueAddBuffer(first.queue)
<1>1. /\ first.buffer \in Buffers \cup {-1} /\ first.queue \in Queue
      /\ first.buffer = -1 => first.queue = r
  BY GetBufferTypes
<1>2. Vp9GetRefFrm(r) = IF first.buffer # -1 THEN first
                        ELSE IF r.n_buffers = MaxBuffers THEN first
                        ELSE Vp9BufferQueueGetBuffer(a)
  BY DEF Vp9GetRefFrm
<1>3. CASE first.buffer = -1 /\ r.n_buffers # MaxBuffers
  <2>1. /\ r.n_buffers \in Buffers /\ r.n_buffers \in NumBuffers .. MaxBuffers
        /\ r.n_buffers + 1 \in NumBuffers .. MaxBuffers
    BY <1>3, QueueAssumption DEF Queue, Buffers
  <2> DEFINE p == FifoPush(r, r.n_buffers)
  <2>2. p \in Queue /\ p.n_buffers = r.n_buffers
    BY <2>1, FifoTypes
  <2>3. a = [p EXCEPT !.n_buffers = p.n_buffers + 1]
    BY <1>1, <1>3 DEF Vp9BufferQueueAddBuffer
  <2> HIDE DEF p, a
  <2>4. a \in Queue
    BY <2>1, <2>2, <2>3 DEF Queue
  <2> HIDE DEF first
  <2> QED
    BY <1>2, <1>3, <2>4, GetBufferTypes
<1>4. CASE ~ (first.buffer = -1 /\ r.n_buffers # MaxBuffers)
  <2> HIDE DEF first
  <2> QED
    BY <1>1, <1>2, <1>4
<1> QED
  BY <1>3, <1>4

-----------------------------------------------------------------------------
(* The header. *)

\* The frame at hand is one of the stream.
LEMMA FrameAtHand ==
    ASSUME Types, UnitAtHand, nDecStep \in {"header", "frame"}
    PROVE  /\ FrameAt(stream, Id) \in Frames /\ Id \in Contents
           /\ FrameAt(stream, Id).kind = "inter" =>
                  FrameAt(stream, Id).refs[1] \in RefSlots
           /\ nFrameNums = Len(Streams[stream][unit].frames) =>
                  Id = <<unit, 1>>
<1> DEFINE frames == Streams[stream][unit].frames
           k == Len(frames) - nFrameNums + 1
<1>1. /\ unit \in DOMAIN Streams[stream] /\ stream \in DOMAIN Streams
      /\ nFrameNums \in 1 .. Len(frames)
  BY DEF Types, TypeOK, UnitAtHand
<1>2. Streams[stream] \in Seq(Units)
  BY <1>1, StreamAssumption
<1>3. Streams[stream][unit] \in Units /\ unit \in Nat
  BY <1>1, <1>2
<1>4. frames \in Seq(Frames) /\ Len(frames) \in Nat
  BY <1>3 DEF Units
<1> HIDE DEF frames
<1>5. k \in 1 .. Len(frames) /\ k \in Nat /\ k \in DOMAIN frames
      /\ (nFrameNums = Len(frames) => k = 1)
  BY <1>1, <1>4
<1>6. Id = <<unit, k>> /\ FrameAt(stream, Id) = frames[k]
  BY DEF Id, FrameAt, frames
<1> HIDE DEF k
<1>7. frames[k] \in Frames
  BY <1>4, <1>5
<1>8. frames[k].kind = "inter" => frames[k].refs # <<>>
  BY <1>1, <1>5, StreamAssumption DEF frames
<1>9. frames[k].kind = "inter" => frames[k].refs[1] \in RefSlots
  <2>1. frames[k].refs \in Seq(RefSlots)
    BY <1>7 DEF Frames
  <2> QED
    BY <1>8, <2>1
<1> QED
  BY <1>3, <1>5, <1>6, <1>7, <1>9 DEF frames, Contents

\* The fields of a header keep their types.
LEMMA EndOfTagTypes ==
    ASSUME NEW e \in Header, NEW d \in Header, NEW f \in Frames,
           NEW id \in Contents
    PROVE  LET n == EndOfTag(e, d, f, id)
           IN  /\ n \in Header
               /\ n.key_frame = e.key_frame
               /\ n.show_existing_frame = e.show_existing_frame
               /\ n.reset_frame_flags = e.reset_frame_flags
               /\ n.refresh_frame_flags = e.refresh_frame_flags
<1> DEFINE deltas == DecodeLfParams(d, f, id)
           features == DecodeSegmentationData(d, f, id)
           context == IF Vp9Resets(d, f) THEN 0 ELSE f.context
           saves == ~f.resilient /\ f.save
           n == EndOfTag(e, d, f, id)
<1>1. /\ deltas \in Contents /\ features \in Contents
      /\ context \in Contexts /\ saves \in BOOLEAN
      /\ f.filter \in {"off", "keep", "update"}
      /\ f.segment \in {"off", "keep", "update"}
  <2>1. /\ Default \in Contents /\ d.deltas \in Contents
        /\ d.features \in Contents
    BY DEF Default, Contents, Header
  <2>2. 0 \in Contexts /\ f.context \in Contexts
    BY StreamAssumption DEF Contexts, Frames
  <2> QED
    BY <2>1, <2>2 DEF Frames, DecodeLfParams, DecodeSegmentationData
<1>2. n = [e EXCEPT !.refresh_entropy_probs = saves,
                    !.frame_context_idx = context,
                    !.filter = f.filter, !.deltas = deltas,
                    !.segment = f.segment, !.features = features]
  BY DEF EndOfTag
<1> HIDE DEF deltas, features, context, saves, n
<1> DEFINE m == [e EXCEPT !.refresh_entropy_probs = saves,
                          !.frame_context_idx = context,
                          !.filter = f.filter]
<1>3. /\ m \in Header
      /\ m.key_frame = e.key_frame
      /\ m.show_existing_frame = e.show_existing_frame
      /\ m.reset_frame_flags = e.reset_frame_flags
      /\ m.refresh_frame_flags = e.refresh_frame_flags
  BY <1>1 DEF Header
<1>4. n = [m EXCEPT !.deltas = deltas, !.segment = f.segment,
                    !.features = features]
  BY <1>2
<1> HIDE DEF m
<1>5. /\ n \in Header
      /\ n.key_frame = m.key_frame
      /\ n.show_existing_frame = m.show_existing_frame
      /\ n.reset_frame_flags = m.reset_frame_flags
      /\ n.refresh_frame_flags = m.refresh_frame_flags
  BY <1>1, <1>3, <1>4 DEF Header
<1> QED
  BY <1>3, <1>5 DEF n

\* The tags of key frames and of others.
LEMMA TagTypes ==
    ASSUME NEW e \in Header, NEW f \in Frames
    PROVE  /\ KeyTag(e, f) \in Header /\ NonKeyTag(e, f) \in Header
           /\ KeyTag(e, f).key_frame /\ ~NonKeyTag(e, f).key_frame
           /\ KeyTag(e, f).refresh_frame_flags = RefSlots
           /\ KeyTag(e, f).show_existing_frame = e.show_existing_frame
           /\ NonKeyTag(e, f).show_existing_frame = e.show_existing_frame
           /\ NonKeyTag(e, f).reset_frame_flags = e.reset_frame_flags
<1> DEFINE intra == IntraOnly(e, f)
           reset == IF f.resilient THEN 0 ELSE f.reset
           refs == IF f.kind = "intra" THEN e.active_ref_idx ELSE f.refs
<1>1. intra \in BOOLEAN
  BY DEF IntraOnly, Header, Frames
<1>2. /\ reset \in 0 .. 3 /\ refs \in Seq(RefSlots)
      /\ f.show \in BOOLEAN /\ f.resilient \in BOOLEAN
      /\ f.refresh \in SUBSET RefSlots
  BY DEF Header, Frames
<1>3. <<0>> \in Seq(RefSlots)
  BY QueueAssumption DEF RefSlots
<1>4. /\ NonKeyTag(e, f) =
            [e EXCEPT !.key_frame = FALSE, !.show_frame = f.show,
                      !.error_resilient = f.resilient, !.intra_only = intra,
                      !.reset_frame_context = reset,
                      !.refresh_frame_flags = f.refresh,
                      !.active_ref_idx = refs]
      /\ KeyTag(e, f) =
            [e EXCEPT !.key_frame = TRUE, !.show_frame = f.show,
                      !.error_resilient = f.resilient,
                      !.reset_frame_flags = TRUE,
                      !.refresh_frame_flags = RefSlots,
                      !.active_ref_idx = <<0>>]
  BY DEF NonKeyTag, KeyTag
<1> DEFINE m == [e EXCEPT !.key_frame = FALSE, !.show_frame = f.show,
                          !.error_resilient = f.resilient,
                          !.intra_only = intra]
           n == NonKeyTag(e, f)
<1> HIDE DEF intra, reset, refs
<1>5. /\ KeyTag(e, f) \in Header
      /\ KeyTag(e, f).key_frame
      /\ KeyTag(e, f).refresh_frame_flags = RefSlots
      /\ KeyTag(e, f).show_existing_frame = e.show_existing_frame
  <2> DEFINE k == [e EXCEPT !.key_frame = TRUE, !.show_frame = f.show,
                            !.error_resilient = f.resilient]
             x == KeyTag(e, f)
  <2>1. /\ k \in Header /\ k.key_frame = TRUE
        /\ k.show_existing_frame = e.show_existing_frame
    BY <1>2 DEF Header
  <2>2. x = [k EXCEPT !.reset_frame_flags = TRUE,
                      !.refresh_frame_flags = RefSlots,
                      !.active_ref_idx = <<0>>]
    BY <1>4
  <2> HIDE DEF k, x
  <2>3. /\ x \in Header /\ x.key_frame = TRUE
        /\ x.refresh_frame_flags = RefSlots
        /\ x.show_existing_frame = e.show_existing_frame
    BY <1>3, <2>1, <2>2 DEF Header
  <2> QED
    BY <2>3 DEF x
<1>6. /\ m \in Header /\ m.key_frame = FALSE
      /\ m.show_existing_frame = e.show_existing_frame
      /\ m.reset_frame_flags = e.reset_frame_flags
  <2> DEFINE k == [e EXCEPT !.key_frame = FALSE, !.show_frame = f.show]
  <2>1. /\ k \in Header /\ k.key_frame = FALSE
        /\ k.show_existing_frame = e.show_existing_frame
        /\ k.reset_frame_flags = e.reset_frame_flags
    BY <1>2 DEF Header
  <2>2. m = [k EXCEPT !.error_resilient = f.resilient,
                      !.intra_only = intra]
    OBVIOUS
  <2> HIDE DEF k, m
  <2> QED
    BY <1>1, <1>2, <2>1, <2>2 DEF Header
<1>7. n = [m EXCEPT !.reset_frame_context = reset,
                    !.refresh_frame_flags = f.refresh,
                    !.active_ref_idx = refs]
  BY <1>4
<1> HIDE DEF m, n
<1>8. /\ n \in Header /\ n.key_frame = FALSE
      /\ n.show_existing_frame = e.show_existing_frame
      /\ n.reset_frame_flags = e.reset_frame_flags
  BY <1>2, <1>6, <1>7 DEF Header
<1> QED
  BY <1>5, <1>8 DEF n

\* What a frame of each kind leaves in the header.
LEMMA FrameTagTypes ==
    ASSUME NEW d \in Header, NEW f \in Frames, NEW id \in Contents
    PROVE  LET n == FrameTag(d, f, id)
           IN  /\ n \in Header
               /\ n.show_existing_frame <=> f.kind = "existing"
               /\ f.kind = "key" => /\ n.key_frame
                                    /\ n.refresh_frame_flags = RefSlots
               /\ f.kind # "key" => ~n.reset_frame_flags
               /\ f.kind \notin {"key", "existing"} => ~n.key_frame
<1> DEFINE e == [Previous(d, f) EXCEPT !.reset_frame_flags = FALSE,
                                       !.show_existing_frame = FALSE]
           n == FrameTag(d, f, id)
<1>1. /\ e \in Header
      /\ e.show_existing_frame = FALSE /\ e.reset_frame_flags = FALSE
  <2>1. Previous(d, f) \in Header
    BY DEF Previous, Header
  <2> QED
    BY <2>1 DEF Header
<1>2. n = IF f.kind = "existing"
          THEN [e EXCEPT !.show_existing_frame = TRUE,
                         !.refresh_frame_flags = {}]
          ELSE IF f.kind = "key" THEN EndOfTag(KeyTag(e, f), d, f, id)
          ELSE IF LacksRef(f) THEN NonKeyTag(e, f)
          ELSE EndOfTag(NonKeyTag(e, f), d, f, id)
  BY DEF FrameTag
<1> HIDE DEF e
<1>3. CASE f.kind = "existing"
  <2>1. n = [e EXCEPT !.show_existing_frame = TRUE,
                      !.refresh_frame_flags = {}]
    BY <1>2, <1>3
  <2> HIDE DEF n
  <2>2. n \in Header /\ n.show_existing_frame = TRUE
        /\ n.reset_frame_flags = FALSE
    BY <1>1, <2>1 DEF Header
  <2> QED
    BY <1>3, <2>2 DEF n
<1>4. CASE f.kind = "key"
  <2>1. n = EndOfTag(KeyTag(e, f), d, f, id)
    BY <1>2, <1>4
  <2>2. /\ KeyTag(e, f) \in Header /\ KeyTag(e, f).key_frame
        /\ KeyTag(e, f).refresh_frame_flags = RefSlots
        /\ KeyTag(e, f).show_existing_frame = FALSE
    BY <1>1, TagTypes
  <2> HIDE DEF n
  <2>3. /\ n \in Header /\ n.key_frame /\ ~n.show_existing_frame
        /\ n.refresh_frame_flags = RefSlots
    BY <2>1, <2>2, EndOfTagTypes
  <2> QED
    BY <1>4, <2>3 DEF n
<1>5. CASE f.kind \notin {"key", "existing"}
  <2>1. /\ NonKeyTag(e, f) \in Header /\ ~NonKeyTag(e, f).key_frame
        /\ NonKeyTag(e, f).show_existing_frame = FALSE
        /\ NonKeyTag(e, f).reset_frame_flags = FALSE
    BY <1>1, TagTypes
  <2>2. n \in {NonKeyTag(e, f), EndOfTag(NonKeyTag(e, f), d, f, id)}
    BY <1>2, <1>5
  <2> HIDE DEF n
  <2>3. /\ n \in Header /\ ~n.key_frame /\ ~n.show_existing_frame
        /\ ~n.reset_frame_flags
    BY <2>1, <2>2, EndOfTagTypes
  <2> QED
    BY <1>5, <2>3 DEF n
<1> QED
  BY <1>3, <1>4, <1>5

-----------------------------------------------------------------------------
(* The start, and the steps that leave the core alone. *)

\* At the start every buffer is in the ring.
LEMMA InitHeld == Held(Vp9BufferQueueInitialize, {})
<1> DEFINE r == Vp9BufferQueueInitialize
<1>1. /\ r.nodes = [i \in Places |-> i] /\ r.tail_index = 0
      /\ r.num_of_objects = NumBuffers /\ r.n_buffers = NumBuffers
      /\ r.n_references = [b \in Buffers |-> 0]
      /\ r.ref_status = [s \in RefSlots |-> REFERENCE_NOT_SET]
  BY DEF Vp9BufferQueueInitialize
<1>2. r \in Queue
  <2>1. /\ [i \in Places |-> i] \in [Places -> Buffers]
        /\ 0 \in Places /\ NumBuffers \in Int
        /\ NumBuffers \in NumBuffers .. MaxBuffers
        /\ [b \in Buffers |-> 0] \in [Buffers -> Int]
        /\ [s \in RefSlots |-> REFERENCE_NOT_SET] \in
               [RefSlots -> Buffers \cup {REFERENCE_NOT_SET}]
    BY QueueAssumption DEF Places, Buffers
  <2> QED
    BY <2>1 DEF Vp9BufferQueueInitialize, Queue
<1> HIDE DEF r
<1>3. /\ NumBuffers \in Nat \ {0}
      /\ Pool(r) = Places /\ Stores(r) = Places /\ Places \subseteq Buffers
  BY <1>1, QueueAssumption DEF Pool, Stores, Places, Buffers
<1>4. \A k \in Places : Stored(r, k) = k
  <2> SUFFICES ASSUME NEW k \in Places PROVE Stored(r, k) = k
    OBVIOUS
  <2>1. (0 + k) % NumBuffers = k
    BY <1>3 DEF Places
  <2> QED
    BY <1>1, <2>1 DEF Stored
<1>5. RingSound(r)
  <2>1. r.num_of_objects \in 0 .. NumBuffers
    BY <1>1, <1>3
  <2> QED
    BY <1>1, <1>2, <1>3, <1>4, <2>1 DEF RingSound
<1>6. SlotsCounted(r, {})
  <2>1. \A b \in Buffers : SlotCount(r, b) = 0
    <3>1. REFERENCE_NOT_SET \notin Buffers
      BY DEF REFERENCE_NOT_SET, Buffers
    <3> QED
      BY <1>1, <3>1, SlotCountIs
  <2> QED
    BY <1>1, <2>1 DEF SlotsCounted
<1>7. Grown(r, {})
  <2>1. Cardinality({}) = 0
    BY FS_EmptySet
  <2> QED
    BY <1>1, <1>3, <2>1 DEF Grown
<1> QED
  BY <1>5, <1>6, <1>7 DEF Held, r

\* The invariant holds at the start: nothing is decoded, and a stream begins
\* with a key frame.
LEMMA InitCountInv == Init => CountInv
<1> SUFFICES ASSUME Init PROVE CountInv
  OBVIOUS
<1>1. /\ Streams[stream] \in Seq(Units) /\ stream \in DOMAIN Streams
      /\ 0 \in Buffers /\ 0 \in Contexts /\ <<0>> \in Seq(RefSlots)
      /\ FbmFrames \in Nat /\ MaxFaults \in Nat /\ MaxResets \in Nat
  BY StreamAssumption, Vp9Assumption, QueueAssumption
     DEF Init, Buffers, Contexts, RefSlots
<1>2. q \in Queue /\ Held(q, {})
  BY InitHeld DEF Init, Held, RingSound
<1>3. Nothing \in Contents
  BY DEF Nothing, Contents
<1>4. /\ h \in Header /\ ~h.show_existing_frame
  BY <1>1, <1>3 DEF Init, NewHeader, Header
<1>5. pool \in Pictures
  BY <1>3 DEF Init, Pictures
<1>6. fbm \in Frees
      /\ fbm.free + Len(fbm.display) + fbm.held + fbm.lost = FbmFrames
  BY <1>1 DEF Init, NewFbm, Frees
<1>7. /\ \A s \in RefSlots :
            q.ref_status[s] \in Buffers \cup {REFERENCE_NOT_SET}
      /\ \A i \in Places : q.nodes[i] \in Buffers
      /\ q.tail_index \in Places /\ q.n_buffers \in NumBuffers .. MaxBuffers
  BY <1>2 DEF Queue
<1>8. TypeOK
  <2>1. Len(Streams[stream]) \in Nat
    BY <1>1
  <2>2. /\ next \in 1 .. Len(Streams[stream]) + 1
        /\ unit \in 0 .. Len(Streams[stream])
    BY <2>1 DEF Init
  <2>3. /\ prev_out_buffer_i \in Buffers
        /\ faults \in 0 .. MaxFaults /\ resets \in 0 .. MaxResets
    BY <1>1 DEF Init
  <2>4. /\ nFrameNums \in 0 .. 2 /\ active_segment_map \in {0, 1}
        /\ nDecStep \in {"data", "header", "frame", "result"}
        /\ busy \in BOOLEAN /\ pic_number \in {1, 2}
        /\ pts.cur >= 0 /\ pts.pre >= 0
        /\ halted \in {"no", "aborted", "crashed"}
    <3>1. /\ nFrameNums = 0 /\ active_segment_map = 0 /\ nDecStep = "data"
          /\ busy = FALSE /\ pic_number = 1 /\ halted = "no"
          /\ pts = [cur |-> 0, pre |-> 0]
      BY DEF Init
    <3>2. pts.cur >= 0 /\ pts.pre >= 0
      BY <3>1
    <3>3. busy \in BOOLEAN
      BY <3>1, Zenon
    <3>4. /\ nFrameNums \in 0 .. 2 /\ active_segment_map \in {0, 1}
          /\ pic_number \in {1, 2}
      BY <3>1
    <3> QED
      BY <3>1, <3>2, <3>3, <3>4, Zenon
  <2> QED
    BY <1>1, <1>6, <1>7, <2>2, <2>3, <2>4 DEF TypeOK
<1>9. Types
  BY <1>1, <1>2, <1>4, <1>5, <1>6, <1>8 DEF Init, Ghost, Types
<1>10. UnitAtHand
  BY DEF Init, UnitAtHand
<1>11. HeaderRead
  BY <1>4 DEF Init, HeaderRead
<1>12. ReferencesHeld
  BY <1>2 DEF Init, Ghost, ReferencesHeld
<1>13. KeyNext
  <2>1. 1 \in DOMAIN Streams[stream] => Streams[stream] # <<>>
    BY <1>1
  <2> QED
    BY <1>1, <2>1, StreamAssumption DEF Init, KeyNext
<1> QED
  BY <1>9, <1>10, <1>11, <1>12, <1>13 DEF Init, Ghost, Primed, CountInv

\* What a step that leaves core, ghost and faults alone has to show.
LEMMA CoreAlone ==
    ASSUME CountInv,
           UNCHANGED <<coreVars, halted, faults, g.repeated, g.leaked>>,
           Types', UnitAtHand',
           nDecStep' = "frame" => nDecStep = "frame",
           KeyNext => KeyNext'
    PROVE  CountInv'
<1>1. UNCHANGED <<q, h, pool>>
  BY DEF coreVars
<1>2. HeaderRead'
  BY <1>1 DEF CountInv, HeaderRead
<1>3. ReferencesHeld'
  BY <1>1 DEF CountInv, ReferencesHeld
<1>4. SlotsFilled => SlotsFilled'
  BY <1>1 DEF SlotsFilled
<1>5. Primed'
  BY <1>4 DEF CountInv, Primed
<1> QED
  BY <1>2, <1>3, <1>5 DEF CountInv

\* A new unit.
LEMMA PrepareDataInv == CountInv /\ PrepareData => CountInv'
<1> SUFFICES ASSUME CountInv, PrepareData PROVE CountInv'
  OBVIOUS
<1> DEFINE frames == Streams[stream][next].frames
<1>1. /\ Streams[stream] \in Seq(Units) /\ stream \in DOMAIN Streams
      /\ next \in 1 .. Len(Streams[stream]) /\ next \in DOMAIN Streams[stream]
      /\ next + 1 \in 1 .. Len(Streams[stream]) + 1
      /\ next \in 0 .. Len(Streams[stream])
  <2>1. /\ stream \in DOMAIN Streams
        /\ next \in 1 .. Len(Streams[stream]) + 1
        /\ next <= Len(Streams[stream])
    BY DEF CountInv, Types, TypeOK, PrepareData
  <2>2. Streams[stream] \in Seq(Units)
    BY <2>1, StreamAssumption
  <2> QED
    BY <2>1, <2>2
<1>2. /\ Streams[stream][next].pts \in Nat /\ frames \in Seq(Frames)
      /\ Len(frames) \in {1, 2}
  <2>1. Streams[stream][next] \in Units
    BY <1>1
  <2>2. Len(frames) \in {1, 2}
    BY <1>1, StreamAssumption
  <2> QED
    BY <2>1, <2>2 DEF Units
<1>3. TypeOK'
  BY <1>1, <1>2 DEF CountInv, Types, TypeOK, PrepareData, coreVars
<1>4. Types'
  <2>1. pts' = [pts EXCEPT !.cur = Streams[stream][next].pts]
    BY DEF PrepareData
  <2>2. pts' \in [cur : Nat, pre : Nat]
    BY <1>2, <2>1 DEF CountInv, Types
  <2> QED
    BY <1>3, <2>2 DEF CountInv, Types, PrepareData, coreVars
<1>5. UnitAtHand'
  <2>1. /\ stream' = stream /\ unit' = next /\ nFrameNums' = Len(frames)
        /\ nDecStep' = "header"
    BY DEF PrepareData
  <2>2. Len(frames) \in 0 .. Len(frames) /\ Len(frames) # 0
    <3> DEFINE length == Len(frames)
    <3>1. length \in {1, 2}
      BY <1>2
    <3> HIDE DEF length
    <3>2. length \in 0 .. length /\ length # 0
      BY <3>1
    <3> QED
      BY <3>2 DEF length
  <2> QED
    BY <1>1, <2>1, <2>2 DEF UnitAtHand
<1>6. KeyNext => KeyNext'
  <2> SUFFICES ASSUME KeyNext PROVE KeyNext'
    OBVIOUS
  <2>1. frames[1].kind = "key"
    BY <1>1 DEF KeyNext, PrepareData
  <2>2. Id' = <<next, 1>>
    BY <1>2 DEF Id, PrepareData
  <2>3. FrameAt(stream, <<next, 1>>) = frames[1]
    BY DEF FrameAt
  <2>4. nDecStep' = "header" /\ stream' = stream
    BY DEF PrepareData
  <2>5. FrameAt(stream, Id)' = frames[1]
    BY <2>2, <2>3, <2>4 DEF FrameAt
  <2> QED
    BY <2>1, <2>4, <2>5 DEF KeyNext
<1> QED
  BY <1>4, <1>5, <1>6, CoreAlone DEF PrepareData

\* No frame buffer: nothing has changed but that the call is over.
LEMMA NoFrameBufferInv == CountInv /\ NoFrameBuffer => CountInv'
<1> SUFFICES ASSUME CountInv, NoFrameBuffer PROVE CountInv'
  OBVIOUS
<1>1. Types'
  BY DEF CountInv, Types, TypeOK, NoFrameBuffer, coreVars
<1>2. UnitAtHand'
  BY DEF CountInv, UnitAtHand, NoFrameBuffer
<1>3. KeyNext => KeyNext'
  BY DEF KeyNext, Id, FrameAt, NoFrameBuffer, coreVars
<1> QED
  BY <1>1, <1>2, <1>3, CoreAlone DEF NoFrameBuffer

\* After a bus error the next header is read.
LEMMA AfterBusErrorInv == CountInv /\ AfterBusError => CountInv'
<1> SUFFICES ASSUME CountInv, AfterBusError PROVE CountInv'
  OBVIOUS
<1>1. Types'
  <2>1. 0 \in 0 .. Len(Streams[stream])
    <3>1. Streams[stream] \in Seq(Units)
      BY StreamAssumption DEF CountInv, Types, TypeOK
    <3> QED
      BY <3>1
  <2>2. TypeOK'
    BY <2>1 DEF CountInv, Types, TypeOK, AfterBusError, FrameDone
  <2> QED
    BY <2>2 DEF CountInv, Types, AfterBusError
<1>2. UnitAtHand'
  BY DEF CountInv, UnitAtHand, AfterBusError, FrameDone
<1>3. ~KeyNext
  BY DEF KeyNext, AfterBusError
<1>4. UNCHANGED <<q, h, pool, halted, faults, g, stream>>
  BY DEF AfterBusError
<1>5. HeaderRead'
  BY <1>4 DEF CountInv, HeaderRead, AfterBusError, FrameDone
<1>6. ReferencesHeld'
  BY <1>4 DEF CountInv, ReferencesHeld
<1>7. Primed'
  BY <1>3, <1>4 DEF CountInv, Primed, SlotsFilled
<1> QED
  BY <1>1, <1>2, <1>5, <1>6, <1>7 DEF CountInv

\* The player takes a picture...
LEMMA TakePictureInv == CountInv /\ TakePicture => CountInv'
<1> SUFFICES ASSUME CountInv, TakePicture PROVE CountInv'
  OBVIOUS
<1>1. /\ fbm.display \in Seq(Displayed) /\ fbm.display # <<>>
      /\ fbm.held \in Nat /\ fbm.free \in Nat /\ fbm.lost \in Nat
      /\ fbm \in Frees
      /\ fbm' = [fbm EXCEPT !.display = Tail(fbm.display),
                            !.held = fbm.held + 1]
  BY DEF CountInv, Types, TakePicture, Frees
<1>2. /\ Tail(fbm.display) \in Seq(Displayed)
      /\ Len(Tail(fbm.display)) = Len(fbm.display) - 1
      /\ Len(fbm.display) \in Nat
  BY <1>1
<1>3. /\ fbm' \in Frees
      /\ fbm'.free = fbm.free /\ fbm'.lost = fbm.lost
      /\ fbm'.held = fbm.held + 1 /\ fbm'.display = Tail(fbm.display)
  <2> DEFINE rest == Tail(fbm.display)
             taken == fbm.held + 1
  <2>1. taken \in Nat /\ rest \in Seq(Displayed)
    BY <1>1, <1>2
  <2>2. fbm' = [fbm EXCEPT !.display = rest, !.held = taken]
    BY <1>1
  <2> HIDE DEF rest, taken
  <2>3. fbm' \in Frees /\ fbm'.free = fbm.free /\ fbm'.lost = fbm.lost
        /\ fbm'.held = taken /\ fbm'.display = rest
    BY <1>1, <2>1, <2>2 DEF Frees
  <2> QED
    BY <2>3 DEF rest, taken
<1>4. fbm'.free + Len(fbm'.display) + fbm'.held + fbm'.lost = FbmFrames
  <2> DEFINE there == Len(fbm.display)
             left == Len(fbm'.display)
  <2>1. fbm.free + there + fbm.held + fbm.lost = FbmFrames
    BY DEF CountInv, Types, TypeOK
  <2>2. left = there - 1 /\ there \in Nat
    BY <1>2, <1>3
  <2> HIDE DEF there, left
  <2>3. fbm'.free + left + fbm'.held + fbm'.lost = FbmFrames
    BY <1>1, <1>3, <2>1, <2>2
  <2> QED
    BY <2>3 DEF left
<1>5. /\ g' = [g EXCEPT !.out = Append(g.out, Head(fbm.display))]
      /\ UNCHANGED <<stream, next, decVars, coreVars, pts, halted, faults,
                     resets>>
  BY DEF TakePicture
<1>6. /\ g'.repeated = g.repeated /\ g'.leaked = g.leaked
      /\ g' = [from |-> g'.from, clean |-> g'.clean, hurt |-> g'.hurt,
               repeated |-> g'.repeated, leaked |-> g'.leaked,
               used |-> g'.used, out |-> g'.out]
  BY <1>5 DEF CountInv, Types
<1>7. TypeOK'
  BY <1>4, <1>5 DEF CountInv, Types, TypeOK, decVars, coreVars
<1>8. Types'
  BY <1>3, <1>5, <1>6, <1>7 DEF CountInv, Types, coreVars
<1>9. UnitAtHand'
  BY <1>5 DEF CountInv, UnitAtHand, decVars
<1>10. KeyNext => KeyNext'
  BY <1>5 DEF KeyNext, Id, FrameAt, decVars, coreVars
<1>11. nDecStep' = nDecStep
  BY <1>5 DEF decVars
<1> QED
  BY <1>5, <1>6, <1>8, <1>9, <1>10, <1>11, CoreAlone

\* ... and gives one back.
LEMMA ReturnPictureInv == CountInv /\ ReturnPicture => CountInv'
<1> SUFFICES ASSUME CountInv, ReturnPicture PROVE CountInv'
  OBVIOUS
<1>1. /\ fbm.held \in Nat \ {0} /\ fbm.free \in Nat /\ fbm.lost \in Nat
      /\ fbm \in Frees
      /\ fbm' = [fbm EXCEPT !.held = fbm.held - 1, !.free = fbm.free + 1]
  BY DEF CountInv, Types, ReturnPicture, Frees
<1>2. /\ fbm' \in Frees
      /\ fbm'.free = fbm.free + 1 /\ fbm'.lost = fbm.lost
      /\ fbm'.held = fbm.held - 1 /\ fbm'.display = fbm.display
      /\ Len(fbm.display) \in Nat
  <2>1. fbm.held - 1 \in Nat /\ fbm.free + 1 \in Nat
    BY <1>1
  <2>2. fbm.display \in Seq(Displayed)
    BY <1>1 DEF Frees
  <2>3. Len(fbm.display) \in Nat
    BY <2>2
  <2> QED
    BY <1>1, <2>1, <2>3 DEF Frees
<1>3. fbm'.free + Len(fbm'.display) + fbm'.held + fbm'.lost = FbmFrames
  <2> DEFINE there == Len(fbm.display)
  <2>1. fbm.free + there + fbm.held + fbm.lost = FbmFrames
    BY DEF CountInv, Types, TypeOK
  <2>2. Len(fbm'.display) = there /\ there \in Nat
    BY <1>2
  <2> HIDE DEF there
  <2>3. /\ fbm.held \in Nat /\ fbm.free \in Nat /\ fbm.lost \in Nat
        /\ fbm'.free = fbm.free + 1 /\ fbm'.lost = fbm.lost
        /\ fbm'.held = fbm.held - 1 /\ there \in Nat
    BY <1>1, <1>2, <2>2
  <2>4. fbm'.free + there + fbm'.held + fbm'.lost = FbmFrames
    BY <2>1, <2>3
  <2> QED
    BY <2>2, <2>4
<1>4. UNCHANGED <<stream, next, decVars, coreVars, pts, halted, faults, resets,
                  g>>
  BY DEF ReturnPicture
<1>5. TypeOK'
  BY <1>3, <1>4 DEF CountInv, Types, TypeOK, decVars, coreVars
<1>6. Types'
  BY <1>2, <1>4, <1>5 DEF CountInv, Types, coreVars
<1>7. UnitAtHand'
  BY <1>4 DEF CountInv, UnitAtHand, decVars
<1>8. KeyNext => KeyNext'
  BY <1>4 DEF KeyNext, Id, FrameAt, decVars, coreVars
<1>9. nDecStep' = nDecStep
  BY <1>4 DEF decVars
<1> QED
  BY <1>4, <1>6, <1>7, <1>8, <1>9, CoreAlone

\* A seek goes to a key frame.
LEMMA SeekInv == CountInv /\ Seek => CountInv'
<1> SUFFICES ASSUME CountInv, Seek PROVE CountInv'
  OBVIOUS
<1>1. PICK to \in SeekPoints(stream) :
         /\ next' = to
         /\ g' = [g EXCEPT !.from = to, !.hurt = FALSE, !.out = <<>>]
  BY DEF Seek
<1>2. /\ to \in DOMAIN Streams[stream]
      /\ Streams[stream][to].frames[1].kind = "key"
      /\ Streams[stream] \in Seq(Units) /\ stream \in DOMAIN Streams
      /\ to \in 1 .. Len(Streams[stream]) + 1
      /\ Len(Streams[stream]) \in Nat
  <2>1. /\ to \in DOMAIN Streams[stream] /\ stream \in DOMAIN Streams
        /\ Streams[stream][to].frames[1].kind = "key"
    BY DEF SeekPoints, CountInv, Types, TypeOK
  <2>2. Streams[stream] \in Seq(Units)
    BY <2>1, StreamAssumption
  <2> QED
    BY <2>1, <2>2
<1>3. /\ fbm.display \in Seq(Displayed) /\ Len(fbm.display) \in Nat
      /\ fbm.held \in Nat /\ fbm.free \in Nat /\ fbm.lost \in Nat
      /\ fbm \in Frees
      /\ fbm' = [fbm EXCEPT !.free = fbm.free + Len(fbm.display),
                            !.display = <<>>]
  BY DEF CountInv, Types, Seek, Frees
<1>4. /\ fbm' \in Frees
      /\ fbm'.free = fbm.free + Len(fbm.display) /\ fbm'.lost = fbm.lost
      /\ fbm'.held = fbm.held /\ fbm'.display = <<>>
  <2>1. <<>> \in Seq(Displayed) /\ fbm.free + Len(fbm.display) \in Nat
    BY <1>3
  <2> QED
    BY <1>3, <2>1 DEF Frees
<1>5. fbm'.free + Len(fbm'.display) + fbm'.held + fbm'.lost = FbmFrames
  BY <1>3, <1>4 DEF CountInv, Types, TypeOK
<1>6. /\ g'.repeated = g.repeated /\ g'.leaked = g.leaked
      /\ g' = [from |-> g'.from, clean |-> g'.clean, hurt |-> g'.hurt,
               repeated |-> g'.repeated, leaked |-> g'.leaked,
               used |-> g'.used, out |-> g'.out]
  BY <1>1 DEF CountInv, Types
<1>7. /\ unit' = 0 /\ nDecStep' = "data"
      /\ pts' = [pts EXCEPT !.pre = 0] /\ resets' = resets + 1
      /\ resets < MaxResets
      /\ UNCHANGED <<stream, nFrameNums, busy, coreVars, halted, faults>>
  BY DEF Seek, ResetPts
<1>8. pts'.cur >= 0 /\ pts'.pre >= 0
  BY <1>7 DEF CountInv, Types, TypeOK
<1>9. TypeOK'
  <2>1. resets' \in 0 .. MaxResets
    <3>1. resets \in 0 .. MaxResets /\ MaxResets \in Nat
      BY Vp9Assumption DEF CountInv, Types, TypeOK
    <3> QED
      BY <1>7, <3>1
  <2>2. 0 \in 0 .. Len(Streams[stream])
    BY <1>2
  <2> QED
    BY <1>1, <1>2, <1>5, <1>7, <1>8, <2>1, <2>2
       DEF CountInv, Types, TypeOK, coreVars
<1>10. Types'
  BY <1>4, <1>6, <1>7, <1>9 DEF CountInv, Types, coreVars
<1>11. UnitAtHand'
  BY <1>7 DEF UnitAtHand
<1>12. KeyNext'
  BY <1>1, <1>2, <1>7 DEF KeyNext
<1> QED
  BY <1>6, <1>7, <1>10, <1>11, <1>12, CoreAlone


-----------------------------------------------------------------------------
(* A header. *)

\* A frame shown again leaves a queue, whatever its counts are.
LEMMA ShowExistingTypes ==
    ASSUME q \in Queue, h \in Header, NEW f \in Frames
    PROVE  ShowExisting(f) \in Queue
<1> DEFINE b == Vp9BufferQueueGetRef(q, f.index)
           added == IF b = REFERENCE_NOT_SET THEN q ELSE IncreaseRefCount(q, b)
<1>1. b \in Buffers \cup {REFERENCE_NOT_SET}
  BY DEF Vp9BufferQueueGetRef, Queue, Frames
<1>2. h.pic_callback_arg.index \in Buffers
  BY DEF Header
<1>3. ShowExisting(f) = IF h.pic_callback_arg.show_frame
                        THEN DecreaseRefCount(added, h.pic_callback_arg.index)
                        ELSE added
  BY DEF ShowExisting
<1> HIDE DEF b
<1>4. added \in Queue
  BY <1>1, CountTypes
<1> HIDE DEF added
<1> QED
  BY <1>2, <1>3, <1>4, CountTypes

\* A frame that is not shown again leaves the queue alone, and the decoder goes
\* on: the size of a predicted frame is known, or a key frame was next.
LEMMA DecodeHeaderInv == CountInv /\ DecodeHeader => CountInv'
<1> SUFFICES ASSUME CountInv, DecodeHeader PROVE CountInv'
  OBVIOUS
<1> DEFINE f == FrameAt(stream, Id)
           existing == f.kind = "existing"
           again == g.repeated \/ existing
<1>1. /\ Types /\ UnitAtHand /\ nDecStep = "header" /\ halted = "no"
      /\ q \in Queue /\ h \in Header
  BY DEF CountInv, Types, DecodeHeader
<1>2. /\ f \in Frames /\ Id \in Contents
      /\ f.kind = "inter" => f.refs[1] \in RefSlots
  BY <1>1, FrameAtHand
<1>3. /\ h' = FrameTag(h, f, Id)
      /\ halted' \in IF SizeUnknown(f) THEN {"aborted"}
                     ELSE IF existing THEN {"no", "crashed"} ELSE {"no"}
      /\ q' = IF existing THEN ShowExisting(f) ELSE q
      /\ \E clean, hurt : g' = [g EXCEPT !.clean = clean, !.hurt = hurt,
                                         !.repeated = again]
      /\ nDecStep' = "frame" /\ busy' = TRUE /\ active_segment_map' \in {0, 1}
      /\ UNCHANGED <<stream, next, unit, nFrameNums, pool, prev_out_buffer_i,
                     pts, pic_number, fbm, faults, resets>>
  BY <1>1 DEF DecodeHeader, Types, TypeOK
<1> HIDE DEF f
<1>4. /\ h' \in Header /\ (h'.show_existing_frame <=> existing)
      /\ f.kind = "key" => h'.key_frame /\ h'.refresh_frame_flags = RefSlots
      /\ f.kind \notin {"key", "existing"} =>
             ~h'.key_frame /\ ~h'.reset_frame_flags
  BY <1>1, <1>2, <1>3, FrameTagTypes
<1>5. q' \in Queue
  BY <1>1, <1>2, <1>3, ShowExistingTypes
<1>6. again \in BOOLEAN
  BY <1>1 DEF Types
<1>7. /\ g'.repeated = again /\ g'.leaked = g.leaked
      /\ g' = [from |-> g'.from, clean |-> g'.clean, hurt |-> g'.hurt,
               repeated |-> g'.repeated, leaked |-> g'.leaked,
               used |-> g'.used, out |-> g'.out]
  <2> HIDE DEF again
  <2>1. PICK clean, hurt : g' = [g EXCEPT !.clean = clean, !.hurt = hurt,
                                          !.repeated = again]
    BY <1>3
  <2> QED
    BY <1>1, <2>1 DEF Types
<1>8. halted' \in {"no", "aborted", "crashed"}
  BY <1>3
<1>9. TypeOK'
  <2>1. /\ \A s \in RefSlots :
              q'.ref_status[s] \in Buffers \cup {REFERENCE_NOT_SET}
        /\ \A i \in Places : q'.nodes[i] \in Buffers
        /\ q'.tail_index \in Places
        /\ q'.n_buffers \in NumBuffers .. MaxBuffers
    BY <1>5 DEF Queue
  <2> QED
    BY <1>1, <1>3, <1>8, <2>1 DEF Types, TypeOK
<1>10. Types'
  <2>1. g'.repeated \in BOOLEAN
    BY <1>6, <1>7, Zenon
  <2> HIDE DEF again, existing
  <2> QED
    BY <1>1, <1>3, <1>4, <1>5, <1>7, <1>9, <2>1 DEF Types
<1>11. UnitAtHand'
  BY <1>1, <1>3 DEF UnitAtHand
<1>12. HeaderRead'
  BY <1>4, <1>7 DEF HeaderRead
<1>13. ReferencesHeld'
  BY <1>3, <1>7 DEF CountInv, ReferencesHeld
<1>14. Primed'
  <2> SUFFICES ASSUME faults' = 0, ~g'.repeated
               PROVE  /\ halted' = "no" /\ g'.leaked = {}
                      /\ SlotsFilled' \/ KeyNext'
    BY DEF Primed
  <2>1. ~existing /\ g.leaked = {} /\ (SlotsFilled \/ KeyNext) /\ q' = q
    BY <1>3, <1>7 DEF CountInv, Primed
  <2>2. CASE SlotsFilled
    <3>1. ~SizeUnknown(f)
      BY <1>2, <2>2
         DEF SlotsFilled, SizeUnknown, SizeBuffer, Vp9BufferQueueGetRef
    <3>2. SlotsFilled'
      BY <1>3, <2>1, <2>2 DEF SlotsFilled
    <3> QED
      BY <1>3, <1>7, <2>1, <3>1, <3>2
  <2>3. CASE KeyNext
    <3>1. f.kind = "key"
      BY <1>1, <2>3 DEF KeyNext, f
    <3>2. ~SizeUnknown(f)
      BY <3>1 DEF SizeUnknown
    <3>3. KeyNext'
      BY <1>3, <1>4, <3>1 DEF KeyNext
    <3> QED
      BY <1>3, <1>7, <2>1, <3>2, <3>3
  <2> QED
    BY <2>1, <2>2, <2>3
<1> QED
  BY <1>10, <1>11, <1>12, <1>13, <1>14 DEF CountInv

-----------------------------------------------------------------------------
(* A picture. *)

\* The slots after a picture, and the counts: of the two places that give the
\* picture's own reference back one is reached, whether it is shown or not.
LEMMA UpdateRefsHeld ==
    ASSUME h \in Header, NEW r, NEW held, NEW out, out \notin held,
           Held(r, held \cup {out}), Grown(r, held),
           NEW corrupted \in BOOLEAN, NEW shown \in BOOLEAN,
           shown <=> h.show_frame /\ ~(corrupted /\ pic_number # 1)
    PROVE  LET n == UpdateRefs(r, out, corrupted, shown)
           IN  /\ Held(n, held)
               /\ ~corrupted =>
                      \A s \in RefSlots :
                         n.ref_status[s] = IF s \in h.refresh_frame_flags
                                           THEN out
                                           ELSE IF h.reset_frame_flags
                                           THEN REFERENCE_NOT_SET
                                           ELSE r.ref_status[s]
<1> DEFINE emptied == Vp9BufferQueueUpdateRef(r, RefSlots, REFERENCE_NOT_SET)
           reset == IF h.reset_frame_flags THEN emptied ELSE r
           updated == Vp9BufferQueueUpdateRef(reset, h.refresh_frame_flags,
                                              out)
           kept == IF corrupted /\ pic_number = 1 THEN r ELSE updated
           n == UpdateRefs(r, out, corrupted, shown)
<1>1. h.refresh_frame_flags \in SUBSET RefSlots
  BY DEF Header
<1>2. /\ Held(reset, held \cup {out}) /\ reset.n_buffers = r.n_buffers
      /\ \A s \in RefSlots :
            reset.ref_status[s] = IF h.reset_frame_flags THEN REFERENCE_NOT_SET
                                  ELSE r.ref_status[s]
  BY UpdateRefHeld
<1> HIDE DEF emptied, reset
<1>3. /\ Held(updated, held \cup {out}) /\ updated.n_buffers = r.n_buffers
      /\ \A s \in RefSlots :
            updated.ref_status[s] = IF s \in h.refresh_frame_flags THEN out
                                    ELSE reset.ref_status[s]
  BY <1>1, <1>2, UpdateRefHeld
<1> HIDE DEF updated
<1>4. Held(kept, held \cup {out}) /\ kept.n_buffers = r.n_buffers
  BY <1>3
<1>5. Grown(kept, held)
  BY <1>4 DEF Grown
<1>6. n = DecreaseRefCount(kept, out)
  BY DEF UpdateRefs, emptied, reset, updated
<1> HIDE DEF n, kept
<1>7. Held(n, held) /\ n.ref_status = kept.ref_status
  BY <1>4, <1>5, <1>6, DropHeld
<1>8. ~corrupted => kept = updated
  BY DEF kept
<1> QED
  BY <1>2, <1>3, <1>7, <1>8 DEF n

\* Whatever the counts are, the queue stays a queue.
LEMMA UpdateRefsTypes ==
    ASSUME h \in Header, NEW r \in Queue, NEW out \in Buffers,
           NEW corrupted, NEW shown
    PROVE  UpdateRefs(r, out, corrupted, shown) \in Queue
<1> DEFINE emptied == Vp9BufferQueueUpdateRef(r, RefSlots, REFERENCE_NOT_SET)
           reset == IF h.reset_frame_flags THEN emptied ELSE r
           updated == Vp9BufferQueueUpdateRef(reset, h.refresh_frame_flags,
                                              out)
           kept == IF corrupted /\ pic_number = 1 THEN r ELSE updated
           dropped == IF ~h.show_frame \/ (corrupted /\ pic_number # 1)
                      THEN DecreaseRefCount(kept, out) ELSE kept
           n == UpdateRefs(r, out, corrupted, shown)
<1>1. n = IF shown THEN DecreaseRefCount(dropped, out) ELSE dropped
  BY DEF UpdateRefs
<1>2. reset \in Queue
  BY UpdateRefTypes
<1> HIDE DEF emptied, reset
<1>3. updated \in Queue
  BY <1>2, UpdateRefTypes
<1> HIDE DEF updated
<1>4. dropped \in Queue
  BY <1>3, CountTypes
<1> HIDE DEF dropped, n
<1>5. n \in Queue
  BY <1>1, <1>4, CountTypes
<1> QED
  BY <1>5 DEF n

\* What the video engine needs and may not have: a buffer, and references.
Lacking ==
    \/ Vp9GetRefFrm(q).buffer = -1
    \/ Inter /\ \E i \in DOMAIN RefBuffers : RefBuffers[i] = REFERENCE_NOT_SET

\* As long as every picture has come out nothing is lacking.
LEMMA NothingLacks ==
    ASSUME CountInv, nDecStep = "frame", faults = 0, ~g.repeated
    PROVE  ~Lacking
<1>1. /\ g.leaked = {} /\ (SlotsFilled \/ KeyNext) /\ Held(q, g.leaked)
  BY DEF CountInv, Primed, ReferencesHeld
<1>2. Vp9GetRefFrm(q).buffer # -1
  BY <1>1, GetRefFrmThere
<1>3. ASSUME Inter, NEW i \in DOMAIN RefBuffers
      PROVE  RefBuffers[i] # REFERENCE_NOT_SET
  <2>1. SlotsFilled
    BY <1>1, <1>3 DEF KeyNext, Inter
  <2>2. h.active_ref_idx \in Seq(RefSlots) /\ i \in DOMAIN h.active_ref_idx
    BY <1>3 DEF CountInv, Types, Header, RefBuffers
  <2>3. h.active_ref_idx[i] \in RefSlots
    BY <2>2
  <2>4. RefBuffers[i] = q.ref_status[h.active_ref_idx[i]]
    BY <2>2 DEF RefBuffers, Vp9BufferQueueGetRef
  <2> QED
    BY <2>1, <2>3, <2>4 DEF SlotsFilled
<1> QED
  BY <1>2, <1>3 DEF Lacking

\* The counters of a picture's outcome.
LEMMA FaultsCounted ==
    ASSUME CountInv, NEW outcome \in Outcomes, RunPicture(outcome)
    PROVE  /\ faults' \in Nat /\ faults' \in 0 .. MaxFaults
           /\ faults' = 0 => faults = 0 /\ outcome = "ready"
<1>1. /\ faults \in Nat /\ faults \in 0 .. MaxFaults /\ MaxFaults \in Nat
      /\ outcome # "ready" => faults < MaxFaults
      /\ faults' = IF outcome = "ready" THEN faults ELSE faults + 1
  BY Vp9Assumption DEF CountInv, Types, TypeOK, RunPicture
<1> QED
  BY <1>1

\* Where a buffer or a reference is lacking the decoder comes to its end.
LEMMA CrashInv ==
    ASSUME CountInv, NEW outcome \in Outcomes, RunPicture(outcome), Lacking
    PROVE  CountInv'
<1>1. /\ nDecStep = "frame" /\ halted' = "crashed"
      /\ UNCHANGED <<decVars, coreVars, pts, fbm, g, stream, next, resets>>
  BY DEF RunPicture, Lacking
<1>2. /\ faults' \in Nat /\ faults' \in 0 .. MaxFaults
      /\ faults' = 0 => faults = 0
  BY FaultsCounted
<1>3. TypeOK'
  BY <1>1, <1>2 DEF CountInv, Types, TypeOK, decVars, coreVars
<1>4. Types'
  BY <1>1, <1>2, <1>3 DEF CountInv, Types, coreVars
<1>5. UnitAtHand'
  BY <1>1 DEF CountInv, UnitAtHand, decVars
<1>6. HeaderRead'
  BY <1>1 DEF CountInv, HeaderRead, decVars, coreVars
<1>7. ReferencesHeld'
  BY <1>1 DEF CountInv, ReferencesHeld, coreVars
<1>8. Primed'
  BY <1>1, <1>2, NothingLacks DEF Primed
<1> QED
  BY <1>4, <1>5, <1>6, <1>7, <1>8 DEF CountInv

\* What a picture leaves in the pool, in the header and with the frame buffer
\* manager.
LEMMA PictureTypes ==
    ASSUME CountInv, NEW outcome \in Outcomes, RunPicture(outcome), ~Lacking
    PROVE  LET out == Vp9GetRefFrm(q).buffer
           IN  /\ nDecStep = "frame" /\ halted = "no" /\ halted' = "no"
               /\ UNCHANGED <<stream, next, resets>>
               /\ out \in Buffers /\ active_segment_map' \in {0, 1}
               /\ h' \in Header
               /\ h'.show_existing_frame = h.show_existing_frame
               /\ pool' \in Pictures
               /\ \A b \in Buffers : pool[b].info => pool'[b].info
               /\ outcome = "ready" /\ ~h.show_existing_frame =>
                      pool'[out].info
               /\ \A b \in Buffers : b # out => pool'[b] = pool[b]
               /\ pool'[out].pic = IF outcome # "ready" \/ ~g.clean
                                   THEN Broken ELSE Id
               /\ ~h.key_frame => pool'[out].motion = pool'[out].pic
               /\ pts' \in [cur : Nat, pre : Nat]
               /\ fbm' \in Frees
               /\ fbm'.free + Len(fbm'.display) + fbm'.held + fbm'.lost
                      = FbmFrames
               /\ g' = [from |-> g'.from, clean |-> g'.clean, hurt |-> g'.hurt,
                        repeated |-> g'.repeated, leaked |-> g'.leaked,
                        used |-> g'.used, out |-> g'.out]
               /\ g'.repeated = g.repeated
               /\ g'.leaked = IF outcome = "bus" THEN g.leaked \cup {out}
                              ELSE g.leaked
<1> DEFINE out == Vp9GetRefFrm(q).buffer
           wrong == outcome # "ready" \/ ~g.clean
           content == IF wrong THEN Broken ELSE Id
           shown == h.show_existing_frame \/ h.show_frame
           corrupted == outcome = "error"
           output == outcome # "bus" /\ (~corrupted \/ pic_number = 1)
           entry == [frame |-> Id, pts |-> Stamp, content |-> content]
           flag == h.reset_frame_flags
                   /\ (outcome = "bus" \/ (corrupted /\ pic_number = 1))
<1>1. /\ nDecStep = "frame" /\ halted = "no" /\ fbm.free > 0
      /\ UNCHANGED <<stream, next, resets, halted>>
      /\ active_segment_map' = NextMap
      /\ pts' = [cur |-> Stamp, pre |-> Stamp]
      /\ fbm' = IF output THEN Output(fbm, shown, entry)
                ELSE [fbm EXCEPT !.free = @ - 1, !.lost = @ + 1]
  BY DEF RunPicture, Lacking
<1>2. pool' = [pool EXCEPT
                 ![out].pic = content,
                 ![out].motion = IF h.key_frame THEN @ ELSE content,
                 ![out].info = @ \/ (output /\ ~h.show_existing_frame)]
  BY DEF RunPicture, Lacking
<1>3. h' = [h EXCEPT
              !.reset_frame_flags = flag,
              !.pic_callback_arg = [index |-> out, show_frame |-> shown]]
  BY DEF RunPicture, Lacking
<1>4. g' = [g EXCEPT !.used = Registers, !.clean = ~wrong,
                    !.hurt = g.hurt \/ outcome # "ready",
                    !.leaked = IF outcome = "bus" THEN g.leaked \cup {out}
                               ELSE g.leaked]
  BY DEF RunPicture, Lacking
<1>5. /\ q \in Queue /\ h \in Header /\ pool \in Pictures /\ fbm \in Frees
      /\ pts \in [cur : Nat, pre : Nat]
      /\ fbm.free + Len(fbm.display) + fbm.held + fbm.lost = FbmFrames
      /\ active_segment_map \in {0, 1}
  BY DEF CountInv, Types, TypeOK
<1>6. out \in Buffers
  BY <1>5, GetRefFrmTypes DEF Lacking
<1>7. content \in Contents /\ Id \in Contents
  <2>1. Broken \in Contents
    BY DEF Broken, Contents
  <2>2. Id \in Contents
    BY <1>1, FrameAtHand DEF CountInv
  <2> QED
    BY <2>1, <2>2
<1>8. Stamp \in Nat
  BY <1>5, Vp9Assumption DEF Stamp
<1>9. active_segment_map' \in {0, 1}
  BY <1>1, <1>5 DEF NextMap
<1>10. /\ h' \in Header /\ h'.show_existing_frame = h.show_existing_frame
  <2>1. flag \in BOOLEAN /\ shown \in BOOLEAN
    BY <1>5 DEF Header
  <2> HIDE DEF flag, shown, out
  <2> QED
    BY <1>3, <1>5, <1>6, <2>1 DEF Header
<1>11. /\ pool' \in Pictures
       /\ \A b \in Buffers : pool[b].info => pool'[b].info
       /\ outcome = "ready" /\ ~h.show_existing_frame => pool'[out].info
       /\ \A b \in Buffers : b # out => pool'[b] = pool[b]
       /\ pool'[out].pic = content
       /\ ~h.key_frame => pool'[out].motion = pool'[out].pic
  <2> DEFINE motion == IF h.key_frame THEN pool[out].motion ELSE content
             info == pool[out].info \/ (output /\ ~h.show_existing_frame)
             picture == [pic |-> content, motion |-> motion, info |-> info]
  <2>1. /\ pool[out] \in [pic : Contents, motion : Contents, info : BOOLEAN]
        /\ info \in BOOLEAN /\ motion \in Contents
    BY <1>5, <1>6, <1>7 DEF Pictures
  <2>2. pool' = [pool EXCEPT ![out] = picture]
    <3> DEFINE x == [pool EXCEPT ![out].pic = content]
               y == [x EXCEPT ![out].motion =
                        IF h.key_frame THEN @ ELSE content]
               shows == output /\ ~h.show_existing_frame
    <3>1. pool' = [y EXCEPT ![out].info = @ \/ shows]
      <4> HIDE DEF content, output, out
      <4> QED
        BY <1>2
    <3>2. x = [pool EXCEPT ![out] = [pool[out] EXCEPT !.pic = content]]
      OBVIOUS
    <3>3. x[out] = [pic |-> content, motion |-> pool[out].motion,
                    info |-> pool[out].info]
      BY <1>5, <1>6, <2>1, <3>2 DEF Pictures
    <3>4. y = [x EXCEPT ![out] = [x[out] EXCEPT !.motion = motion]]
      BY <3>3
    <3> HIDE DEF x, content
    <3>5. y = [pool EXCEPT ![out] = [pic |-> content, motion |-> motion,
                                     info |-> pool[out].info]]
      BY <1>5, <1>6, <3>2, <3>3, <3>4 DEF Pictures
    <3> HIDE DEF y
    <3>6. y[out] = [pic |-> content, motion |-> motion,
                    info |-> pool[out].info]
      BY <1>5, <1>6, <3>5 DEF Pictures
    <3>7. pool' = [y EXCEPT ![out] = [y[out] EXCEPT !.info = info]]
      BY <3>1, <3>6
    <3>8. [y[out] EXCEPT !.info = info] = picture
      BY <3>6
    <3> HIDE DEF picture, info
    <3> QED
      BY <1>5, <1>6, <3>5, <3>7, <3>8 DEF Pictures
  <2>3. outcome = "ready" /\ ~h.show_existing_frame => info
    OBVIOUS
  <2>4. pool[out].info => info
    OBVIOUS
  <2>5. ~h.key_frame => motion = content
    OBVIOUS
  <2> HIDE DEF content, info, motion
  <2>6. /\ picture \in [pic : Contents, motion : Contents, info : BOOLEAN]
        /\ picture.info = info /\ picture.pic = content
        /\ picture.motion = motion
    BY <1>7, <2>1
  <2> HIDE DEF picture, out
  <2> QED
    BY <1>5, <1>6, <2>2, <2>3, <2>4, <2>5, <2>6 DEF Pictures
<1>12. pts' \in [cur : Nat, pre : Nat]
  BY <1>1, <1>8
<1>13. fbm' \in Frees
       /\ fbm'.free + Len(fbm'.display) + fbm'.held + fbm'.lost = FbmFrames
  <2>1. entry \in Displayed
    BY <1>7, <1>8 DEF Displayed
  <2>2. /\ fbm.free \in Nat \ {0} /\ fbm.display \in Seq(Displayed)
        /\ fbm.held \in Nat /\ fbm.lost \in Nat
    BY <1>1, <1>5 DEF Frees
  <2> HIDE DEF output, shown, entry
  <2> DEFINE longer == Append(fbm.display, entry)
             lost == fbm.lost + 1
             free == fbm.free - 1
             there == Len(fbm.display)
  <2>3. /\ longer \in Seq(Displayed) /\ Len(longer) = there + 1
        /\ there \in Nat /\ lost \in Nat /\ free \in Nat
    BY <2>1, <2>2
  <2>4. fbm' \in {[fbm EXCEPT !.free = free, !.display = longer], fbm,
                  [fbm EXCEPT !.free = free, !.lost = lost]}
    BY <1>1 DEF Output
  <2> DEFINE shorter == free + (there + 1) + fbm.held + fbm.lost
             without == free + there + fbm.held + lost
  <2> HIDE DEF longer, there
  <2>5. shorter = FbmFrames /\ without = FbmFrames
    <3>1. fbm.free + there + fbm.held + fbm.lost = FbmFrames
      BY <1>5 DEF there
    <3>2. /\ fbm.free \in Nat /\ fbm.held \in Nat /\ fbm.lost \in Nat
          /\ there \in Nat
      BY <2>2, <2>3
    <3> QED
      BY <3>1, <3>2
  <2> HIDE DEF lost, free
  <2>6. CASE fbm' = [fbm EXCEPT !.free = free, !.display = longer]
    <3>1. fbm' \in Frees /\ fbm'.free = free /\ fbm'.display = longer
          /\ fbm'.held = fbm.held /\ fbm'.lost = fbm.lost
      BY <1>5, <2>3, <2>6 DEF Frees
    <3> QED
      BY <2>3, <2>5, <3>1
  <2>7. CASE fbm' = [fbm EXCEPT !.free = free, !.lost = lost]
    <3>1. fbm' \in Frees /\ fbm'.free = free /\ fbm'.display = fbm.display
          /\ fbm'.held = fbm.held /\ fbm'.lost = lost
      BY <1>5, <2>3, <2>7 DEF Frees
    <3> QED
      BY <2>5, <3>1 DEF there
  <2>8. CASE fbm' = fbm
    BY <1>5, <2>8
  <2> QED
    BY <2>4, <2>6, <2>7, <2>8
<1>14. /\ g' = [from |-> g'.from, clean |-> g'.clean, hurt |-> g'.hurt,
                repeated |-> g'.repeated, leaked |-> g'.leaked,
                used |-> g'.used, out |-> g'.out]
       /\ g'.repeated = g.repeated
       /\ g'.leaked = IF outcome = "bus" THEN g.leaked \cup {out} ELSE g.leaked
  <2> DEFINE hurt == g.hurt \/ outcome # "ready"
             clean == ~wrong
  <2>1. g' = [g EXCEPT !.used = Registers, !.clean = clean, !.hurt = hurt,
                !.leaked = IF outcome = "bus" THEN g.leaked \cup {out}
                           ELSE g.leaked]
    BY <1>4
  <2> HIDE DEF out, hurt, clean
  <2> QED
    BY <2>1 DEF CountInv, Types
<1> QED
  BY <1>1, <1>6, <1>9, <1>10, <1>11, <1>12, <1>13, <1>14

\* A picture given up after a bus error keeps its buffer for good.
LEMMA BusErrorInv ==
    ASSUME CountInv, "bus" \in Outcomes, RunPicture("bus"), ~Lacking
    PROVE  CountInv'
<1> DEFINE out == Vp9GetRefFrm(q).buffer
           n == Vp9GetRefFrm(q).queue
<1>1. /\ nDecStep = "frame" /\ halted' = "no"
      /\ UNCHANGED <<stream, next, resets>>
      /\ out \in Buffers /\ active_segment_map' \in {0, 1}
      /\ h' \in Header /\ h'.show_existing_frame = h.show_existing_frame
      /\ pool' \in Pictures /\ pts' \in [cur : Nat, pre : Nat]
      /\ fbm' \in Frees
      /\ fbm'.free + Len(fbm'.display) + fbm'.held + fbm'.lost = FbmFrames
      /\ g' = [from |-> g'.from, clean |-> g'.clean, hurt |-> g'.hurt,
               repeated |-> g'.repeated, leaked |-> g'.leaked,
               used |-> g'.used, out |-> g'.out]
      /\ g'.repeated = g.repeated /\ g'.leaked = g.leaked \cup {out}
  BY PictureTypes
<1>2. /\ q' = n /\ nDecStep' = "result" /\ busy' = FALSE
      /\ nFrameNums' = nFrameNums - 1
      /\ UNCHANGED <<unit, prev_out_buffer_i, pic_number>>
  BY DEF RunPicture, Lacking
<1>3. /\ faults' \in Nat /\ faults' \in 0 .. MaxFaults /\ faults' # 0
  BY FaultsCounted
<1>4. n \in Queue
  BY GetRefFrmTypes DEF CountInv, Types
<1> HIDE DEF n
<1>5. nFrameNums' \in 0 .. 2 /\ UnitAtHand'
  <2>1. /\ unit \in DOMAIN Streams[stream] /\ nFrameNums \in 0 .. 2
        /\ nFrameNums \in 0 .. Len(Streams[stream][unit].frames)
        /\ nFrameNums # 0
    BY <1>1 DEF CountInv, Types, TypeOK, UnitAtHand
  <2> DEFINE length == Len(Streams[stream][unit].frames)
  <2>2. length \in Nat
    <3>1. stream \in DOMAIN Streams
      BY DEF CountInv, Types, TypeOK
    <3> QED
      BY <2>1, <3>1, StreamAssumption
  <2> HIDE DEF length
  <2>3. nFrameNums' \in 0 .. 2 /\ nFrameNums' \in 0 .. length
    <3>1. nFrameNums \in 0 .. length
      BY <2>1 DEF length
    <3> QED
      BY <1>2, <2>1, <2>2, <3>1
  <2> QED
    BY <1>1, <1>2, <2>1, <2>3 DEF UnitAtHand, length
<1>6. TypeOK'
  <2>1. /\ \A s \in RefSlots :
              q'.ref_status[s] \in Buffers \cup {REFERENCE_NOT_SET}
        /\ \A i \in Places : q'.nodes[i] \in Buffers
        /\ q'.tail_index \in Places
        /\ q'.n_buffers \in NumBuffers .. MaxBuffers
    BY <1>2, <1>4 DEF Queue
  <2>2. pts'.cur >= 0 /\ pts'.pre >= 0
    BY <1>1
  <2> QED
    BY <1>1, <1>2, <1>3, <1>5, <2>1, <2>2 DEF CountInv, Types, TypeOK
<1>7. Types'
  BY <1>1, <1>2, <1>3, <1>4, <1>6 DEF CountInv, Types
<1>8. HeaderRead'
  BY <1>1, <1>2 DEF CountInv, HeaderRead
<1>9. ReferencesHeld'
  <2> SUFFICES ASSUME ~g.repeated PROVE Held(n, g.leaked \cup {out})
    BY <1>1, <1>2 DEF ReferencesHeld
  <2>1. Held(q, g.leaked)
    BY DEF CountInv, ReferencesHeld
  <2>2. out # -1
    BY DEF Lacking
  <2> QED
    BY <2>1, <2>2, GetRefFrmHeld DEF n
<1>10. Primed'
  BY <1>3 DEF Primed
<1> QED
  BY <1>5, <1>7, <1>8, <1>9, <1>10 DEF CountInv

\* Every other picture leaves its reference in the slots alone; and a picture
\* that has come out fills those it is kept in.
LEMMA DecodedInv ==
    ASSUME CountInv, NEW outcome \in Outcomes, RunPicture(outcome), ~Lacking,
           outcome # "bus"
    PROVE  CountInv'
<1> DEFINE out == Vp9GetRefFrm(q).buffer
           given == Vp9GetRefFrm(q).queue
           corrupted == outcome = "error"
           shown == /\ outcome # "bus" /\ (~corrupted \/ pic_number = 1)
                    /\ h.show_existing_frame \/ h.show_frame
           n == UpdateRefs(given, out, corrupted, shown)
<1>1. /\ nDecStep = "frame" /\ halted' = "no"
      /\ UNCHANGED <<stream, next, resets>>
      /\ out \in Buffers /\ active_segment_map' \in {0, 1}
      /\ h' \in Header /\ h'.show_existing_frame = h.show_existing_frame
      /\ pool' \in Pictures /\ pts' \in [cur : Nat, pre : Nat]
      /\ fbm' \in Frees
      /\ fbm'.free + Len(fbm'.display) + fbm'.held + fbm'.lost = FbmFrames
      /\ g' = [from |-> g'.from, clean |-> g'.clean, hurt |-> g'.hurt,
               repeated |-> g'.repeated, leaked |-> g'.leaked,
               used |-> g'.used, out |-> g'.out]
      /\ g'.repeated = g.repeated /\ g'.leaked = g.leaked
  BY PictureTypes
<1>2. /\ \A b \in Buffers : pool[b].info => pool'[b].info
      /\ outcome = "ready" /\ ~h.show_existing_frame => pool'[out].info
  BY PictureTypes
<1>3. /\ q' = n /\ prev_out_buffer_i' \in {out, prev_out_buffer_i}
      /\ FrameDone(nFrameNums - 1)
  BY DEF RunPicture, Lacking
<1>4. /\ faults' \in Nat /\ faults' \in 0 .. MaxFaults
      /\ faults' = 0 => faults = 0 /\ outcome = "ready"
  BY FaultsCounted
<1>5. q \in Queue /\ h \in Header /\ out # -1
  BY DEF CountInv, Types, Lacking
<1>6. n \in Queue
  <2>1. given \in Queue
    BY <1>5, GetRefFrmTypes
  <2> HIDE DEF out, given, corrupted, shown
  <2> QED
    BY <1>1, <1>5, <2>1, UpdateRefsTypes
<1>7. /\ corrupted \in BOOLEAN /\ shown \in BOOLEAN
      /\ ~h.show_existing_frame =>
             (shown <=> h.show_frame /\ ~(corrupted /\ pic_number # 1))
  BY <1>5 DEF Header
<1>8. ~g.repeated =>
          /\ Held(n, g.leaked)
          /\ ~corrupted =>
                \A s \in RefSlots :
                   n.ref_status[s] =
                       IF s \in h.refresh_frame_flags THEN out
                       ELSE IF h.reset_frame_flags THEN REFERENCE_NOT_SET
                       ELSE q.ref_status[s]
  <2> SUFFICES ASSUME ~g.repeated
               PROVE  /\ Held(n, g.leaked)
                      /\ ~corrupted =>
                            \A s \in RefSlots :
                               n.ref_status[s] =
                                   IF s \in h.refresh_frame_flags THEN out
                                   ELSE IF h.reset_frame_flags
                                   THEN REFERENCE_NOT_SET
                                   ELSE q.ref_status[s]
    OBVIOUS
  <2>1. Held(q, g.leaked) /\ ~h.show_existing_frame
    BY DEF CountInv, ReferencesHeld, HeaderRead
  <2>2. /\ out \notin g.leaked /\ Held(given, g.leaked \cup {out})
        /\ Grown(given, g.leaked) /\ given.ref_status = q.ref_status
    BY <1>5, <2>1, GetRefFrmHeld
  <2> HIDE DEF out, given, corrupted, shown
  <2> QED
    BY <1>5, <1>7, <2>1, <2>2, UpdateRefsHeld
<1> HIDE DEF n, shown
<1>9. /\ busy' = FALSE /\ pic_number' = 2 /\ nFrameNums' = nFrameNums - 1
      /\ \/ nDecStep' = "header" /\ unit' = unit /\ nFrameNums' # 0
         \/ nDecStep' = "data" /\ unit' = 0
  BY <1>3 DEF FrameDone
<1>10. /\ nFrameNums' \in 0 .. 2 /\ UnitAtHand'
       /\ unit' \in 0 .. Len(Streams[stream])
  <2>1. /\ unit \in DOMAIN Streams[stream] /\ nFrameNums \in 0 .. 2
        /\ nFrameNums \in 0 .. Len(Streams[stream][unit].frames)
        /\ nFrameNums # 0 /\ unit \in 0 .. Len(Streams[stream])
    BY <1>1 DEF CountInv, Types, TypeOK, UnitAtHand
  <2> DEFINE length == Len(Streams[stream][unit].frames)
  <2>2. length \in Nat /\ Len(Streams[stream]) \in Nat
    <3>1. stream \in DOMAIN Streams
      BY DEF CountInv, Types, TypeOK
    <3>2. Streams[stream] \in Seq(Units)
      BY <3>1, StreamAssumption
    <3> QED
      BY <2>1, <3>1, <3>2, StreamAssumption
  <2> HIDE DEF length
  <2>3. nFrameNums' \in 0 .. 2 /\ nFrameNums' \in 0 .. length
    <3>1. nFrameNums \in 0 .. length
      BY <2>1 DEF length
    <3> QED
      BY <1>9, <2>1, <2>2, <3>1
  <2>4. UnitAtHand'
    BY <1>1, <1>9, <2>1, <2>3 DEF UnitAtHand, length
  <2> QED
    BY <1>9, <2>1, <2>2, <2>3, <2>4
<1>11. TypeOK'
  <2>1. /\ \A s \in RefSlots :
              q'.ref_status[s] \in Buffers \cup {REFERENCE_NOT_SET}
        /\ \A i \in Places : q'.nodes[i] \in Buffers
        /\ q'.tail_index \in Places
        /\ q'.n_buffers \in NumBuffers .. MaxBuffers
    BY <1>3, <1>6 DEF Queue
  <2>2. pts'.cur >= 0 /\ pts'.pre >= 0
    BY <1>1
  <2> QED
    BY <1>1, <1>3, <1>4, <1>9, <1>10, <2>1, <2>2 DEF CountInv, Types, TypeOK
<1>12. Types'
  BY <1>1, <1>3, <1>4, <1>6, <1>11 DEF CountInv, Types
<1>13. HeaderRead'
  BY <1>1, <1>9 DEF CountInv, HeaderRead
<1>14. ReferencesHeld'
  BY <1>1, <1>3, <1>8 DEF ReferencesHeld
<1>15. Primed'
  <2> SUFFICES ASSUME faults' = 0, ~g'.repeated
               PROVE  halted' = "no" /\ g'.leaked = {} /\ SlotsFilled'
    BY DEF Primed
  <2>1. faults = 0 /\ outcome = "ready" /\ ~g.repeated /\ ~corrupted
    BY <1>1, <1>4
  <2>2. /\ g.leaked = {} /\ (SlotsFilled \/ KeyNext)
        /\ ~h.show_existing_frame
        /\ h.key_frame \/ h.reset_frame_flags =>
               h.refresh_frame_flags = RefSlots
    BY <1>1, <2>1 DEF CountInv, Primed, HeaderRead
  <2>3. SlotsFilled \/ h.key_frame
    BY <1>1, <2>2 DEF KeyNext
  <2>4. ASSUME NEW s \in RefSlots
        PROVE  /\ q'.ref_status[s] # REFERENCE_NOT_SET
               /\ pool'[q'.ref_status[s]].info
    <3>1. q'.ref_status[s] = IF s \in h.refresh_frame_flags THEN out
                             ELSE IF h.reset_frame_flags
                             THEN REFERENCE_NOT_SET
                             ELSE q.ref_status[s]
      BY <1>3, <1>8, <2>1
    <3>2. CASE s \in h.refresh_frame_flags
      <4>1. out # REFERENCE_NOT_SET
        BY <1>5 DEF REFERENCE_NOT_SET
      <4> QED
        BY <1>2, <2>1, <2>2, <3>1, <3>2, <4>1
    <3>3. CASE s \notin h.refresh_frame_flags
      <4>1. q'.ref_status[s] = q.ref_status[s] /\ SlotsFilled
        BY <2>2, <2>3, <3>1, <3>3
      <4>2. /\ q.ref_status[s] # REFERENCE_NOT_SET
            /\ pool[q.ref_status[s]].info /\ q.ref_status[s] \in Buffers
        BY <1>5, <4>1 DEF SlotsFilled, Queue
      <4> QED
        BY <1>2, <4>1, <4>2
    <3> QED
      BY <3>2, <3>3
  <2>5. SlotsFilled'
    BY <2>4 DEF SlotsFilled
  <2> QED
    BY <1>1, <2>2, <2>5
<1> QED
  BY <1>10, <1>12, <1>13, <1>14, <1>15 DEF CountInv

-----------------------------------------------------------------------------
(* The theorem. *)

\* Every step keeps the invariant.
LEMMA StepCountInv == CountInv /\ [Next]_vars => CountInv'
<1> SUFFICES ASSUME CountInv, [Next]_vars PROVE CountInv'
  OBVIOUS
<1>1. CASE UNCHANGED vars
  BY <1>1 DEF vars, decVars, coreVars, CountInv, Types, TypeOK, UnitAtHand,
              HeaderRead, ReferencesHeld, Primed, SlotsFilled, KeyNext, Id,
              FrameAt
<1>2. ASSUME NEW outcome \in Outcomes, RunPicture(outcome) PROVE CountInv'
  BY <1>2, CrashInv, BusErrorInv, DecodedInv
<1> QED
  BY <1>1, <1>2, PrepareDataInv, DecodeHeaderInv, NoFrameBufferInv,
     AfterBusErrorInv, TakePictureInv, ReturnPictureInv, SeekInv
     DEF Next, Decode

\* What the invariant says of the ring, in the words of ReferencesCounted.
LEMMA HeldCounted ==
    ASSUME NEW r, NEW held, Held(r, held)
    PROVE  LET empty == EmptyFifo(r)
           IN  /\ \A b \in Buffers :
                     r.n_references[b] =
                         SlotCount(r, b) + (IF b \in held THEN 1 ELSE 0)
               /\ {empty[k] : k \in DOMAIN empty} =
                     {b \in 0 .. r.n_buffers - 1 : r.n_references[b] = 0}
               /\ \A j, k \in DOMAIN empty : j # k => empty[j] # empty[k]
               /\ held = {} => r.n_buffers = NumBuffers
<1> DEFINE empty == EmptyFifo(r)
<1>1. /\ r \in Queue /\ r.num_of_objects \in Nat
      /\ r.n_buffers \in NumBuffers .. MaxBuffers
      /\ r.tail_index \in Int
  BY QueueAssumption DEF Held, RingSound, Queue, Places
<1>2. DOMAIN empty = 1 .. r.num_of_objects
  BY DEF EmptyFifo
<1>3. ASSUME NEW k \in DOMAIN empty
      PROVE  k - 1 \in Stores(r) /\ empty[k] = Stored(r, k - 1)
  <2>1. k \in 1 .. r.num_of_objects /\ k - 1 \in Stores(r)
    BY <1>1, <1>2 DEF Stores
  <2>2. r.tail_index + (k - 1) = r.tail_index + k - 1
    BY <1>1, <2>1
  <2>3. empty[k] = r.nodes[(r.tail_index + k - 1) % NumBuffers]
    BY <2>1 DEF EmptyFifo
  <2> QED
    BY <2>1, <2>2, <2>3 DEF Stored
<1>4. ASSUME NEW k \in Stores(r)
      PROVE  k + 1 \in DOMAIN empty /\ empty[k + 1] = Stored(r, k)
  <2>1. k + 1 \in DOMAIN empty /\ (k + 1) - 1 = k
    BY <1>1, <1>2 DEF Stores
  <2> HIDE DEF empty
  <2> QED
    BY <1>3, <2>1
<1> HIDE DEF empty
<1>5. {empty[k] : k \in DOMAIN empty} =
          {b \in 0 .. r.n_buffers - 1 : r.n_references[b] = 0}
  <2>1. ASSUME NEW k \in DOMAIN empty
        PROVE  empty[k] \in 0 .. r.n_buffers - 1
               /\ r.n_references[empty[k]] = 0
    <3>1. k - 1 \in Stores(r) /\ empty[k] = Stored(r, k - 1)
      BY <1>3
    <3>2. r.n_references[empty[k]] = 0
      BY <3>1 DEF Held, RingSound
    <3>3. (r.tail_index + (k - 1)) % NumBuffers \in Places
      <4>1. r.tail_index + (k - 1) \in Int
        BY <1>1, <3>1 DEF Stores
      <4> QED
        BY <4>1, WrapAny
    <3>4. empty[k] \in Pool(r)
      BY <3>1, <3>3 DEF Held, RingSound, Stored
    <3> QED
      BY <3>2, <3>4 DEF Pool
  <2>2. ASSUME NEW b \in 0 .. r.n_buffers - 1, r.n_references[b] = 0
        PROVE  \E k \in DOMAIN empty : empty[k] = b
    <3>1. PICK k \in Stores(r) : Stored(r, k) = b
      BY <2>2 DEF Held, RingSound, Pool
    <3> QED
      BY <1>4, <3>1
  <2> QED
    BY <2>1, <2>2
<1>6. \A j, k \in DOMAIN empty : j # k => empty[j] # empty[k]
  <2> SUFFICES ASSUME NEW j \in DOMAIN empty, NEW k \in DOMAIN empty,
                      empty[j] = empty[k]
               PROVE  j = k
    OBVIOUS
  <2>1. /\ j - 1 \in Stores(r) /\ k - 1 \in Stores(r)
        /\ Stored(r, j - 1) = Stored(r, k - 1)
    BY <1>3
  <2>2. j - 1 = k - 1
    BY <2>1 DEF Held, RingSound
  <2> QED
    BY <1>2, <2>2
<1>7. held = {} => r.n_buffers = NumBuffers
  <2> SUFFICES ASSUME held = {} PROVE r.n_buffers = NumBuffers
    OBVIOUS
  <2>1. Cardinality(held) = 0
    BY FS_EmptySet
  <2> QED
    BY <1>1, <2>1, QueueAssumption DEF Held, Grown
<1> QED
  BY <1>5, <1>6, <1>7 DEF Held, SlotsCounted, empty

\* The buffers of the VP9 core are counted right: a slot's picture keeps its
\* buffer, the ring holds the other buffers, each once, the pool of Vp9Dwl does
\* not grow, and the decoder does not come to its end over a buffer or a
\* reference as long as every picture comes out and none is shown again.
THEOREM BuffersCounted == Spec => []CountsKept
<1>1. Init => CountInv
  BY InitCountInv
<1>2. CountInv /\ [Next]_vars => CountInv'
  BY StepCountInv
<1>3. CountInv => CountsKept
  <2> SUFFICES ASSUME CountInv PROVE CountsKept
    OBVIOUS
  <2>1. TypeOK
    BY DEF CountInv, Types
  <2>2. ReferencesCounted
    BY HeldCounted DEF CountInv, ReferencesHeld, ReferencesCounted
  <2>3. RunsOn
    BY DEF CountInv, Types, Primed, RunsOn
  <2> QED
    BY <2>1, <2>2, <2>3 DEF CountsKept
<1> QED
  BY <1>1, <1>2, <1>3, PTL DEF Spec

-----------------------------------------------------------------------------
(* The decoder beside the encoder: what holds of them together. *)

\* The frames of a unit by name, and those of the units up to u.
UnitNames(st, u) == [k \in DOMAIN Streams[st][u].frames |-> <<u, k>>]

NamesUpTo(st) ==
    LET upTo[u \in 0 .. Len(Streams[st])] ==
            IF u = 0 THEN <<>> ELSE upTo[u - 1] \o UnitNames(st, u)
    IN  upTo

\* The place of a frame among those of its stream.
FramesBefore(st, u) == Len(NamesUpTo(st)[u - 1])
PlaceOf(st, id) == FramesBefore(st, id[1]) + id[2]

\* The encoder's memories after n frames, and when it began the frame id.
Encoders(st) ==
    LET names == FrameNames(st)
        at[n \in 0 .. Len(names)] ==
            IF n = 0 THEN NewEncoder
            ELSE AtEnd(at[n - 1], FrameAt(st, names[n]), names[n])
    IN  at

EncoderAt(st, id) == Encoders(st)[PlaceOf(st, id) - 1]

\* Every slot holds the picture the encoder's holds.
SlotsAgree(e) ==
    \A s \in RefSlots : /\ q.ref_status[s] \in Buffers
                        /\ pool[q.ref_status[s]].pic = e.slots[s]

\* The motion of the frame before is where the next one looks for it.
MotionAgrees(e) ==
    /\ ~e.lastKey => pool[prev_out_buffer_i].motion = e.last
    /\ e.lastIntra => ~e.lastShown

\* Between two frames the decoder remembers what the encoder does.
Remembers(e) ==
    /\ SlotsAgree(e) /\ MotionAgrees(e)
    /\ h.key_frame = e.lastKey /\ h.show_frame = e.lastShown
    /\ entropy_last = e.contexts
    /\ segment_map[active_segment_map] = e.segments
    /\ h.features = e.features /\ h.deltas = e.deltas

\* What the header of frame f says, as read into n.
FieldsRead(n, f) ==
    /\ f.kind # "existing" /\ ~n.show_existing_frame
    /\ n.key_frame = (f.kind = "key")
    /\ f.kind # "key" => n.intra_only = (f.kind = "intra")
    /\ f.kind = "inter" => n.active_ref_idx = f.refs
    /\ n.show_frame = f.show /\ n.error_resilient = f.resilient
    /\ n.reset_frame_flags = (f.kind = "key")
    /\ n.refresh_frame_flags = IF f.kind = "key" THEN RefSlots ELSE f.refresh
    /\ n.refresh_entropy_probs = (f.save /\ ~f.resilient)
    /\ n.frame_context_idx = ContextOf(f)
    /\ n.segment = f.segment /\ n.filter = f.filter

\* What it leaves in the memories, when b are the encoder's after AtStart.
MemoriesRead(b, f, id) ==
    /\ entropy_last = b.contexts /\ entropy = b.contexts[ContextOf(f)]
    /\ segment_map[active_segment_map] = b.segments
    /\ f.kind = "key" => b.segments = Default
    /\ h.features = IF f.segment # "off" /\ f.features THEN id ELSE b.features
    /\ h.deltas = IF f.filter = "update" THEN id ELSE b.deltas

\* A header was read as the encoder wrote it, which had e before the frame.
HasRead(e, f, id) ==
    /\ FieldsRead(h, f) /\ MemoriesRead(AtStart(e, f), f, id)
    /\ f.kind # "key" =>
           /\ SlotsAgree(e) /\ MotionAgrees(e)
           /\ h.prev_is_key_frame = e.lastKey
           /\ h.prev_show_frame = e.lastShown

\* The decoder is where the encoder was, unless a key frame is next.
InStep ==
    /\ nDecStep # "result"
    /\ nDecStep = "data" /\ next \in DOMAIN Streams[stream] =>
           \/ Streams[stream][next].frames[1].kind = "key"
           \/ Remembers(EncoderAt(stream, <<next, 1>>))
    /\ nDecStep = "header" =>
           \/ FrameAt(stream, Id).kind = "key"
           \/ Remembers(EncoderAt(stream, Id))
    /\ nDecStep = "frame" =>
           HasRead(EncoderAt(stream, Id), FrameAt(stream, Id), Id)

\* What a frame was decoded from was right, and what the next one will be is.
StepInv ==
    /\ segment_map \in [{0, 1} -> Contents]
    /\ nDecStep # "data" => next = unit + 1
    /\ g.clean /\ ~g.repeated /\ halted = "no" => InStep
    /\ DecodedAsCoded

-----------------------------------------------------------------------------
(* The names of a stream's frames. *)

NamesLoop ==
    INSTANCE Loop WITH
        Step <- LAMBDA st, names, u : names \o UnitNames(st, u),
        Good <- LAMBDA p, k, names : TRUE

\* A frame of the stream.
IsFrame(st, id) ==
    /\ id \in Contents /\ id[1] \in DOMAIN Streams[st]
    /\ id[2] \in DOMAIN Streams[st][id[1]].frames

\* The names are appended unit by unit.
LEMMA NamesUpToIs ==
    ASSUME NEW st \in DOMAIN Streams
    PROVE  LET N == NamesUpTo(st)
               L == Len(Streams[st])
           IN  /\ L \in Nat /\ DOMAIN Streams[st] = 1 .. L
               /\ N[0] = <<>> /\ FrameNames(st) = N[L]
               /\ \A u \in 1 .. L : N[u] = N[u - 1] \o UnitNames(st, u)
<1> DEFINE N == NamesUpTo(st)
           L == Len(Streams[st])
<1>1. L \in Nat /\ DOMAIN Streams[st] = 1 .. L
  BY StreamAssumption
<1>2. N = NamesLoop!Counted(st, <<>>, L)
  BY DEF NamesUpTo, NamesLoop!Counted
<1>3. N = [u \in 0 .. L |-> IF u = 0 THEN <<>>
                            ELSE N[u - 1] \o UnitNames(st, u)]
  <2> HIDE DEF N, L
  <2> QED
    BY <1>1, <1>2, NamesLoop!CountedIs, SMTT(30)
<1>4. FrameNames(st) = N[L]
  BY DEF FrameNames, NamesUpTo, UnitNames
<1> HIDE DEF N, L
<1>5. N[0] = <<>> /\ \A u \in 1 .. L : N[u] = N[u - 1] \o UnitNames(st, u)
  <2>1. \A u \in 0 .. L : N[u] = IF u = 0 THEN <<>>
                                 ELSE N[u - 1] \o UnitNames(st, u)
    BY <1>3
  <2>2. 0 \in 0 .. L /\ \A u \in 1 .. L : u \in 0 .. L /\ u # 0
    BY <1>1
  <2>3. N[0] = <<>>
    BY <2>1, <2>2
  <2>4. ASSUME NEW u \in 1 .. L PROVE N[u] = N[u - 1] \o UnitNames(st, u)
    <3>1. u \in 0 .. L /\ u # 0
      BY <2>2
    <3>2. N[u] = IF u = 0 THEN <<>> ELSE N[u - 1] \o UnitNames(st, u)
      BY <2>1, <3>1
    <3> QED
      BY <3>1, <3>2
  <2> QED
    BY <2>3, <2>4
<1> QED
  BY <1>1, <1>4, <1>5 DEF N, L

\* Names of the units up to u stand where the frames before them say.
NamesPlaced(st, u) ==
    LET N == NamesUpTo(st)
    IN  /\ N[u] \in Seq(Contents)
        /\ \A n \in 1 .. Len(N[u]) :
              /\ IsFrame(st, N[u][n]) /\ N[u][n][1] <= u
              /\ n = PlaceOf(st, N[u][n])
        /\ \A id \in Contents :
              IsFrame(st, id) /\ id[1] <= u =>
                  /\ PlaceOf(st, id) \in 1 .. Len(N[u])
                  /\ N[u][PlaceOf(st, id)] = id

\* The names of one unit.
LEMMA UnitNamesIs ==
    ASSUME NEW st \in DOMAIN Streams, NEW u \in DOMAIN Streams[st]
    PROVE  LET m == Len(Streams[st][u].frames)
           IN  /\ m \in {1, 2} /\ DOMAIN Streams[st][u].frames = 1 .. m
               /\ UnitNames(st, u) \in Seq(Contents)
               /\ Len(UnitNames(st, u)) = m
               /\ \A k \in 1 .. m : /\ UnitNames(st, u)[k] = <<u, k>>
                                    /\ IsFrame(st, <<u, k>>)
<1> DEFINE frames == Streams[st][u].frames
           m == Len(frames)
<1>1. m \in {1, 2} /\ u \in Nat /\ frames \in Seq(Frames)
  <2>1. m \in {1, 2}
    BY StreamAssumption
  <2>2. Streams[st] \in Seq(Units)
    BY StreamAssumption
  <2>3. u \in Nat /\ Streams[st][u] \in Units
    BY <2>2
  <2> QED
    BY <2>1, <2>3 DEF Units
<1>2. DOMAIN frames = 1 .. m
  BY <1>1
<1> HIDE DEF m
<1>3. UnitNames(st, u) = [k \in 1 .. m |-> <<u, k>>]
  BY <1>2 DEF UnitNames
<1>4. \A k \in 1 .. m : <<u, k>> \in Contents
  BY <1>1 DEF Contents
<1>5. UnitNames(st, u) \in Seq(Contents) /\ Len(UnitNames(st, u)) = m
  BY <1>1, <1>3, <1>4
<1>6. \A k \in 1 .. m : UnitNames(st, u)[k] = <<u, k>>
  BY <1>3
<1>7. \A k \in 1 .. m : IsFrame(st, <<u, k>>)
  BY <1>2, <1>4 DEF IsFrame
<1> QED
  BY <1>1, <1>2, <1>5, <1>6, <1>7 DEF m

\* ... whatever the unit.
LEMMA NamesPlacedUpTo ==
    ASSUME NEW st \in DOMAIN Streams
    PROVE  \A u \in 0 .. Len(Streams[st]) : NamesPlaced(st, u)
<1> DEFINE N == NamesUpTo(st)
           L == Len(Streams[st])
           T == {u \in 0 .. L : NamesPlaced(st, u)}
<1>1. /\ L \in Nat /\ DOMAIN Streams[st] = 1 .. L /\ N[0] = <<>>
      /\ \A u \in 1 .. L : N[u] = N[u - 1] \o UnitNames(st, u)
  BY NamesUpToIs
<1> HIDE DEF N, L
<1>2. NamesPlaced(st, 0)
  <2>1. \A id : ~(IsFrame(st, id) /\ id[1] <= 0)
    BY <1>1 DEF IsFrame
  <2> QED
    BY <1>1, <2>1 DEF NamesPlaced, N
<1>3. ASSUME NEW u \in 0 .. L - 1, u \in T PROVE u + 1 \in T
  <2> DEFINE a == N[u]
             b == UnitNames(st, u + 1)
             c == N[u + 1]
             m == Len(Streams[st][u + 1].frames)
  <2>1. u \in Nat /\ u + 1 \in 1 .. L /\ (u + 1) - 1 = u
        /\ u + 1 \in DOMAIN Streams[st]
    BY <1>1
  <2>2. /\ m \in Nat /\ DOMAIN Streams[st][u + 1].frames = 1 .. m
        /\ b \in Seq(Contents) /\ Len(b) = m
        /\ \A k \in 1 .. m : b[k] = <<u + 1, k>> /\ IsFrame(st, <<u + 1, k>>)
    BY <2>1, UnitNamesIs
  <2>3. /\ a \in Seq(Contents)
        /\ \A n \in 1 .. Len(a) : /\ IsFrame(st, a[n]) /\ a[n][1] <= u
                                  /\ n = PlaceOf(st, a[n])
        /\ \A id \in Contents :
              IsFrame(st, id) /\ id[1] <= u =>
                  PlaceOf(st, id) \in 1 .. Len(a) /\ a[PlaceOf(st, id)] = id
    BY <1>3 DEF NamesPlaced, N
  <2>4. c = a \o b
    BY <1>1, <2>1
  <2>5. \A k \in 1 .. m : PlaceOf(st, <<u + 1, k>>) = Len(a) + k
    BY <2>1 DEF PlaceOf, FramesBefore, N
  <2> HIDE DEF a, b, c, m
  <2>6. /\ c \in Seq(Contents) /\ Len(c) = Len(a) + m
        /\ \A n \in 1 .. Len(a) + m :
              c[n] = IF n <= Len(a) THEN a[n] ELSE b[n - Len(a)]
    BY <2>2, <2>3, <2>4, ConcatProperties, ZenonT(30)
  <2>7. Len(a) \in Nat
    BY <2>3
  <2>8. ASSUME NEW n \in 1 .. Len(c)
        PROVE  IsFrame(st, c[n]) /\ c[n][1] <= u + 1 /\ n = PlaceOf(st, c[n])
    <3>1. CASE n <= Len(a)
      <4>1. n \in 1 .. Len(a) /\ c[n] = a[n]
        BY <2>2, <2>6, <2>7, <3>1
      <4>2. IsFrame(st, a[n]) /\ a[n][1] <= u /\ n = PlaceOf(st, a[n])
        BY <2>3, <4>1
      <4>3. a[n][1] \in Int
        BY <1>1, <4>2 DEF IsFrame
      <4> QED
        BY <2>1, <4>1, <4>2, <4>3
    <3>2. CASE ~(n <= Len(a))
      <4>1. n - Len(a) \in 1 .. m /\ c[n] = b[n - Len(a)]
            /\ Len(a) + (n - Len(a)) = n
        BY <2>2, <2>6, <2>7, <3>2
      <4>2. c[n] = <<u + 1, n - Len(a)>>
        BY <2>2, <4>1
      <4> QED
        BY <2>1, <2>2, <2>5, <4>1, <4>2
    <3> QED
      BY <3>1, <3>2
  <2>9. ASSUME NEW id \in Contents, IsFrame(st, id), id[1] <= u + 1
        PROVE  PlaceOf(st, id) \in 1 .. Len(c) /\ c[PlaceOf(st, id)] = id
    <3>1. CASE id[1] <= u
      <4>1. PlaceOf(st, id) \in 1 .. Len(a) /\ a[PlaceOf(st, id)] = id
        BY <2>3, <2>9, <3>1
      <4> QED
        BY <2>2, <2>6, <2>7, <4>1
    <3>2. CASE ~(id[1] <= u)
      <4>1. id[1] = u + 1
        BY <1>1, <2>1, <2>9, <3>2 DEF IsFrame
      <4>2. id[2] \in 1 .. m /\ id = <<u + 1, id[2]>>
        BY <2>2, <2>9, <4>1 DEF IsFrame, Contents, m
      <4>3. PlaceOf(st, id) = Len(a) + id[2]
        BY <2>5, <4>2
      <4>4. /\ Len(a) + id[2] \in 1 .. Len(a) + m
            /\ ~(Len(a) + id[2] <= Len(a)) /\ (Len(a) + id[2]) - Len(a) = id[2]
        BY <2>2, <2>7, <4>2
      <4>5. c[Len(a) + id[2]] = b[id[2]]
        BY <2>6, <4>4
      <4> QED
        BY <2>2, <2>6, <4>2, <4>3, <4>4, <4>5
    <3> QED
      BY <3>1, <3>2
  <2>10. NamesPlaced(st, u + 1)
    BY <2>6, <2>8, <2>9 DEF NamesPlaced, c, N
  <2> QED
    BY <2>1, <2>10
<1>4. 0 .. L \subseteq T
  <2>1. 0 \in T
    BY <1>1, <1>2
  <2> HIDE DEF T
  <2> QED
    BY <1>1, <1>3, <2>1, CountUp
<1> QED
  BY <1>1, <1>4 DEF L

\* A frame's name stands in one place.
LEMMA PlaceIs ==
    ASSUME NEW st \in DOMAIN Streams
    PROVE  LET names == FrameNames(st)
           IN  /\ names \in Seq(Contents)
               /\ \A n \in DOMAIN names :
                     IsFrame(st, names[n]) /\ n = PlaceOf(st, names[n])
               /\ \A id : IsFrame(st, id) =>
                     /\ PlaceOf(st, id) \in DOMAIN names
                     /\ names[PlaceOf(st, id)] = id
<1> DEFINE L == Len(Streams[st])
<1>1. FrameNames(st) = NamesUpTo(st)[L] /\ DOMAIN Streams[st] = 1 .. L
      /\ L \in Nat
  BY NamesUpToIs
<1>2. NamesPlaced(st, L)
  BY <1>1, NamesPlacedUpTo
<1> HIDE DEF L
<1>3. \A id : IsFrame(st, id) => id \in Contents /\ id[1] <= L
  BY <1>1 DEF IsFrame
<1> QED
  BY <1>1, <1>2, <1>3 DEF NamesPlaced

-----------------------------------------------------------------------------
(* The encoder, frame by frame. *)

EncoderLoop ==
    INSTANCE Loop WITH
        Step <- LAMBDA st, e, n :
                    LET id == FrameNames(st)[n]
                    IN  AtEnd(e, FrameAt(st, id), id),
        Good <- LAMBDA p, k, e : TRUE

\* Each frame changes the encoder's memories.
LEMMA EncodersIs ==
    ASSUME NEW st \in DOMAIN Streams
    PROVE  \A n \in DOMAIN FrameNames(st) :
               Encoders(st)[n] = AtEnd(Encoders(st)[n - 1],
                                       FrameAt(st, FrameNames(st)[n]),
                                       FrameNames(st)[n])
<1> DEFINE names == FrameNames(st)
           m == Len(names)
           E == Encoders(st)
           Turn(e, n) == AtEnd(e, FrameAt(st, names[n]), names[n])
<1>1. names \in Seq(Contents)
  BY PlaceIs
<1>2. m \in Nat /\ DOMAIN names = 1 .. m
  BY <1>1
<1>3. E = EncoderLoop!Counted(st, NewEncoder, m)
  BY DEF Encoders, EncoderLoop!Counted
<1>4. E = [n \in 0 .. m |-> IF n = 0 THEN NewEncoder ELSE Turn(E[n - 1], n)]
  <2> HIDE DEF E, m
  <2> QED
    BY <1>2, <1>3, EncoderLoop!CountedIs
<1> SUFFICES ASSUME NEW n \in DOMAIN names PROVE E[n] = Turn(E[n - 1], n)
  OBVIOUS
<1>5. n \in 0 .. m /\ n # 0
  BY <1>2
<1> HIDE DEF E, m, names, Turn
<1>6. \A k \in 0 .. m : E[k] = IF k = 0 THEN NewEncoder ELSE Turn(E[k - 1], k)
  BY <1>4
<1> QED
  BY <1>5, <1>6

\* They are names.
LEMMA NamesUpTyped ==
    ASSUME NEW st \in DOMAIN Streams, NEW u \in 0 .. Len(Streams[st])
    PROVE  NamesUpTo(st)[u] \in Seq(Contents)
<1>1. NamesPlaced(st, u)
  BY NamesPlacedUpTo
<1> QED
  BY <1>1 DEF NamesPlaced

\* The place of the frame after this one, or of the next unit's first.
LEMMA PlaceNext ==
    ASSUME NEW st \in DOMAIN Streams, NEW u, NEW k, IsFrame(st, <<u, k>>),
           NEW next1,
           \/ next1 = <<u, k + 1>>
           \/ next1 = <<u + 1, 1>> /\ k = Len(Streams[st][u].frames)
    PROVE  PlaceOf(st, next1) = PlaceOf(st, <<u, k>>) + 1
<1> DEFINE L == Len(Streams[st])
           N == NamesUpTo(st)
           m == Len(Streams[st][u].frames)
           p == PlaceOf(st, <<u, k>>)
<1>1. /\ L \in Nat /\ DOMAIN Streams[st] = 1 .. L
      /\ \A v \in 1 .. L : N[v] = N[v - 1] \o UnitNames(st, v)
  BY NamesUpToIs
<1>2. u \in DOMAIN Streams[st] /\ k \in DOMAIN Streams[st][u].frames
  BY DEF IsFrame
<1>3. /\ m \in Nat /\ DOMAIN Streams[st][u].frames = 1 .. m
      /\ UnitNames(st, u) \in Seq(Contents) /\ Len(UnitNames(st, u)) = m
  BY <1>2, UnitNamesIs
<1>4. p = Len(N[u - 1]) + k
  BY DEF PlaceOf, FramesBefore
<1>5. N[u - 1] \in Seq(Contents)
  <2>1. u - 1 \in 0 .. L
    BY <1>1, <1>2
  <2> QED
    BY <2>1, NamesUpTyped
<1>6. Len(N[u - 1]) \in Nat /\ k \in Nat
  BY <1>2, <1>3, <1>5
<1> HIDE DEF L, N, m, p
<1>7. CASE next1 = <<u, k + 1>>
  <2>1. PlaceOf(st, next1) = Len(N[u - 1]) + (k + 1)
    BY <1>7 DEF PlaceOf, FramesBefore, N
  <2>2. \A a, b \in Nat : a + (b + 1) = (a + b) + 1
    OBVIOUS
  <2>3. Len(N[u - 1]) + (k + 1) = (Len(N[u - 1]) + k) + 1
    BY <1>6, <2>2, Zenon
  <2> QED
    BY <1>4, <2>1, <2>3, Zenon DEF p
<1>8. CASE next1 = <<u + 1, 1>> /\ k = m
  <2>1. u \in 1 .. L /\ (u + 1) - 1 = u
    BY <1>1, <1>2
  <2>2. PlaceOf(st, next1) = Len(N[u]) + 1
    BY <1>8, <2>1 DEF PlaceOf, FramesBefore, N
  <2>3. Len(N[u]) = Len(N[u - 1]) + m
    <3>1. N[u] = N[u - 1] \o UnitNames(st, u)
      BY <1>1, <2>1
    <3> QED
      BY <1>3, <1>5, <3>1, ConcatProperties, ZenonT(30)
  <2> QED
    BY <1>4, <1>8, <2>2, <2>3 DEF p
<1> QED
  BY <1>7, <1>8 DEF m

\* What the encoder has when it begins the next frame.
LEMMA EncoderNext ==
    ASSUME NEW st \in DOMAIN Streams, NEW u, NEW k, IsFrame(st, <<u, k>>),
           NEW next1,
           \/ next1 = <<u, k + 1>>
           \/ next1 = <<u + 1, 1>> /\ k = Len(Streams[st][u].frames)
    PROVE  EncoderAt(st, next1) =
               AtEnd(EncoderAt(st, <<u, k>>), FrameAt(st, <<u, k>>), <<u, k>>)
<1> DEFINE p == PlaceOf(st, <<u, k>>)
<1>1. p \in DOMAIN FrameNames(st) /\ FrameNames(st)[p] = <<u, k>>
      /\ FrameNames(st) \in Seq(Contents)
  BY PlaceIs
<1>2. p \in Nat
  BY <1>1
<1>3. PlaceOf(st, next1) = p + 1
  BY PlaceNext
<1> HIDE DEF p
<1>4. Encoders(st)[p] =
          AtEnd(Encoders(st)[p - 1], FrameAt(st, <<u, k>>), <<u, k>>)
  BY <1>1, EncodersIs
<1>5. (p + 1) - 1 = p
  BY <1>2
<1> QED
  BY <1>3, <1>4, <1>5 DEF EncoderAt, p

\* What a coded frame reads is read from the encoder that begins it.
LEMMA CodedIs ==
    ASSUME NEW st \in DOMAIN Streams, NEW id, IsFrame(st, id),
           FrameAt(st, id).kind # "existing"
    PROVE  CodedReads[st][id] = Reads(EncoderAt(st, id), FrameAt(st, id), id)
<1> DEFINE names == FrameNames(st)
           p == PlaceOf(st, id)
           At(n) == Encoders(st)[n]
           coded == {names[n] : n \in DOMAIN names} \
                        {names[n] : n \in {m \in DOMAIN names :
                            FrameAt(st, names[m]).kind = "existing"}}
           place(i) == CHOOSE n \in DOMAIN names : names[n] = i
<1>1. /\ p \in DOMAIN names /\ names[p] = id
      /\ \A n \in DOMAIN names : names[n] = id => n = p
  BY PlaceIs
<1> HIDE DEF names, p
<1>2. id \in coded
  BY <1>1
<1>3. place(id) = p
  BY <1>1
<1>4. CodedReads[st] =
          [i \in coded |-> Reads(At(place(i) - 1), FrameAt(st, i), i)]
  BY DEF CodedReads, Encoders, names
<1> HIDE DEF coded, place, At
<1>5. CodedReads[st][id] = Reads(At(place(id) - 1), FrameAt(st, id), id)
  BY <1>2, <1>4
<1> QED
  BY <1>3, <1>5 DEF At, EncoderAt, p

\* The memories of an encoder.
IsEncoder(e) ==
    e = [slots |-> e.slots, contexts |-> e.contexts, segments |-> e.segments,
         features |-> e.features, deltas |-> e.deltas, last |-> e.last,
         lastKey |-> e.lastKey, lastIntra |-> e.lastIntra,
         lastShown |-> e.lastShown]

\* The contexts of an encoder when it begins f.
ContextsAtStart(contexts, f) ==
    IF f.kind = "key" \/ f.resilient \/ (f.kind = "intra" /\ f.reset = 3)
    THEN [x \in Contexts |-> Default]
    ELSE IF f.kind = "intra" /\ f.reset = 2
    THEN [contexts EXCEPT ![f.context] = Default]
    ELSE contexts

\* The memories of an encoder that begins f.
LEMMA AtStartIs ==
    ASSUME NEW e, IsEncoder(e), NEW f
    PROVE  LET b == AtStart(e, f)
           IN  /\ b.slots = e.slots
               /\ b.contexts = ContextsAtStart(e.contexts, f)
               /\ b.segments = IF Independent(f) THEN Default ELSE e.segments
               /\ b.features = IF Independent(f) THEN Default ELSE e.features
               /\ b.deltas = IF Independent(f) THEN Default ELSE e.deltas
<1> DEFINE contexts == ContextsAtStart(e.contexts, f)
           segments == IF Independent(f) THEN Default ELSE e.segments
           features == IF Independent(f) THEN Default ELSE e.features
           deltas == IF Independent(f) THEN Default ELSE e.deltas
           b == AtStart(e, f)
<1>1. b = [e EXCEPT !.contexts = contexts, !.segments = segments,
                    !.features = features, !.deltas = deltas]
  BY DEF AtStart, ContextsAtStart
<1> HIDE DEF contexts, segments, features, deltas, b
<1>2. /\ b.slots = e.slots /\ b.contexts = contexts
      /\ b.segments = segments /\ b.features = features /\ b.deltas = deltas
  BY <1>1 DEF IsEncoder
<1> QED
  BY <1>2 DEF contexts, segments, features, deltas, b

\* What the encoder has is never anything else.
LEMMA EncoderIs ==
    ASSUME NEW st \in DOMAIN Streams, NEW id, IsFrame(st, id)
    PROVE  IsEncoder(EncoderAt(st, id))
<1> DEFINE names == FrameNames(st)
           m == Len(names)
           E == Encoders(st)
           Turn(e, n) == AtEnd(e, FrameAt(st, names[n]), names[n])
           T == {n \in 0 .. m : IsEncoder(E[n])}
<1>1. /\ names \in Seq(Contents) /\ PlaceOf(st, id) \in DOMAIN names
  BY PlaceIs
<1>2. m \in Nat /\ DOMAIN names = 1 .. m
  BY <1>1
<1>3. E[0] = NewEncoder
  <2>1. E = EncoderLoop!Counted(st, NewEncoder, m)
    BY DEF Encoders, EncoderLoop!Counted
  <2>2. E = [n \in 0 .. m |-> IF n = 0 THEN NewEncoder ELSE Turn(E[n - 1], n)]
    <3> HIDE DEF E, m
    <3> QED
      BY <1>2, <2>1, EncoderLoop!CountedIs
  <2>3. 0 \in 0 .. m
    BY <1>2
  <2> HIDE DEF E, m, Turn
  <2> QED
    BY <2>2, <2>3
<1>4. \A n \in 1 .. m : E[n] = Turn(E[n - 1], n)
  BY <1>2, EncodersIs
<1> HIDE DEF E, m
<1>5. 0 \in T
  <2>1. IsEncoder(NewEncoder)
    BY DEF NewEncoder, IsEncoder
  <2> QED
    BY <1>2, <1>3, <2>1
<1>6. ASSUME NEW n \in 0 .. m - 1, n \in T PROVE n + 1 \in T
  <2>1. n + 1 \in 1 .. m /\ n + 1 \in 0 .. m /\ (n + 1) - 1 = n
    BY <1>2
  <2>2. E[n + 1] = Turn(E[n], n + 1)
    BY <1>4, <2>1
  <2>3. IsEncoder(E[n])
    BY <1>6
  <2>4. ASSUME NEW e, NEW f, NEW i, IsEncoder(e)
        PROVE  IsEncoder(AtEnd(e, f, i))
    <3>1. CASE f.kind = "existing"
      BY <2>4, <3>1 DEF AtEnd
    <3>2. CASE f.kind # "existing"
      BY <3>2 DEF AtEnd, IsEncoder
    <3> QED
      BY <3>1, <3>2
  <2> QED
    BY <2>1, <2>2, <2>3, <2>4
<1>7. 0 .. m \subseteq T
  <2> HIDE DEF T
  <2> QED
    BY <1>2, <1>5, <1>6, CountUp
<1>8. PlaceOf(st, id) - 1 \in 0 .. m
  BY <1>1, <1>2
<1>9. IsEncoder(E[PlaceOf(st, id) - 1])
  BY <1>7, <1>8
<1> QED
  BY <1>9 DEF EncoderAt, E

-----------------------------------------------------------------------------
(* A header is read as it was coded. *)

\* The fields of the header after a key frame's tag...
LEMMA KeyTagReads ==
    ASSUME NEW e \in Header, NEW f \in Frames, NEW n, n = KeyTag(e, f)
    PROVE  /\ n \in Header /\ n.key_frame = TRUE
           /\ n.show_frame = f.show
           /\ n.error_resilient = f.resilient /\ n.reset_frame_flags = TRUE
           /\ n.refresh_frame_flags = RefSlots
<1> DEFINE m == [e EXCEPT !.key_frame = TRUE, !.show_frame = f.show,
                          !.error_resilient = f.resilient]
<1>1. /\ m \in Header /\ m.key_frame = TRUE
      /\ m.show_frame = f.show /\ m.error_resilient = f.resilient
  BY DEF Header, Frames
<1>2. n = [m EXCEPT !.reset_frame_flags = TRUE,
                    !.refresh_frame_flags = RefSlots,
                    !.active_ref_idx = <<0>>]
  BY DEF KeyTag
<1>3. n \in Header
  BY TagTypes
<1> HIDE DEF m
<1> QED
  BY <1>1, <1>2, <1>3 DEF Header

\* ... after another frame's...
LEMMA NonKeyTagReads ==
    ASSUME NEW e \in Header, NEW f \in Frames, NEW n, n = NonKeyTag(e, f)
    PROVE  /\ n \in Header /\ n.key_frame = FALSE
           /\ n.show_frame = f.show
           /\ n.error_resilient = f.resilient
           /\ n.intra_only = IntraOnly(e, f)
           /\ n.refresh_frame_flags = f.refresh
           /\ f.kind # "intra" => n.active_ref_idx = f.refs
           /\ n.prev_is_key_frame = e.prev_is_key_frame
           /\ n.prev_show_frame = e.prev_show_frame
           /\ n.reset_frame_flags = e.reset_frame_flags
<1> DEFINE intra == IntraOnly(e, f)
           reset == IF f.resilient THEN 0 ELSE f.reset
           refs == IF f.kind = "intra" THEN e.active_ref_idx ELSE f.refs
           m == [e EXCEPT !.key_frame = FALSE, !.show_frame = f.show,
                          !.error_resilient = f.resilient]
           k == [m EXCEPT !.intra_only = intra, !.reset_frame_context = reset]
<1>1. intra \in BOOLEAN /\ reset \in 0 .. 3 /\ refs \in Seq(RefSlots)
  <2>1. intra \in BOOLEAN
    BY DEF IntraOnly, Header, Frames
  <2> QED
    BY <2>1 DEF Header, Frames
<1>2. n = [k EXCEPT !.refresh_frame_flags = f.refresh,
                    !.active_ref_idx = refs]
  BY DEF NonKeyTag
<1> HIDE DEF intra, reset
<1>3. /\ m \in Header /\ m.key_frame = FALSE /\ m.show_frame = f.show
      /\ m.error_resilient = f.resilient
      /\ m.prev_is_key_frame = e.prev_is_key_frame
      /\ m.prev_show_frame = e.prev_show_frame
      /\ m.reset_frame_flags = e.reset_frame_flags
  BY DEF Header, Frames
<1> HIDE DEF m
<1>4. /\ k \in Header /\ k.key_frame = FALSE /\ k.show_frame = f.show
      /\ k.error_resilient = f.resilient /\ k.intra_only = intra
      /\ k.prev_is_key_frame = e.prev_is_key_frame
      /\ k.prev_show_frame = e.prev_show_frame
      /\ k.reset_frame_flags = e.reset_frame_flags
  BY <1>1, <1>3 DEF Header
<1>5. n \in Header
  BY TagTypes
<1> HIDE DEF k
<1>6. /\ n.key_frame = FALSE /\ n.show_frame = f.show
      /\ n.error_resilient = f.resilient /\ n.intra_only = intra
      /\ n.refresh_frame_flags = f.refresh /\ n.active_ref_idx = refs
      /\ n.prev_is_key_frame = e.prev_is_key_frame
      /\ n.prev_show_frame = e.prev_show_frame
      /\ n.reset_frame_flags = e.reset_frame_flags
  BY <1>2, <1>4 DEF Header
<1> QED
  BY <1>5, <1>6 DEF intra

\* ... and after the rest of the header.
LEMMA EndOfTagReads ==
    ASSUME NEW e \in Header, NEW d \in Header, NEW f \in Frames, NEW id,
           NEW n, n = EndOfTag(e, d, f, id)
    PROVE  /\ n.key_frame = e.key_frame /\ n.show_frame = e.show_frame
           /\ n.error_resilient = e.error_resilient
           /\ n.intra_only = e.intra_only
           /\ n.refresh_frame_flags = e.refresh_frame_flags
           /\ n.reset_frame_flags = e.reset_frame_flags
           /\ n.active_ref_idx = e.active_ref_idx
           /\ n.show_existing_frame = e.show_existing_frame
           /\ n.prev_is_key_frame = e.prev_is_key_frame
           /\ n.prev_show_frame = e.prev_show_frame
           /\ n.refresh_entropy_probs = (~f.resilient /\ f.save)
           /\ n.frame_context_idx = IF Vp9Resets(d, f) THEN 0 ELSE f.context
           /\ n.filter = f.filter /\ n.segment = f.segment
           /\ n.deltas = DecodeLfParams(d, f, id)
           /\ n.features = DecodeSegmentationData(d, f, id)
<1> DEFINE deltas == DecodeLfParams(d, f, id)
           features == DecodeSegmentationData(d, f, id)
           context == IF Vp9Resets(d, f) THEN 0 ELSE f.context
           saves == ~f.resilient /\ f.save
<1>1. n = [e EXCEPT !.refresh_entropy_probs = saves,
                    !.frame_context_idx = context,
                    !.filter = f.filter, !.deltas = deltas,
                    !.segment = f.segment, !.features = features]
  BY DEF EndOfTag
<1> HIDE DEF deltas, features, context, saves
<1>2. /\ n.key_frame = e.key_frame /\ n.show_frame = e.show_frame
      /\ n.error_resilient = e.error_resilient
      /\ n.intra_only = e.intra_only
      /\ n.refresh_frame_flags = e.refresh_frame_flags
      /\ n.reset_frame_flags = e.reset_frame_flags
      /\ n.active_ref_idx = e.active_ref_idx
      /\ n.show_existing_frame = e.show_existing_frame
      /\ n.prev_is_key_frame = e.prev_is_key_frame
      /\ n.prev_show_frame = e.prev_show_frame
  BY <1>1 DEF Header
<1>3. /\ n.refresh_entropy_probs = saves /\ n.frame_context_idx = context
      /\ n.filter = f.filter /\ n.segment = f.segment
      /\ n.deltas = deltas /\ n.features = features
  BY <1>1 DEF Header
<1> QED
  BY <1>2, <1>3 DEF deltas, features, context, saves

\* Where a frame stops reading what was before it.
LEMMA ResetsIs ==
    ASSUME NEW d, NEW f \in Frames, f.kind = "intra" => ~f.show
    PROVE  /\ f.kind # "key" => IntraOnly(d, f) = (f.kind = "intra")
           /\ Vp9Resets(d, f) = Independent(f)
           /\ (IF Vp9Resets(d, f) THEN 0 ELSE f.context) = ContextOf(f)
<1>1. f.show \in BOOLEAN /\ f.resilient \in BOOLEAN
  BY DEF Frames
<1>2. f.kind # "key" => IntraOnly(d, f) = (f.kind = "intra")
  BY <1>1 DEF IntraOnly
<1>3. Vp9Resets(d, f) = Independent(f)
  BY <1>1, <1>2 DEF Vp9Resets, Independent
<1> QED
  BY <1>2, <1>3 DEF ContextOf

\* What the header of a frame says is read, and what it says about memories.
LEMMA FrameTagReads ==
    ASSUME NEW d \in Header, NEW f \in Frames, NEW id \in Contents,
           f.kind # "existing", ~LacksRef(f), f.kind = "intra" => ~f.show,
           NEW n, n = FrameTag(d, f, id)
    PROVE  /\ FieldsRead(n, f)
           /\ n.features = IF f.segment # "off" /\ f.features THEN id
                           ELSE IF Independent(f) THEN Default ELSE d.features
           /\ n.deltas = IF f.filter = "update" THEN id
                         ELSE IF Independent(f) THEN Default ELSE d.deltas
           /\ f.kind # "key" => /\ n.prev_is_key_frame = d.key_frame
                                /\ n.prev_show_frame = d.show_frame
<1> DEFINE p == Previous(d, f)
           e == [p EXCEPT !.reset_frame_flags = FALSE,
                          !.show_existing_frame = FALSE]
           t == IF f.kind = "key" THEN KeyTag(e, f) ELSE NonKeyTag(e, f)
<1>1. n = EndOfTag(t, d, f, id)
  BY DEF FrameTag
<1>2. /\ e \in Header /\ e.reset_frame_flags = FALSE
      /\ e.prev_is_key_frame = d.key_frame
      /\ e.prev_show_frame = d.show_frame
  <2>1. /\ p \in Header /\ p.prev_is_key_frame = d.key_frame
        /\ p.prev_show_frame = d.show_frame
    BY DEF Previous, Header
  <2> HIDE DEF p
  <2> QED
    BY <2>1 DEF Header
<1> HIDE DEF e
<1>3. /\ t \in Header /\ t.key_frame = (f.kind = "key")
      /\ t.show_frame = f.show /\ t.error_resilient = f.resilient
      /\ t.reset_frame_flags = (f.kind = "key")
      /\ t.refresh_frame_flags = IF f.kind = "key" THEN RefSlots
                                 ELSE f.refresh
      /\ f.kind # "key" => t.intra_only = (f.kind = "intra")
      /\ f.kind = "inter" => t.active_ref_idx = f.refs
      /\ f.kind # "key" => /\ t.prev_is_key_frame = d.key_frame
                           /\ t.prev_show_frame = d.show_frame
  <2>1. CASE f.kind = "key"
    BY <1>2, <2>1, KeyTagReads
  <2>2. CASE f.kind # "key"
    <3>1. IntraOnly(e, f) = (f.kind = "intra")
      BY <2>2, ResetsIs
    <3>2. t = NonKeyTag(e, f)
      BY <2>2
    <3> HIDE DEF t
    <3>3. /\ t \in Header /\ t.key_frame = FALSE
          /\ t.show_frame = f.show /\ t.error_resilient = f.resilient
          /\ t.intra_only = IntraOnly(e, f)
          /\ t.refresh_frame_flags = f.refresh
          /\ f.kind # "intra" => t.active_ref_idx = f.refs
          /\ t.prev_is_key_frame = e.prev_is_key_frame
          /\ t.prev_show_frame = e.prev_show_frame
          /\ t.reset_frame_flags = e.reset_frame_flags
      BY <1>2, <3>2, NonKeyTagReads
    <3> QED
      BY <1>2, <2>2, <3>1, <3>3
  <2> QED
    BY <2>1, <2>2
<1>4. n.show_existing_frame = FALSE
  BY FrameTagTypes
<1> HIDE DEF t
<1>5. /\ Vp9Resets(d, f) = Independent(f)
      /\ (IF Vp9Resets(d, f) THEN 0 ELSE f.context) = ContextOf(f)
  BY ResetsIs
<1>6. /\ n.key_frame = t.key_frame /\ n.show_frame = t.show_frame
      /\ n.error_resilient = t.error_resilient
      /\ n.intra_only = t.intra_only
      /\ n.refresh_frame_flags = t.refresh_frame_flags
      /\ n.reset_frame_flags = t.reset_frame_flags
      /\ n.active_ref_idx = t.active_ref_idx
      /\ n.prev_is_key_frame = t.prev_is_key_frame
      /\ n.prev_show_frame = t.prev_show_frame
      /\ n.refresh_entropy_probs = (~f.resilient /\ f.save)
      /\ n.frame_context_idx = ContextOf(f)
      /\ n.filter = f.filter /\ n.segment = f.segment
      /\ n.deltas = DecodeLfParams(d, f, id)
      /\ n.features = DecodeSegmentationData(d, f, id)
  BY <1>1, <1>3, <1>5, EndOfTagReads
<1>7. FieldsRead(n, f)
  <2>1. (~f.resilient /\ f.save) = (f.save /\ ~f.resilient)
    BY DEF Frames
  <2> QED
    BY <1>3, <1>4, <1>6, <2>1 DEF FieldsRead
<1>8. /\ n.features = IF f.segment # "off" /\ f.features THEN id
                      ELSE IF Independent(f) THEN Default ELSE d.features
      /\ n.deltas = IF f.filter = "update" THEN id
                    ELSE IF Independent(f) THEN Default ELSE d.deltas
  BY <1>5, <1>6 DEF DecodeLfParams, DecodeSegmentationData
<1> QED
  BY <1>3, <1>6, <1>7, <1>8

\* The memories of an encoder after a frame.
LEMMA AtEndIs ==
    ASSUME NEW e, NEW f, f.kind # "existing", NEW id
    PROVE  LET b == AtStart(e, f)
               n == AtEnd(e, f, id)
           IN  /\ n.slots = [s \in RefSlots |->
                                IF f.kind = "key" \/ s \in f.refresh
                                THEN id ELSE b.slots[s]]
               /\ n.contexts = IF f.save /\ ~f.resilient
                               THEN [b.contexts EXCEPT ![ContextOf(f)] = id]
                               ELSE b.contexts
               /\ n.segments = IF f.segment = "update" THEN id ELSE b.segments
               /\ n.features = IF f.segment # "off" /\ f.features THEN id
                               ELSE b.features
               /\ n.deltas = IF f.filter = "update" THEN id ELSE b.deltas
               /\ n.last = id /\ n.lastKey = (f.kind = "key")
               /\ n.lastIntra = (f.kind = "intra") /\ n.lastShown = f.show
  BY DEF AtEnd

\* The frame at hand is one of the stream.
LEMMA FrameIs ==
    ASSUME Types, UnitAtHand, nDecStep \in {"header", "frame"}
    PROVE  LET f == FrameAt(stream, Id)
           IN  /\ stream \in DOMAIN Streams /\ IsFrame(stream, Id)
               /\ f \in Frames
               /\ f.kind = "intra" => ~f.show
               /\ f.kind = "inter" => f.refs[1] \in RefSlots
<1> DEFINE frames == Streams[stream][unit].frames
           k == Len(frames) - nFrameNums + 1
<1>1. /\ FrameAt(stream, Id) \in Frames /\ Id \in Contents
      /\ FrameAt(stream, Id).kind = "inter" =>
             FrameAt(stream, Id).refs[1] \in RefSlots
  BY FrameAtHand
<1>2. /\ unit \in DOMAIN Streams[stream] /\ stream \in DOMAIN Streams
      /\ nFrameNums \in 1 .. Len(frames)
  BY DEF Types, TypeOK, UnitAtHand
<1>3. Len(frames) \in Nat /\ DOMAIN frames = 1 .. Len(frames)
  BY <1>2, UnitNamesIs
<1>4. Id = <<unit, k>>
  BY DEF Id
<1> HIDE DEF frames
<1>5. k \in DOMAIN frames
  BY <1>2, <1>3
<1> HIDE DEF k
<1>6. IsFrame(stream, Id)
  BY <1>1, <1>2, <1>4, <1>5 DEF IsFrame, frames
<1>7. FrameAt(stream, Id) = frames[k]
  BY <1>4 DEF FrameAt, frames
<1>8. frames[k].kind = "intra" => ~frames[k].show
  BY <1>2, <1>5, StreamAssumption DEF frames
<1> QED
  BY <1>1, <1>2, <1>6, <1>7, <1>8

\* A step that decodes nothing keeps what is said of the last picture.
LEMMA UsedKept ==
    ASSUME DecodedAsCoded, stream' = stream, g'.used = g.used,
           g.repeated => g'.repeated
    PROVE  DecodedAsCoded'
  BY DEF DecodedAsCoded, RefsAsCoded, ProbsAsCoded, MotionAsCoded,
         SegmentsAsCoded, HeadersAsCoded, Sound, Coded

\* The contexts and the maps after a header.
LEMMA ContextsReset ==
    ASSUME NEW last, NEW d, NEW f \in Frames, f.kind = "intra" => ~f.show,
           f.kind # "existing"
    PROVE  ResetProbs(last, d, f) = ContextsAtStart(last, f)
<1>1. Vp9Resets(d, f) = Independent(f) /\ f.resilient \in BOOLEAN
  BY ResetsIs DEF Frames
<1>2. CASE f.kind = "key"
  BY <1>1, <1>2 DEF ResetProbs, ContextsAtStart, Independent
<1>3. CASE f.kind # "key" /\ f.resilient
  BY <1>1, <1>3 DEF ResetProbs, ContextsAtStart, Independent
<1>4. CASE f.kind = "intra" /\ ~f.resilient
  BY <1>1, <1>4 DEF ResetProbs, ContextsAtStart, Independent
<1>5. CASE f.kind = "inter" /\ ~f.resilient
  BY <1>1, <1>5 DEF ResetProbs, ContextsAtStart, Independent
<1> QED
  BY <1>2, <1>3, <1>4, <1>5 DEF Frames

\* What the encoder remembers when it has read a header is what it said.
LEMMA DecodeHeaderStep ==
    ASSUME CountInv, StepInv, DecodeHeader
    PROVE  StepInv'
<1> PICK id, f, e : /\ id = Id /\ f = FrameAt(stream, id)
                    /\ e = EncoderAt(stream, id)
  OBVIOUS
<1> DEFINE b == AtStart(e, f)
           coded == f.kind # "existing" /\ ~LacksRef(f)
           clean == f.kind = "key" \/ (g.clean /\ f.kind # "existing")
           hurt == g.hurt \/ f.kind = "existing"
           again == g.repeated \/ f.kind = "existing"
<1>1. /\ Types /\ UnitAtHand /\ nDecStep = "header" /\ halted = "no"
      /\ h \in Header /\ DecodedAsCoded
  BY DEF CountInv, Types, DecodeHeader, StepInv
<1>2. /\ stream \in DOMAIN Streams /\ IsFrame(stream, id)
      /\ f \in Frames /\ id \in Contents
      /\ f.kind = "intra" => ~f.show
      /\ f.kind = "inter" => f.refs[1] \in RefSlots
  BY <1>1, FrameIs DEF IsFrame
<1>3. /\ h' = FrameTag(h, f, id)
      /\ q' = IF f.kind = "existing" THEN ShowExisting(f) ELSE q
      /\ coded => /\ entropy_last' = ResetProbs(entropy_last, h, f)
                  /\ entropy' = GetProbs(entropy_last', h, f)
      /\ segment_map' = IF coded /\ Vp9Resets(h, f) THEN ClearedMaps
                        ELSE segment_map
      /\ nDecStep' = "frame"
      /\ UNCHANGED <<stream, next, unit, nFrameNums, pool, prev_out_buffer_i,
                     active_segment_map>>
  BY DEF DecodeHeader
<1>4. g' = [g EXCEPT !.clean = clean, !.hurt = hurt, !.repeated = again]
  BY DEF DecodeHeader
<1>5. g'.used = g.used /\ g'.clean = clean /\ g'.repeated = again
  <2> HIDE DEF clean, hurt, again
  <2> QED
    BY <1>1, <1>4 DEF Types
<1>6. DecodedAsCoded'
  BY <1>1, <1>3, <1>5, UsedKept
<1>7. segment_map' \in [{0, 1} -> Contents]
  <2>1. ClearedMaps \in [{0, 1} -> Contents]
    BY DEF ClearedMaps, Default, Contents
  <2> HIDE DEF coded
  <2> QED
    BY <1>3, <2>1 DEF StepInv
<1>8. nDecStep' # "data" => next' = unit' + 1
  BY <1>1, <1>3 DEF StepInv
<1>9. Id' = id
  BY <1>3 DEF Id
<1>10. ASSUME clean, ~again PROVE HasRead(e, f, id)'
  <2>1. f.kind # "existing" /\ ~g.repeated /\ (f.kind = "key" \/ g.clean)
    BY <1>10
  <2>2. f.kind # "key" => Remembers(e)
    BY <1>1, <2>1 DEF StepInv, InStep
  <2>3. IsEncoder(e)
    BY <1>2, EncoderIs
  <2>4. /\ b.slots = e.slots
        /\ b.contexts = ContextsAtStart(e.contexts, f)
        /\ b.segments = IF Independent(f) THEN Default ELSE e.segments
        /\ b.features = IF Independent(f) THEN Default ELSE e.features
        /\ b.deltas = IF Independent(f) THEN Default ELSE e.deltas
    BY <2>3, AtStartIs
  <2> HIDE DEF b
  <2>5. ~LacksRef(f)
    <3>1. REFERENCE_NOT_SET \notin Buffers
      BY DEF REFERENCE_NOT_SET, Buffers
    <3> QED
      BY <1>2, <2>2, <3>1
         DEF Remembers, SlotsAgree, LacksRef, SizeBuffer,
             Vp9BufferQueueGetRef
  <2>6. /\ FieldsRead(h', f)
        /\ h'.features = IF f.segment # "off" /\ f.features THEN id
                         ELSE IF Independent(f) THEN Default ELSE h.features
        /\ h'.deltas = IF f.filter = "update" THEN id
                       ELSE IF Independent(f) THEN Default ELSE h.deltas
        /\ f.kind # "key" => /\ h'.prev_is_key_frame = h.key_frame
                             /\ h'.prev_show_frame = h.show_frame
    BY <1>1, <1>2, <1>3, <2>1, <2>5, FrameTagReads
  <2>7. /\ q' = q /\ coded
        /\ entropy_last' = ResetProbs(entropy_last, h, f)
        /\ entropy' = GetProbs(entropy_last', h, f)
    BY <1>3, <2>1, <2>5
  <2>8. /\ Vp9Resets(h, f) = Independent(f)
        /\ (IF Vp9Resets(h, f) THEN 0 ELSE f.context) = ContextOf(f)
    BY <1>2, ResetsIs
  <2>9. entropy_last' = b.contexts /\ entropy' = b.contexts[ContextOf(f)]
    <3>1. entropy_last' = ContextsAtStart(entropy_last, f)
      BY <1>2, <2>1, <2>7, ContextsReset
    <3>2. entropy_last' = ContextsAtStart(e.contexts, f)
      BY <2>2, <3>1 DEF Remembers, ContextsAtStart
    <3> QED
      BY <2>4, <2>7, <2>8, <3>2 DEF GetProbs
  <2>10. segment_map'[active_segment_map'] = b.segments
    <3>1. ClearedMaps[active_segment_map] = Default
      BY <1>1 DEF Types, TypeOK, ClearedMaps
    <3>2. ~Independent(f) => f.kind # "key"
      BY DEF Independent
    <3> QED
      BY <1>3, <2>2, <2>4, <2>7, <2>8, <3>1, <3>2 DEF Remembers
  <2>11. f.kind = "key" => b.segments = Default
    BY <2>4 DEF Independent
  <2>12. /\ h'.features = IF f.segment # "off" /\ f.features THEN id
                          ELSE b.features
         /\ h'.deltas = IF f.filter = "update" THEN id ELSE b.deltas
    <3>1. ~Independent(f) => f.kind # "key"
      BY DEF Independent
    <3> QED
      BY <2>2, <2>4, <2>6, <3>1 DEF Remembers
  <2>13. f.kind # "key" =>
             /\ SlotsAgree(e)' /\ MotionAgrees(e)'
             /\ h'.prev_is_key_frame = e.lastKey
             /\ h'.prev_show_frame = e.lastShown
    <3>1. f.kind # "key" => SlotsAgree(e)'
      BY <1>3, <2>2, <2>7 DEF Remembers, SlotsAgree
    <3>2. f.kind # "key" => MotionAgrees(e)'
      BY <1>3, <2>2, <2>7 DEF Remembers, MotionAgrees
    <3> QED
      BY <2>2, <2>6, <3>1, <3>2 DEF Remembers
  <2>14. FieldsRead(h, f)'
    BY <2>6 DEF FieldsRead
  <2>15. MemoriesRead(b, f, id)'
    BY <2>9, <2>10, <2>11, <2>12 DEF MemoriesRead, b
  <2> QED
    BY <2>13, <2>14, <2>15 DEF HasRead, b
<1>11. g'.clean /\ ~g'.repeated /\ halted' = "no" => InStep'
  BY <1>3, <1>5, <1>9, <1>10 DEF InStep
<1> QED
  BY <1>6, <1>7, <1>8, <1>11 DEF StepInv

\* A step that leaves the decoder's memories alone.
LEMMA StepAlone ==
    ASSUME StepInv, UNCHANGED <<stream, next, unit, nFrameNums, nDecStep,
                                coreVars, halted>>,
           g'.clean = g.clean, g'.repeated = g.repeated, g'.used = g.used
    PROVE  StepInv'
<1>1. UNCHANGED <<h, q, pool, prev_out_buffer_i, entropy, entropy_last,
                  segment_map, active_segment_map, stream, next, unit,
                  nFrameNums, nDecStep, halted>>
  BY DEF coreVars
<1>2. DecodedAsCoded'
  BY <1>1, UsedKept DEF StepInv
<1>3. Id' = Id
  BY <1>1 DEF Id
<1>4. InStep => InStep'
  <2>1. ASSUME NEW e PROVE Remembers(e) => Remembers(e)'
    BY <1>1 DEF Remembers, SlotsAgree, MotionAgrees
  <2>2. ASSUME NEW e, NEW f, NEW id
        PROVE  HasRead(e, f, id) => HasRead(e, f, id)'
    BY <1>1 DEF HasRead, FieldsRead, MemoriesRead, SlotsAgree, MotionAgrees
  <2> QED
    BY <1>1, <1>3, <2>1, <2>2 DEF InStep
<1> QED
  BY <1>1, <1>2, <1>4 DEF StepInv

\* A new unit begins where the encoder was.
LEMMA PrepareDataStep ==
    ASSUME CountInv, StepInv, PrepareData
    PROVE  StepInv'
<1>1. /\ nDecStep = "data" /\ unit' = next /\ next' = next + 1
      /\ nDecStep' = "header" /\ next \in DOMAIN Streams[stream]
      /\ nFrameNums' = Len(Streams[stream][next].frames)
      /\ UNCHANGED <<h, q, pool, prev_out_buffer_i, entropy, entropy_last,
                     segment_map, active_segment_map, stream, halted, g>>
  <2>1. stream \in DOMAIN Streams /\ next \in 1 .. Len(Streams[stream]) + 1
    BY DEF CountInv, Types, TypeOK
  <2>2. Len(Streams[stream]) \in Nat
        /\ DOMAIN Streams[stream] = 1 .. Len(Streams[stream])
    BY <2>1, NamesUpToIs
  <2>3. next <= Len(Streams[stream])
    BY DEF PrepareData
  <2>4. next \in DOMAIN Streams[stream]
    BY <2>1, <2>2, <2>3
  <2> QED
    BY <2>4 DEF PrepareData, coreVars
<1>2. Id' = <<next, 1>>
  <2>1. stream \in DOMAIN Streams
    BY DEF CountInv, Types, TypeOK
  <2>2. Len(Streams[stream][next].frames) \in {1, 2}
    BY <1>1, <2>1, UnitNamesIs
  <2>3. Id' = <<next, Len(Streams[stream][next].frames)
                      - Len(Streams[stream][next].frames) + 1>>
    BY <1>1 DEF Id
  <2> QED
    BY <2>2, <2>3
<1>3. DecodedAsCoded'
  BY <1>1, UsedKept DEF StepInv
<1>4. InStep => InStep'
  <2>1. ASSUME NEW e PROVE Remembers(e) => Remembers(e)'
    BY <1>1 DEF Remembers, SlotsAgree, MotionAgrees
  <2>2. InStep => \/ Streams[stream][next].frames[1].kind = "key"
                  \/ Remembers(EncoderAt(stream, <<next, 1>>))
    BY <1>1 DEF InStep
  <2>3. FrameAt(stream, <<next, 1>>) = Streams[stream][next].frames[1]
    BY DEF FrameAt
  <2>4. PICK e : e = EncoderAt(stream, <<next, 1>>)
    OBVIOUS
  <2>5. InStep => \/ FrameAt(stream, <<next, 1>>).kind = "key"
                  \/ Remembers(e)'
    BY <2>1, <2>2, <2>3, <2>4
  <2> QED
    BY <1>1, <1>2, <2>4, <2>5 DEF InStep
<1> QED
  BY <1>1, <1>3, <1>4 DEF StepInv

\* After a bus error nothing is said of what follows.
LEMMA AfterBusErrorStep ==
    ASSUME CountInv, StepInv, AfterBusError
    PROVE  StepInv'
<1>1. /\ nDecStep = "result" /\ nDecStep' \in {"header", "data"}
      /\ nDecStep' = "header" => unit' = unit
      /\ UNCHANGED <<stream, next, segment_map, halted, g>>
  BY DEF AfterBusError, FrameDone
<1>2. DecodedAsCoded'
  BY <1>1, UsedKept DEF StepInv
<1>3. ~InStep
  BY <1>1 DEF InStep
<1> QED
  BY <1>1, <1>2, <1>3 DEF StepInv

\* The player comes back to a key frame.
LEMMA SeekStep ==
    ASSUME CountInv, StepInv, Seek
    PROVE  StepInv'
<1>1. PICK to \in SeekPoints(stream) :
         /\ next' = to
         /\ g' = [g EXCEPT !.from = to, !.hurt = FALSE, !.out = <<>>]
  BY DEF Seek
<1>2. /\ nDecStep' = "data"
      /\ UNCHANGED <<stream, segment_map, halted>>
  BY DEF Seek, coreVars
<1>3. /\ g'.clean = g.clean /\ g'.repeated = g.repeated
      /\ g'.used = g.used
  BY <1>1 DEF CountInv, Types
<1>4. DecodedAsCoded'
  BY <1>2, <1>3, UsedKept DEF StepInv
<1>5. Streams[stream][to].frames[1].kind = "key"
  BY DEF SeekPoints
<1>6. InStep'
  BY <1>1, <1>2, <1>5 DEF InStep
<1> QED
  BY <1>2, <1>4, <1>6 DEF StepInv

\* The player's other calls.
LEMMA PlayerStep ==
    ASSUME CountInv, StepInv, NoFrameBuffer \/ TakePicture \/ ReturnPicture
    PROVE  StepInv'
<1>1. UNCHANGED <<stream, next, unit, nFrameNums, nDecStep, coreVars, halted>>
  BY DEF NoFrameBuffer, TakePicture, ReturnPicture, decVars
<1>2. \/ g' = g
      \/ \E out : g' = [g EXCEPT !.out = out]
  BY DEF NoFrameBuffer, TakePicture, ReturnPicture
<1>3. /\ g'.clean = g.clean /\ g'.repeated = g.repeated
      /\ g'.used = g.used
  BY <1>2 DEF CountInv, Types
<1> QED
  BY <1>1, <1>3, StepAlone

\* At the start nothing has come out.
LEMMA InitStepInv == Init => StepInv
<1> SUFFICES ASSUME Init PROVE StepInv
  OBVIOUS
<1>1. g.clean = FALSE /\ g.used.clean = FALSE /\ nDecStep = "data"
      /\ segment_map = [i \in {0, 1} |-> Default]
  BY DEF Init, Ghost, Reading, ClearedMaps
<1>2. Default \in Contents
  BY DEF Default, Contents
<1>3. DecodedAsCoded
  BY <1>1 DEF DecodedAsCoded, RefsAsCoded, ProbsAsCoded, MotionAsCoded,
              SegmentsAsCoded, HeadersAsCoded, Sound
<1> QED
  BY <1>1, <1>2, <1>3 DEF StepInv

-----------------------------------------------------------------------------
(* A picture is decoded from what it was coded from. *)

\* The registers say what the encoder read.
LEMMA RegistersAsCoded ==
    ASSUME CountInv, nDecStep = "frame",
           NEW id, NEW f, NEW e, id = Id, f = FrameAt(stream, id),
           IsEncoder(e), HasRead(e, f, id)
    PROVE  LET r == Reads(e, f, id)
           IN  /\ Registers.refs = r.refs /\ Registers.probs = r.probs
               /\ Registers.motion = r.motion
               /\ Registers.segments = r.segments
               /\ Registers.features = r.features
               /\ Registers.deltas = r.deltas
               /\ Registers.frame = id /\ Registers.clean = g.clean
<1> DEFINE b == AtStart(e, f)
           r == Reads(e, f, id)
           coded == f.kind = "inter" /\ ~f.resilient /\ e.lastShown
                    /\ ~e.lastKey /\ ~e.lastIntra
<1>1. /\ r.refs = IF f.kind = "inter"
                  THEN [i \in DOMAIN f.refs |-> b.slots[f.refs[i]]] ELSE <<>>
      /\ r.probs = b.contexts[ContextOf(f)]
      /\ r.motion = IF coded THEN e.last ELSE Nothing
      /\ r.segments = IF f.segment = "off" THEN Nothing ELSE b.segments
      /\ r.features = IF f.segment = "off" THEN Nothing
                      ELSE IF f.features THEN id ELSE b.features
      /\ r.deltas = IF f.filter = "off" THEN Nothing
                    ELSE IF f.filter = "update" THEN id ELSE b.deltas
  BY DEF Reads
<1>2. /\ f \in Frames /\ f.kind # "existing"
      /\ h \in Header
      /\ f.refs \in Seq(RefSlots)
  BY FrameIs DEF CountInv, Types, HasRead, FieldsRead, Frames
<1>3. b.slots = e.slots
  BY AtStartIs
<1> HIDE DEF b, r
<1>4. FieldsRead(h, f) /\ MemoriesRead(b, f, id)
  BY DEF HasRead, b
<1>5. Inter = (f.kind = "inter")
  BY <1>2, <1>4 DEF FieldsRead, Inter, Frames
<1>6. Registers.refs = r.refs
  <2>1. Registers.refs = ReferenceFrames
    BY DEF Registers
  <2>2. CASE f.kind = "inter"
    <3>1. SlotsAgree(e) /\ h.active_ref_idx = f.refs
      BY <1>4, <2>2 DEF HasRead, FieldsRead
    <3>2. RefBuffers = [i \in DOMAIN f.refs |-> q.ref_status[f.refs[i]]]
      BY <3>1 DEF RefBuffers, Vp9BufferQueueGetRef
    <3>3. ReferenceFrames =
              [i \in DOMAIN f.refs |-> pool[q.ref_status[f.refs[i]]].pic]
      BY <1>5, <2>2, <3>2 DEF ReferenceFrames
    <3>4. ASSUME NEW i \in DOMAIN f.refs
          PROVE  pool[q.ref_status[f.refs[i]]].pic = b.slots[f.refs[i]]
      <4>1. f.refs[i] \in RefSlots
        BY <1>2
      <4> QED
        BY <1>3, <3>1, <4>1 DEF SlotsAgree
    <3> QED
      BY <1>1, <2>1, <2>2, <3>3, <3>4
  <2>3. CASE f.kind # "inter"
    BY <1>1, <1>5, <2>1, <2>3 DEF ReferenceFrames
  <2> QED
    BY <2>2, <2>3
<1>7. Registers.probs = r.probs
  BY <1>1, <1>4 DEF Registers, MemoriesRead
<1>8. Registers.motion = r.motion
  <2>1. Registers.motion =
            IF TemporalMvs THEN pool[prev_out_buffer_i].motion ELSE Nothing
    BY DEF Registers
  <2>2. h.key_frame = (f.kind = "key") /\ h.error_resilient = f.resilient
    BY <1>4 DEF FieldsRead
  <2>3. f.kind # "key" =>
            /\ h.intra_only = (f.kind = "intra") /\ MotionAgrees(e)
            /\ h.prev_is_key_frame = e.lastKey
            /\ h.prev_show_frame = e.lastShown
    BY <1>4 DEF HasRead, FieldsRead
  <2>4. TemporalMvs <=> coded
    BY <1>2, <2>2, <2>3 DEF TemporalMvs, MotionAgrees, Frames
  <2>5. coded => pool[prev_out_buffer_i].motion = e.last
    BY <2>3 DEF MotionAgrees
  <2> QED
    BY <1>1, <2>1, <2>4, <2>5
<1>9. /\ Registers.segments = r.segments
      /\ Registers.features = r.features /\ Registers.deltas = r.deltas
  <2>1. /\ Registers.segments = Segmentation.segments
        /\ Registers.features = Segmentation.features
        /\ Registers.deltas = LoopFilter
    BY DEF Registers
  <2>2. h.segment = f.segment /\ h.filter = f.filter
    BY <1>4 DEF FieldsRead
  <2>3. /\ segment_map[active_segment_map] = b.segments
        /\ h.features = IF f.segment # "off" /\ f.features THEN id
                        ELSE b.features
        /\ h.deltas = IF f.filter = "update" THEN id ELSE b.deltas
    BY <1>4 DEF MemoriesRead
  <2>4. LoopFilter = r.deltas
    BY <1>1, <2>2, <2>3 DEF LoopFilter
  <2>5. Segmentation.segments = r.segments
    BY <1>1, <2>2, <2>3 DEF Segmentation
  <2>6. Segmentation.features = r.features
    BY <1>1, <2>2, <2>3 DEF Segmentation
  <2> QED
    BY <2>1, <2>4, <2>5, <2>6
<1>10. Registers.frame = id /\ Registers.clean = g.clean
  BY DEF Registers
<1> QED
  BY <1>6, <1>7, <1>8, <1>9, <1>10 DEF r

\* ... so that the picture is decoded as it was coded.
LEMMA PictureAsCoded ==
    ASSUME CountInv, StepInv, NEW outcome \in Outcomes, RunPicture(outcome),
           ~Lacking
    PROVE  DecodedAsCoded'
<1>1. /\ nDecStep = "frame" /\ halted = "no" /\ stream' = stream
      /\ g'.repeated = g.repeated
  BY PictureTypes
<1>2. g'.used = Registers
  <2> DEFINE out == Vp9GetRefFrm(q).buffer
             wrong == outcome # "ready" \/ ~g.clean
             hurt == g.hurt \/ outcome # "ready"
             clean == ~wrong
             leaked == IF outcome = "bus" THEN g.leaked \cup {out}
                       ELSE g.leaked
  <2>1. g' = [g EXCEPT !.used = Registers, !.clean = clean, !.hurt = hurt,
                       !.leaked = leaked]
    BY DEF RunPicture, Lacking
  <2> HIDE DEF clean, hurt, leaked
  <2> QED
    BY <2>1 DEF CountInv, Types
<1>3. PICK id, f, e : /\ id = Id /\ f = FrameAt(stream, id)
                      /\ e = EncoderAt(stream, id)
  OBVIOUS
<1> SUFFICES ASSUME Sound' PROVE DecodedAsCoded'
  BY DEF DecodedAsCoded, RefsAsCoded, ProbsAsCoded, MotionAsCoded,
         SegmentsAsCoded, HeadersAsCoded
<1>4. g.clean /\ ~g.repeated
  BY <1>1, <1>2 DEF Sound, Registers
<1>5. HasRead(e, f, id)
  BY <1>1, <1>3, <1>4 DEF StepInv, InStep
<1>6. /\ stream \in DOMAIN Streams /\ IsFrame(stream, id)
      /\ f.kind # "existing"
  BY <1>1, <1>3, <1>5, FrameIs DEF CountInv, HasRead, FieldsRead
<1>7. IsEncoder(e)
  BY <1>3, <1>6, EncoderIs
<1> DEFINE r == Reads(e, f, id)
<1>8. /\ Registers.refs = r.refs /\ Registers.probs = r.probs
      /\ Registers.motion = r.motion /\ Registers.segments = r.segments
      /\ Registers.features = r.features /\ Registers.deltas = r.deltas
      /\ Registers.frame = id
  BY <1>1, <1>3, <1>5, <1>7, RegistersAsCoded
<1>9. CodedReads[stream][id] = r
  BY <1>3, <1>6, CodedIs
<1> HIDE DEF r
<1>10. Coded' = r
  BY <1>1, <1>2, <1>8, <1>9 DEF Coded
<1> QED
  BY <1>2, <1>8, <1>10
     DEF DecodedAsCoded, RefsAsCoded, ProbsAsCoded, MotionAsCoded,
         SegmentsAsCoded, HeadersAsCoded

\* Of a frame that is not kept in a slot the slot still holds what it held.
LEMMA SlotsAfter ==
    ASSUME CountInv, RunPicture("ready"), ~Lacking, ~g.repeated
    PROVE  LET out == Vp9GetRefFrm(q).buffer
           IN  /\ out \in Buffers
               /\ \A s \in RefSlots :
                     /\ q.ref_status[s] # out
                     /\ q'.ref_status[s] = IF s \in h.refresh_frame_flags
                                           THEN out
                                           ELSE IF h.reset_frame_flags
                                           THEN REFERENCE_NOT_SET
                                           ELSE q.ref_status[s]
<1> DEFINE out == Vp9GetRefFrm(q).buffer
           given == Vp9GetRefFrm(q).queue
           shown == h.show_existing_frame \/ h.show_frame
           corrupted == "ready" = "error"
           output == "ready" # "bus" /\ (~corrupted \/ pic_number = 1)
           drops == output /\ shown
<1>1. q' = UpdateRefs(given, out, corrupted, drops)
  BY DEF RunPicture, Lacking
<1>2. /\ out # -1 /\ h \in Header /\ ~h.show_existing_frame
      /\ Held(q, g.leaked)
  BY DEF Lacking, CountInv, Types, HeaderRead, ReferencesHeld
<1>3. /\ out \in Buffers /\ out \notin g.leaked
      /\ Held(given, g.leaked \cup {out}) /\ Grown(given, g.leaked)
      /\ given.ref_status = q.ref_status
      /\ \A s \in RefSlots : q.ref_status[s] # out
  BY <1>2, GetRefFrmHeld
<1>4. /\ corrupted \in BOOLEAN /\ drops \in BOOLEAN /\ ~corrupted
      /\ drops <=> h.show_frame /\ ~(corrupted /\ pic_number # 1)
  BY <1>2 DEF Header
<1> HIDE DEF out, given, corrupted, drops
<1>5. \A s \in RefSlots :
         q'.ref_status[s] = IF s \in h.refresh_frame_flags THEN out
                            ELSE IF h.reset_frame_flags
                            THEN REFERENCE_NOT_SET
                            ELSE given.ref_status[s]
  BY <1>1, <1>2, <1>3, <1>4, UpdateRefsHeld
<1> QED
  BY <1>3, <1>5 DEF out

\* The other memories after it.
LEMMA MemoriesAfter ==
    ASSUME CountInv, "ready" \in Outcomes, RunPicture("ready"), ~Lacking,
           g.clean
    PROVE  LET out == Vp9GetRefFrm(q).buffer
               cleared == IF h.key_frame THEN ClearedMaps ELSE segment_map
           IN  /\ prev_out_buffer_i' = out
               /\ entropy_last' = StoreProbs(entropy_last, Id)
               /\ segment_map' = WrittenMaps(cleared, Id)
               /\ active_segment_map' = NextMap
               /\ pool'[out].pic = Id
               /\ ~h.key_frame => pool'[out].motion = Id
               /\ \A b \in Buffers : b # out => pool'[b] = pool[b]
               /\ h'.key_frame = h.key_frame /\ h'.show_frame = h.show_frame
               /\ h'.features = h.features /\ h'.deltas = h.deltas
               /\ FrameDone(nFrameNums - 1)
<1> DEFINE out == Vp9GetRefFrm(q).buffer
           cleared == IF h.key_frame THEN ClearedMaps ELSE segment_map
           wrong == "ready" # "ready" \/ ~g.clean
           content == IF wrong THEN Broken ELSE Id
           shown == h.show_existing_frame \/ h.show_frame
           kept == "ready" = "bus" \/ ("ready" = "error" /\ pic_number = 1)
           flag == h.reset_frame_flags /\ kept
<1>1. content = Id
  OBVIOUS
<1>2. /\ entropy_last' = StoreProbs(entropy_last, content)
      /\ segment_map' = WrittenMaps(cleared, content)
      /\ active_segment_map' = NextMap
      /\ FrameDone(nFrameNums - 1)
  BY DEF RunPicture, Lacking
<1>3. prev_out_buffer_i' = out
  BY DEF RunPicture, Lacking
<1>4. h' = [h EXCEPT
              !.reset_frame_flags = flag,
              !.pic_callback_arg = [index |-> out, show_frame |-> shown]]
  BY DEF RunPicture, Lacking
<1>5. /\ h'.key_frame = h.key_frame /\ h'.show_frame = h.show_frame
      /\ h'.features = h.features /\ h'.deltas = h.deltas
  <2> HIDE DEF flag, shown, out
  <2> QED
    BY <1>4 DEF CountInv, Types, Header
<1>6. /\ \A b \in Buffers : b # out => pool'[b] = pool[b]
      /\ pool'[out].pic = IF "ready" # "ready" \/ ~g.clean THEN Broken ELSE Id
      /\ ~h.key_frame => pool'[out].motion = pool'[out].pic
  BY PictureTypes
<1>7. pool'[out].pic = Id
  BY <1>6
<1> HIDE DEF content
<1> QED
  BY <1>1, <1>2, <1>3, <1>5, <1>6, <1>7

\* After a picture that came out the decoder remembers what the encoder does.
LEMMA PictureRemembered ==
    ASSUME CountInv, StepInv, "ready" \in Outcomes, RunPicture("ready"),
           ~Lacking, g.clean, ~g.repeated,
           NEW id, NEW f, NEW e, id = Id, f = FrameAt(stream, id),
           IsEncoder(e), HasRead(e, f, id), NEW n, n = AtEnd(e, f, id)
    PROVE  Remembers(n)'
<1> DEFINE b == AtStart(e, f)
           out == Vp9GetRefFrm(q).buffer
           cleared == IF h.key_frame THEN ClearedMaps ELSE segment_map
<1>1. /\ nDecStep = "frame" /\ f \in Frames /\ f.kind # "existing"
      /\ f.kind = "intra" => ~f.show
      /\ h \in Header /\ active_segment_map \in {0, 1}
      /\ segment_map \in [{0, 1} -> Contents]
  BY PictureTypes, FrameIs
     DEF CountInv, Types, TypeOK, HasRead, FieldsRead, StepInv
<1>2. /\ out \in Buffers
      /\ \A s \in RefSlots :
            /\ q.ref_status[s] # out
            /\ q'.ref_status[s] = IF s \in h.refresh_frame_flags THEN out
                                  ELSE IF h.reset_frame_flags
                                  THEN REFERENCE_NOT_SET
                                  ELSE q.ref_status[s]
  BY SlotsAfter
<1>3. /\ prev_out_buffer_i' = out
      /\ entropy_last' = StoreProbs(entropy_last, id)
      /\ segment_map' = WrittenMaps(cleared, id)
      /\ active_segment_map' = NextMap
      /\ pool'[out].pic = id
      /\ ~h.key_frame => pool'[out].motion = id
      /\ \A c \in Buffers : c # out => pool'[c] = pool[c]
      /\ h'.key_frame = h.key_frame /\ h'.show_frame = h.show_frame
      /\ h'.features = h.features /\ h'.deltas = h.deltas
  BY MemoriesAfter
<1>4. /\ n.slots = [s \in RefSlots |->
                       IF f.kind = "key" \/ s \in f.refresh
                       THEN id ELSE b.slots[s]]
      /\ n.contexts = IF f.save /\ ~f.resilient
                      THEN [b.contexts EXCEPT ![ContextOf(f)] = id]
                      ELSE b.contexts
      /\ n.segments = IF f.segment = "update" THEN id ELSE b.segments
      /\ n.features = IF f.segment # "off" /\ f.features THEN id
                      ELSE b.features
      /\ n.deltas = IF f.filter = "update" THEN id ELSE b.deltas
      /\ n.last = id /\ n.lastKey = (f.kind = "key")
      /\ n.lastIntra = (f.kind = "intra") /\ n.lastShown = f.show
  BY <1>1, AtEndIs
<1>5. b.slots = e.slots
  BY AtStartIs
<1> HIDE DEF b, out, cleared
<1>6. FieldsRead(h, f) /\ MemoriesRead(b, f, id)
  BY DEF HasRead, b
<1>7. SlotsAgree(n)'
  <2> SUFFICES ASSUME NEW s \in RefSlots
               PROVE  /\ q'.ref_status[s] \in Buffers
                      /\ pool'[q'.ref_status[s]].pic = n.slots[s]
    BY DEF SlotsAgree
  <2>1. /\ h.reset_frame_flags = (f.kind = "key")
        /\ h.refresh_frame_flags = IF f.kind = "key" THEN RefSlots
                                   ELSE f.refresh
    BY <1>6 DEF FieldsRead
  <2>2. CASE f.kind = "key" \/ s \in f.refresh
    <3>1. q'.ref_status[s] = out
      BY <1>2, <2>1, <2>2
    <3>2. n.slots[s] = id
      BY <1>4, <2>2
    <3> QED
      BY <1>2, <1>3, <3>1, <3>2
  <2>3. CASE ~(f.kind = "key" \/ s \in f.refresh)
    <3>1. q'.ref_status[s] = q.ref_status[s] /\ q.ref_status[s] # out
      BY <1>2, <2>1, <2>3
    <3>2. n.slots[s] = e.slots[s]
      BY <1>4, <1>5, <2>3
    <3>3. SlotsAgree(e)
      BY <2>3 DEF HasRead
    <3>4. /\ q.ref_status[s] \in Buffers
          /\ pool[q.ref_status[s]].pic = e.slots[s]
      BY <3>3 DEF SlotsAgree
    <3> QED
      BY <1>3, <3>1, <3>2, <3>4
  <2> QED
    BY <2>2, <2>3
<1>8. MotionAgrees(n)'
  <2>1. h.key_frame = (f.kind = "key")
    BY <1>6 DEF FieldsRead
  <2>2. ~n.lastKey => pool'[prev_out_buffer_i'].motion = n.last
    BY <1>3, <1>4, <2>1
  <2>3. n.lastIntra => ~n.lastShown
    BY <1>1, <1>4
  <2> QED
    BY <2>2, <2>3 DEF MotionAgrees
<1>9. h'.key_frame = n.lastKey /\ h'.show_frame = n.lastShown
  BY <1>3, <1>4, <1>6 DEF FieldsRead
<1>10. entropy_last' = n.contexts
  BY <1>3, <1>4, <1>6 DEF FieldsRead, MemoriesRead, StoreProbs
<1>11. segment_map'[active_segment_map'] = n.segments
  <2>1. /\ h.segment = f.segment /\ h.key_frame = (f.kind = "key")
        /\ segment_map[active_segment_map] = b.segments
        /\ f.kind = "key" => b.segments = Default
    BY <1>6 DEF FieldsRead, MemoriesRead
  <2>2. cleared \in [{0, 1} -> Contents]
    <3>1. ClearedMaps \in [{0, 1} -> Contents]
      BY DEF ClearedMaps, Default, Contents
    <3> QED
      BY <1>1, <3>1 DEF cleared
  <2>3. cleared[active_segment_map] = b.segments
    <3>1. ClearedMaps[active_segment_map] = Default
      BY <1>1 DEF ClearedMaps
    <3> QED
      BY <2>1, <3>1 DEF cleared
  <2>4. CASE f.segment = "update"
    <3>1. /\ active_segment_map' = 1 - active_segment_map
          /\ segment_map' = [cleared EXCEPT ![1 - active_segment_map] = id]
      BY <1>3, <2>1, <2>4 DEF WrittenMaps, NextMap
    <3>2. 1 - active_segment_map \in {0, 1}
      BY <1>1
    <3> QED
      BY <1>4, <2>2, <2>4, <3>1, <3>2
  <2>5. CASE f.segment # "update"
    <3>1. /\ active_segment_map' = active_segment_map
          /\ segment_map' = cleared
      BY <1>3, <2>1, <2>5 DEF WrittenMaps, NextMap
    <3> QED
      BY <1>4, <2>3, <2>5, <3>1
  <2> QED
    BY <2>4, <2>5
<1>12. h'.features = n.features /\ h'.deltas = n.deltas
  BY <1>3, <1>4, <1>6 DEF MemoriesRead
<1> QED
  BY <1>7, <1>8, <1>9, <1>10, <1>11, <1>12 DEF Remembers

\* The unit goes on with the frame after this one, or the next unit follows.
LEMMA FrameFollows ==
    ASSUME CountInv, StepInv, nDecStep = "frame", FrameDone(nFrameNums - 1),
           stream' = stream, next' = next,
           NEW id, NEW f, NEW e, NEW n, id = Id, f = FrameAt(stream, id),
           e = EncoderAt(stream, id), n = AtEnd(e, f, id)
    PROVE  /\ nDecStep' \in {"header", "data"}
           /\ nDecStep' = "header" => /\ unit' = unit
                                      /\ EncoderAt(stream', Id') = n
           /\ nDecStep' = "data" /\ next' \in DOMAIN Streams[stream'] =>
                  EncoderAt(stream', <<next', 1>>) = n
<1> DEFINE m == Len(Streams[stream][unit].frames)
           k == m - nFrameNums + 1
<1>1. /\ stream \in DOMAIN Streams /\ unit \in DOMAIN Streams[stream]
      /\ nFrameNums \in 1 .. m /\ next = unit + 1
      /\ IsFrame(stream, id)
  BY FrameIs DEF CountInv, Types, TypeOK, UnitAtHand, StepInv
<1>2. m \in Nat /\ DOMAIN Streams[stream][unit].frames = 1 .. m
  BY <1>1, UnitNamesIs
<1>3. id = <<unit, k>>
  BY DEF Id
<1>4. /\ nFrameNums' = nFrameNums - 1
      /\ \/ nFrameNums - 1 # 0 /\ nDecStep' = "header" /\ unit' = unit
         \/ nFrameNums - 1 = 0 /\ nDecStep' = "data"
  BY DEF FrameDone
<1>5. ASSUME nDecStep' = "header" PROVE EncoderAt(stream, Id') = n
  <2>1. unit' = unit /\ nFrameNums - 1 # 0
    BY <1>4, <1>5
  <2>2. Id' = <<unit, m - nFrameNums' + 1>>
    BY <2>1 DEF Id
  <2> HIDE DEF m, k
  <2>3. m - nFrameNums' + 1 = k + 1 /\ k + 1 \in 1 .. m
    BY <1>1, <1>2, <1>4, <2>1 DEF k
  <2>4. IsFrame(stream, <<unit, k + 1>>)
    <3>1. <<unit, k + 1>> \in Contents
      <4>1. unit \in Nat
        BY <1>1, NamesUpToIs
      <4> QED
        BY <2>3, <4>1 DEF Contents
    <3> QED
      BY <1>1, <1>2, <2>3, <3>1 DEF IsFrame
  <2> QED
    BY <1>1, <1>3, <2>2, <2>3, <2>4, EncoderNext
<1>6. ASSUME nDecStep' = "data", next \in DOMAIN Streams[stream]
      PROVE  EncoderAt(stream, <<next, 1>>) = n
  <2>1. k = m
    <3> HIDE DEF m
    <3> QED
      BY <1>1, <1>2, <1>4, <1>6
  <2>2. next = unit + 1
    BY <1>1
  <2> QED
    BY <1>1, <1>3, <1>6, <2>1, <2>2, EncoderNext
<1> QED
  BY <1>4, <1>5, <1>6

\* A picture.
LEMMA RunPictureStep ==
    ASSUME CountInv, StepInv, NEW outcome \in Outcomes, RunPicture(outcome)
    PROVE  StepInv'
<1>1. CASE Lacking
  <2>1. /\ halted' = "crashed"
        /\ UNCHANGED <<stream, next, unit, nDecStep, segment_map, g>>
    BY <1>1 DEF RunPicture, Lacking, decVars, coreVars
  <2>2. DecodedAsCoded'
    BY <2>1, UsedKept DEF StepInv
  <2> QED
    BY <2>1, <2>2 DEF StepInv
<1>2. CASE ~Lacking
  <2> DEFINE out == Vp9GetRefFrm(q).buffer
             wrong == outcome # "ready" \/ ~g.clean
             content == IF wrong THEN Broken ELSE Id
             cleared == IF h.key_frame THEN ClearedMaps ELSE segment_map
  <2>1. /\ nDecStep = "frame" /\ halted = "no" /\ stream' = stream
        /\ next' = next /\ g'.repeated = g.repeated
    BY <1>2, PictureTypes
  <2>2. DecodedAsCoded'
    BY <1>2, PictureAsCoded
  <2>3. segment_map' \in [{0, 1} -> Contents]
    <3>1. segment_map' = WrittenMaps(cleared, content)
      BY <1>2 DEF RunPicture, Lacking
    <3>2. content \in Contents
      <4>1. Id \in Contents
        BY <2>1, FrameAtHand DEF CountInv
      <4> QED
        BY <4>1 DEF Broken, Contents
    <3>3. ClearedMaps \in [{0, 1} -> Contents]
      BY DEF ClearedMaps, Default, Contents
    <3> HIDE DEF content
    <3> QED
      BY <3>1, <3>2, <3>3 DEF WrittenMaps, StepInv
  <2>4. nDecStep' # "data" => next' = unit' + 1
    <3>1. nDecStep' # "data" => unit' = unit
      BY <1>2 DEF RunPicture, Lacking, FrameDone
    <3> QED
      BY <2>1, <3>1 DEF StepInv
  <2>5. g'.clean => outcome = "ready" /\ g.clean
    <3> DEFINE hurt == g.hurt \/ outcome # "ready"
               clean == ~wrong
               leaked == IF outcome = "bus" THEN g.leaked \cup {out}
                         ELSE g.leaked
    <3>1. g' = [g EXCEPT !.used = Registers, !.clean = clean, !.hurt = hurt,
                         !.leaked = leaked]
      BY <1>2 DEF RunPicture, Lacking
    <3>2. g'.clean = clean
      <4> HIDE DEF clean, hurt, leaked
      <4> QED
        BY <3>1 DEF CountInv, Types
    <3> QED
      BY <3>2
  <2>6. ASSUME g'.clean, ~g'.repeated PROVE InStep'
    <3>1. RunPicture("ready") /\ "ready" \in Outcomes /\ g.clean /\ ~g.repeated
      BY <2>1, <2>5, <2>6
    <3>2. PICK id, f, e : /\ id = Id /\ f = FrameAt(stream, id)
                          /\ e = EncoderAt(stream, id)
      OBVIOUS
    <3>3. HasRead(e, f, id)
      BY <2>1, <3>1, <3>2 DEF StepInv, InStep
    <3>4. stream \in DOMAIN Streams /\ IsFrame(stream, id)
      BY <2>1, <3>2, FrameIs DEF CountInv
    <3>5. IsEncoder(e)
      BY <3>2, <3>4, EncoderIs
    <3>6. PICK n : n = AtEnd(e, f, id)
      OBVIOUS
    <3>7. Remembers(n)'
      BY <1>2, <3>1, <3>2, <3>3, <3>5, <3>6, PictureRemembered
    <3>8. FrameDone(nFrameNums - 1)
      BY <1>2, <3>1, MemoriesAfter
    <3>9. /\ nDecStep' \in {"header", "data"}
          /\ nDecStep' = "header" => EncoderAt(stream', Id') = n
          /\ nDecStep' = "data" /\ next' \in DOMAIN Streams[stream'] =>
                 EncoderAt(stream', <<next', 1>>) = n
      BY <2>1, <3>2, <3>6, <3>8, FrameFollows
    <3> QED
      BY <3>7, <3>9 DEF InStep
  <2> QED
    BY <2>1, <2>2, <2>3, <2>4, <2>6 DEF StepInv
<1> QED
  BY <1>1, <1>2

-----------------------------------------------------------------------------
(* The theorem. *)

\* Every step of the system keeps the decoder in step.
LEMMA StepStays == CountInv /\ StepInv /\ [Next]_vars => StepInv'
<1> SUFFICES ASSUME CountInv, StepInv, [Next]_vars PROVE StepInv'
  OBVIOUS
<1>1. CASE UNCHANGED vars
  BY <1>1, StepAlone DEF vars, decVars
<1> QED
  BY <1>1, PrepareDataStep, DecodeHeaderStep, PlayerStep, AfterBusErrorStep,
     RunPictureStep, SeekStep DEF Next, Decode

\* A frame is decoded from the state the encoder coded it from: references,
\* contexts, motion, segments and what headers leave behind are those of the
\* stream, for any stream and any number of slots, buffers and contexts, from a
\* key frame on, whatever happened before it, until a picture does not come out
\* or a frame is shown again.
THEOREM DecodedStaysAsCoded == Spec => []DecodedAsCoded
<1>1. Init => CountInv /\ StepInv
  BY InitCountInv, InitStepInv
<1>2. CountInv /\ StepInv /\ [Next]_vars => (CountInv /\ StepInv)'
  BY StepCountInv, StepStays
<1>3. StepInv => DecodedAsCoded
  BY DEF StepInv
<1> QED
  BY <1>1, <1>2, <1>3, PTL DEF Spec

-----------------------------------------------------------------------------
(* What the player is given. *)

\* The frames shown from the unit from on, up to the n-th frame of the stream.
ShownBy(st, from) ==
    LET names == FrameNames(st)
        upTo[n \in 0 .. Len(names)] ==
            IF n = 0 THEN <<>>
            ELSE IF names[n][1] >= from /\ FrameAt(st, names[n]).show
            THEN Append(upTo[n - 1], names[n])
            ELSE upTo[n - 1]
    IN  upTo

ShownLoop ==
    INSTANCE Loop WITH
        Step <- LAMBDA p, shown, n :
                    LET id == FrameNames(p[1])[n]
                    IN  IF id[1] >= p[2] /\ FrameAt(p[1], id).show
                        THEN Append(shown, id) ELSE shown,
        Good <- LAMBDA p, k, shown : TRUE

\* Each frame that is shown is appended.
LEMMA ShownByIs ==
    ASSUME NEW st \in DOMAIN Streams, NEW from
    PROVE  LET names == FrameNames(st)
               S == ShownBy(st, from)
           IN  /\ S[0] = <<>> /\ ShownFrames(st, from) = S[Len(names)]
               /\ \A n \in DOMAIN names :
                     S[n] = IF names[n][1] >= from /\ FrameAt(st, names[n]).show
                            THEN Append(S[n - 1], names[n]) ELSE S[n - 1]
<1> DEFINE names == FrameNames(st)
           m == Len(names)
           S == ShownBy(st, from)
           Turn(s, n) == IF names[n][1] >= from /\ FrameAt(st, names[n]).show
                         THEN Append(s, names[n]) ELSE s
           Is(f) == f = [n \in 0 .. m |-> IF n = 0 THEN <<>>
                                          ELSE Turn(f[n - 1], n)]
<1>1. names \in Seq(Contents)
  BY PlaceIs
<1>2. m \in Nat /\ DOMAIN names = 1 .. m
  BY <1>1
<1>3. \E f : Is(f)
  <2>1. PICK p : p = <<st, from>>
    OBVIOUS
  <2>2. p[1] = st /\ p[2] = from
    BY <2>1
  <2> DEFINE More(s, n) ==
                 LET id == FrameNames(p[1])[n]
                 IN  IF id[1] >= p[2] /\ FrameAt(p[1], id).show
                     THEN Append(s, id) ELSE s
  <2>3. PICK f : f = [n \in 0 .. m |-> IF n = 0 THEN <<>>
                                       ELSE More(f[n - 1], n)]
    <3> DEFINE E == ShownLoop!Counted(p, <<>>, m)
    <3>1. E = [n \in 0 .. m |-> IF n = 0 THEN <<>> ELSE More(E[n - 1], n)]
      <4>1. PICK f : f = E
        OBVIOUS
      <4> HIDE DEF m
      <4>2. f = [n \in 0 .. m |-> IF n = 0 THEN <<>> ELSE More(f[n - 1], n)]
        BY <1>2, <4>1, ShownLoop!CountedIs
      <4> QED
        BY <4>1, <4>2
    <3> HIDE DEF E, m, More
    <3> QED
      BY <3>1
  <2>4. \A s, n : More(s, n) = Turn(s, n)
    BY <2>2
  <2> HIDE DEF More, Turn, m
  <2> QED
    BY <2>3, <2>4
<1>4. Is(S)
  <2>1. S = CHOOSE f : Is(f)
    BY DEF ShownBy
  <2>2. Is(CHOOSE f : Is(f))
    <3> HIDE DEF Is
    <3> QED
      BY <1>3
  <2> HIDE DEF S, Is
  <2> QED
    BY <2>1, <2>2
<1>5. ShownFrames(st, from) = S[m]
  BY DEF ShownFrames, ShownBy
<1> HIDE DEF S, m, names, Turn
<1>6. \A n \in 0 .. m : S[n] = IF n = 0 THEN <<>> ELSE Turn(S[n - 1], n)
  BY <1>4
<1>7. S[0] = <<>>
  <2>1. 0 \in 0 .. m
    BY <1>2
  <2> QED
    BY <1>6, <2>1
<1>8. ASSUME NEW n \in DOMAIN names PROVE S[n] = Turn(S[n - 1], n)
  <2>1. n \in 0 .. m /\ n # 0
    BY <1>2
  <2> QED
    BY <1>6, <2>1
<1> QED
  BY <1>5, <1>7, <1>8 DEF S, m, names, Turn

\* What was shown before stays as it was.
LEMMA ShownGrows ==
    ASSUME NEW st \in DOMAIN Streams, NEW from,
           NEW n \in 0 .. Len(FrameNames(st))
    PROVE  LET S == ShownBy(st, from)
               all == ShownFrames(st, from)
           IN  /\ S[n] \in Seq(Contents) /\ all \in Seq(Contents)
               /\ Len(S[n]) <= Len(all)
               /\ \A k \in 1 .. Len(S[n]) : all[k] = S[n][k]
<1> DEFINE names == FrameNames(st)
           m == Len(names)
           S == ShownBy(st, from)
           Begins(a, b) == /\ a \in Seq(Contents) /\ b \in Seq(Contents)
                           /\ Len(a) <= Len(b)
                           /\ \A k \in 1 .. Len(a) : b[k] = a[k]
           T == {k \in 0 .. m : S[k] \in Seq(Contents)}
           U == {d \in 0 .. m - n : Begins(S[n], S[n + d])}
<1>1. names \in Seq(Contents)
  BY PlaceIs
<1>2. m \in Nat /\ DOMAIN names = 1 .. m
  BY <1>1
<1>3. /\ S[0] = <<>> /\ ShownFrames(st, from) = S[m]
      /\ \A k \in 1 .. m : \/ S[k] = S[k - 1]
                           \/ S[k] = Append(S[k - 1], names[k])
  BY <1>2, ShownByIs
<1> HIDE DEF S, m, names
<1>4. 0 .. m \subseteq T
  <2>1. 0 \in T
    <3>1. 0 \in 0 .. m /\ <<>> \in Seq(Contents)
      BY <1>2
    <3> QED
      BY <1>3, <3>1
  <2>2. ASSUME NEW k \in 0 .. m - 1, k \in T PROVE k + 1 \in T
    <3>1. k + 1 \in 1 .. m /\ (k + 1) - 1 = k /\ k + 1 \in 0 .. m
      BY <1>2
    <3>2. names[k + 1] \in Contents
      BY <1>1, <1>2, <3>1
    <3>3. S[k + 1] = S[k] \/ S[k + 1] = Append(S[k], names[k + 1])
      BY <1>3, <3>1
    <3>4. S[k + 1] \in Seq(Contents)
      <4>1. S[k] \in Seq(Contents)
        BY <2>2
      <4>2. Append(S[k], names[k + 1]) \in Seq(Contents)
        BY <3>2, <4>1
      <4> QED
        BY <3>3, <4>1, <4>2
    <3> QED
      BY <3>1, <3>4
  <2> HIDE DEF T
  <2> QED
    BY <1>2, <2>1, <2>2, CountUp
<1>5. n \in 0 .. m
  BY DEF m, names
<1>6. 0 .. m - n \subseteq U
  <2>1. 0 \in U
    BY <1>2, <1>4, <1>5
  <2>2. ASSUME NEW d \in 0 .. (m - n) - 1, d \in U PROVE d + 1 \in U
    <3>1. /\ n + (d + 1) \in 1 .. m /\ (n + (d + 1)) - 1 = n + d
          /\ d + 1 \in 0 .. m - n /\ n + (d + 1) \in 0 .. m
      BY <1>2, <1>5
    <3> DEFINE b == S[n + d]
               x == names[n + (d + 1)]
               c == S[n + (d + 1)]
    <3>2. x \in Contents
      BY <1>1, <1>2, <3>1
    <3>3. c = b \/ c = Append(b, x)
      BY <1>3, <3>1
    <3>4. Begins(S[n], b)
      BY <2>2
    <3> HIDE DEF b, x, c
    <3>5. Begins(S[n], c)
      <4>1. CASE c = b
        BY <3>4, <4>1
      <4>2. CASE c = Append(b, x)
        <5>1. /\ c \in Seq(Contents) /\ Len(c) = Len(b) + 1
              /\ \A k \in 1 .. Len(b) : c[k] = b[k]
          BY <3>2, <3>4, <4>2
        <5>2. Len(b) \in Nat /\ Len(S[n]) \in Nat
          BY <3>4
        <5> QED
          BY <3>4, <5>1, <5>2
      <4> QED
        BY <3>3, <4>1, <4>2
    <3> QED
      BY <3>1, <3>5 DEF c
  <2>3. m - n \in Nat
    BY <1>2, <1>5
  <2> HIDE DEF U
  <2> QED
    BY <2>1, <2>2, <2>3, CountUp
<1>7. Begins(S[n], S[m])
  <2>1. m - n \in 0 .. m - n /\ n + (m - n) = m
    BY <1>2, <1>5
  <2> QED
    BY <1>6, <2>1
<1> QED
  BY <1>3, <1>7 DEF S

\* The frames shown from the unit from on, before the frame id is decoded.
ShownBefore(st, from, id) == ShownBy(st, from)[PlaceOf(st, id) - 1]

\* A frame that is shown comes after those shown before it.
LEMMA ShownNext ==
    ASSUME NEW st \in DOMAIN Streams, NEW from, NEW u, NEW k,
           IsFrame(st, <<u, k>>), u >= from, NEW next1,
           \/ next1 = <<u, k + 1>>
           \/ next1 = <<u + 1, 1>> /\ k = Len(Streams[st][u].frames)
    PROVE  ShownBefore(st, from, next1) =
               IF FrameAt(st, <<u, k>>).show
               THEN Append(ShownBefore(st, from, <<u, k>>), <<u, k>>)
               ELSE ShownBefore(st, from, <<u, k>>)
<1> DEFINE names == FrameNames(st)
           p == PlaceOf(st, <<u, k>>)
           S == ShownBy(st, from)
<1>1. p \in DOMAIN names /\ names[p] = <<u, k>> /\ names \in Seq(Contents)
  BY PlaceIs
<1>2. p \in Nat
  BY <1>1
<1>3. PlaceOf(st, next1) = p + 1
  BY PlaceNext
<1>4. \A n \in DOMAIN names :
          S[n] = IF names[n][1] >= from /\ FrameAt(st, names[n]).show
                 THEN Append(S[n - 1], names[n]) ELSE S[n - 1]
  BY ShownByIs
<1> HIDE DEF names, p, S
<1>5. S[p] = IF FrameAt(st, <<u, k>>).show
             THEN Append(S[p - 1], <<u, k>>) ELSE S[p - 1]
  BY <1>1, <1>4
<1>6. (p + 1) - 1 = p
  BY <1>2
<1> QED
  BY <1>3, <1>5, <1>6 DEF ShownBefore, p, S

\* Nothing is shown before the first frame.
LEMMA ShownFirst ==
    ASSUME NEW st \in DOMAIN Streams, NEW from \in 1 .. Len(Streams[st]) + 1
    PROVE  ShownBefore(st, from, <<from, 1>>) = <<>>
<1> DEFINE names == FrameNames(st)
           m == Len(names)
           N == NamesUpTo(st)
           before == Len(N[from - 1])
           S == ShownBy(st, from)
           T == {n \in 0 .. before : S[n] = <<>>}
<1>1. Len(Streams[st]) \in Nat
  BY NamesUpToIs
<1>2. from - 1 \in 0 .. Len(Streams[st]) /\ from \in Nat
  BY <1>1
<1>3. NamesPlaced(st, from - 1)
  BY <1>2, NamesPlacedUpTo
<1>4. before \in Nat
  <2>1. N[from - 1] \in Seq(Contents)
    BY <1>2, NamesUpTyped
  <2> QED
    BY <2>1
<1>5. ASSUME NEW n \in 1 .. before
      PROVE  n \in DOMAIN names /\ names[n][1] < from
  <2> DEFINE id == N[from - 1][n]
  <2>1. IsFrame(st, id) /\ id[1] <= from - 1 /\ n = PlaceOf(st, id)
    BY <1>3 DEF NamesPlaced
  <2>2. n \in DOMAIN names /\ names[n] = id
    BY <2>1, PlaceIs
  <2>3. id[1] \in Nat
    BY <2>1 DEF IsFrame, Contents
  <2> HIDE DEF id, names
  <2> QED
    BY <1>2, <2>1, <2>2, <2>3
<1>6. /\ S[0] = <<>>
      /\ \A n \in DOMAIN names :
            S[n] = IF names[n][1] >= from /\ FrameAt(st, names[n]).show
                   THEN Append(S[n - 1], names[n]) ELSE S[n - 1]
  BY ShownByIs
<1>7. ASSUME NEW n \in 1 .. before PROVE S[n] = S[n - 1]
  <2>1. n \in DOMAIN names /\ ~ (names[n][1] >= from)
    <3>1. names[n][1] \in Nat
      BY <1>5, PlaceIs DEF IsFrame, Contents
    <3> HIDE DEF names, before
    <3> QED
      BY <1>2, <1>5, <3>1
  <2> HIDE DEF names, S, before
  <2> QED
    BY <1>6, <2>1
<1>8. before \in T
  <2>1. 0 \in T
    BY <1>4, <1>6
  <2>2. ASSUME NEW n \in 0 .. before - 1, n \in T PROVE n + 1 \in T
    <3>1. n + 1 \in 1 .. before /\ n + 1 \in 0 .. before /\ (n + 1) - 1 = n
      BY <1>4
    <3>2. S[n + 1] = S[n]
      BY <1>7, <3>1
    <3> QED
      BY <2>2, <3>1, <3>2
  <2> HIDE DEF T, before
  <2>3. 0 .. before \subseteq T
    BY <1>4, <2>1, <2>2, CountUp
  <2> QED
    BY <1>4, <2>3
<1>9. PlaceOf(st, <<from, 1>>) = before + 1
  BY DEF PlaceOf, FramesBefore
<1>10. (before + 1) - 1 = before
  BY <1>4
<1> QED
  BY <1>8, <1>9, <1>10 DEF ShownBefore

\* Of all that is shown, what is shown before a frame comes first.
LEMMA ShownOfAll ==
    ASSUME NEW st \in DOMAIN Streams, NEW from, NEW id,
           IsFrame(st, id) \/ id = <<Len(Streams[st]) + 1, 1>>
    PROVE  LET shown == ShownBefore(st, from, id)
               all == ShownFrames(st, from)
           IN  /\ shown \in Seq(Contents) /\ Len(shown) <= Len(all)
               /\ \A k \in 1 .. Len(shown) : all[k] = shown[k]
<1> DEFINE names == FrameNames(st)
           L == Len(Streams[st])
           p == PlaceOf(st, id)
<1>1. p - 1 \in 0 .. Len(names)
  <2>1. CASE IsFrame(st, id)
    <3>1. p \in DOMAIN names /\ names \in Seq(Contents)
      BY <2>1, PlaceIs
    <3> HIDE DEF p, names
    <3> QED
      BY <3>1
  <2>2. CASE id = <<L + 1, 1>>
    <3>1. L \in Nat /\ names = NamesUpTo(st)[L] /\ names \in Seq(Contents)
      BY NamesUpToIs, PlaceIs
    <3>2. (L + 1) - 1 = L
      BY <3>1
    <3>3. p = Len(names) + 1
      BY <2>2, <3>1, <3>2 DEF PlaceOf, FramesBefore
    <3> HIDE DEF names, p
    <3> QED
      BY <3>1, <3>3
  <2> QED
    BY <2>1, <2>2
<1> QED
  BY <1>1, ShownGrows DEF ShownBefore

-----------------------------------------------------------------------------
(* What the player is given. *)

\* All it was given since the start or the seek, and the frame decoded next.
Given == g.out \o fbm.display

AtHand == IF nDecStep = "data" THEN <<next, 1>> ELSE Id

InOrder(given, shown) ==
    /\ Len(given) = Len(shown)
    /\ \A k \in 1 .. Len(given) : /\ given[k].frame = shown[k]
                                  /\ given[k].content = shown[k]

\* A picture that is decoded will come out, and be shown if it was coded so.
ShowsAsCoded ==
    nDecStep = "frame" =>
        /\ g.clean /\ ~h.show_existing_frame
        /\ h.show_frame = FrameAt(stream, Id).show

\* The player has all that was to be shown before the frame at hand; the first
\* frame it sees is a key frame, and everything comes out from there on.
GivenInv ==
    /\ g.out \in Seq(Displayed) /\ g.hurt \in BOOLEAN
    /\ g.from \in 1 .. next
    /\ nDecStep # "data" => g.from <= unit
    /\ g.from \in DOMAIN Streams[stream] =>
           Streams[stream][g.from].frames[1].kind = "key"
    /\ ~g.hurt =>
           /\ nDecStep # "result"
           /\ g.clean \/ AtHand = <<g.from, 1>>
           /\ ShowsAsCoded
           /\ InOrder(Given, ShownBefore(stream, g.from, AtHand))

\* A picture the player takes was given to it before.
LEMMA GivenTaken ==
    ASSUME Types, GivenInv, TakePicture
    PROVE  /\ Given' = Given /\ g'.out \in Seq(Displayed)
           /\ g'.from = g.from /\ g'.hurt = g.hurt /\ g'.clean = g.clean
<1> DEFINE d == fbm.display
           o == g.out
<1>1. d \in Seq(Displayed) /\ d # <<>> /\ o \in Seq(Displayed)
  BY DEF Types, Frees, GivenInv, TakePicture
<1>2. g' = [g EXCEPT !.out = Append(o, Head(d))]
      /\ fbm' = [fbm EXCEPT !.display = Tail(d), !.held = @ + 1]
  BY DEF TakePicture
<1>3. g'.out = Append(o, Head(d)) /\ fbm'.display = Tail(d)
      /\ g'.from = g.from /\ g'.hurt = g.hurt /\ g'.clean = g.clean
  BY <1>2 DEF Types, Frees
<1> HIDE DEF d, o
<1>4. Head(d) \in Displayed /\ Append(o, Head(d)) \in Seq(Displayed)
  BY <1>1
<1>5. Append(o, Head(d)) \o Tail(d) = o \o d
  BY <1>1
<1> QED
  BY <1>3, <1>4, <1>5 DEF Given, d, o

\* What a picture adds to it.
Entry(outcome) ==
    [frame |-> Id, pts |-> Stamp,
     content |-> IF outcome # "ready" \/ ~g.clean THEN Broken ELSE Id]

LEMMA GivenPicture ==
    ASSUME CountInv, GivenInv, NEW outcome \in Outcomes, RunPicture(outcome),
           ~Lacking
    PROVE  /\ g'.out = g.out /\ g'.from = g.from
           /\ g'.hurt = (g.hurt \/ outcome # "ready")
           /\ g'.clean = (outcome = "ready" /\ g.clean)
           /\ Entry(outcome) \in Displayed
           /\ Given' \in {Given, Append(Given, Entry(outcome))}
           /\ outcome = "ready" =>
                  Given' = IF h.show_existing_frame \/ h.show_frame
                           THEN Append(Given, Entry(outcome)) ELSE Given
<1> DEFINE wrong == outcome # "ready" \/ ~g.clean
           hurt == g.hurt \/ outcome # "ready"
           clean == ~wrong
           leaked == IF outcome = "bus"
                     THEN g.leaked \cup {Vp9GetRefFrm(q).buffer}
                     ELSE g.leaked
           shown == h.show_existing_frame \/ h.show_frame
           output == outcome # "bus" /\ (outcome # "error" \/ pic_number = 1)
           entry == Entry(outcome)
<1>1. g' = [g EXCEPT !.used = Registers, !.clean = clean, !.hurt = hurt,
                     !.leaked = leaked]
  BY DEF RunPicture, Lacking
<1>2. /\ g'.out = g.out /\ g'.from = g.from /\ g'.hurt = hurt
      /\ g'.clean = clean
  <2> HIDE DEF clean, hurt, leaked
  <2> QED
    BY <1>1 DEF CountInv, Types
<1>3. fbm' = IF output THEN Output(fbm, shown, entry)
             ELSE [fbm EXCEPT !.free = @ - 1, !.lost = @ + 1]
  BY DEF RunPicture, Lacking, Entry
<1>4. fbm \in Frees
  BY DEF CountInv, Types
<1>5. entry \in Displayed
  <2>1. Id \in Contents
    <3>1. nDecStep = "frame"
      BY DEF RunPicture
    <3> QED
      BY <3>1, FrameAtHand DEF CountInv
  <2>2. Stamp \in Nat
    <3>1. pts \in [cur : Nat, pre : Nat] /\ Duration \in Nat
      BY Vp9Assumption DEF CountInv, Types
    <3> QED
      BY <3>1 DEF Stamp
  <2>3. Broken \in Contents
    BY DEF Broken, Contents
  <2> HIDE DEF wrong
  <2> QED
    BY <2>1, <2>2, <2>3 DEF Entry, Displayed
<1>6. /\ output /\ shown => fbm'.display = Append(fbm.display, entry)
      /\ ~ (output /\ shown) => fbm'.display = fbm.display
  <2> HIDE DEF output, shown, entry
  <2> QED
    BY <1>3, <1>4 DEF Output, Frees
<1>7. g.out \o Append(fbm.display, entry) = Append(g.out \o fbm.display, entry)
  <2>1. g.out \in Seq(Displayed) /\ fbm.display \in Seq(Displayed)
    BY <1>4 DEF GivenInv, Frees
  <2>2. ASSUME NEW o \in Seq(Displayed), NEW d \in Seq(Displayed),
               NEW e \in Displayed
        PROVE  o \o Append(d, e) = Append(o \o d, e)
    OBVIOUS
  <2> HIDE DEF entry
  <2> QED
    BY <1>5, <2>1, <2>2, Zenon
<1>8. Given' = IF output /\ shown THEN Append(Given, entry) ELSE Given
  <2> HIDE DEF output, shown, entry
  <2> QED
    BY <1>2, <1>6, <1>7 DEF Given
<1>9. outcome = "ready" => output
  OBVIOUS
<1> HIDE DEF output, shown, entry
<1>10. hurt = (g.hurt \/ outcome # "ready")
       /\ clean = (outcome = "ready" /\ g.clean)
  OBVIOUS
<1> QED
  BY <1>2, <1>5, <1>8, <1>9, <1>10 DEF entry, shown

\* The frame at hand after a picture.
LEMMA HandMoves ==
    ASSUME CountInv, StepInv, nDecStep = "frame", FrameDone(nFrameNums - 1),
           stream' = stream, next' = next
    PROVE  \E k : /\ AtHand = <<unit, k>> /\ IsFrame(stream, <<unit, k>>)
                  /\ \/ AtHand' = <<unit, k + 1>>
                     \/ /\ AtHand' = <<unit + 1, 1>>
                        /\ k = Len(Streams[stream][unit].frames)
<1> DEFINE m == Len(Streams[stream][unit].frames)
           k == m - nFrameNums + 1
<1>1. /\ stream \in DOMAIN Streams /\ unit \in DOMAIN Streams[stream]
      /\ nFrameNums \in 1 .. m /\ next = unit + 1
      /\ IsFrame(stream, Id)
  BY FrameIs DEF CountInv, Types, TypeOK, UnitAtHand, StepInv
<1>2. m \in Nat
  BY <1>1, UnitNamesIs
<1>3. AtHand = <<unit, k>> /\ Id = <<unit, k>>
  BY DEF Id, AtHand
<1>4. /\ nFrameNums' = nFrameNums - 1
      /\ \/ nFrameNums - 1 # 0 /\ nDecStep' = "header" /\ unit' = unit
         \/ nFrameNums - 1 = 0 /\ nDecStep' = "data"
  BY DEF FrameDone
<1>5. CASE nFrameNums - 1 # 0
  <2>1. AtHand' = <<unit, m - nFrameNums' + 1>>
    BY <1>4, <1>5 DEF AtHand, Id
  <2> HIDE DEF m
  <2>2. m - nFrameNums' + 1 = k + 1
    BY <1>1, <1>2, <1>4
  <2> HIDE DEF k
  <2> QED
    BY <1>1, <1>3, <2>1, <2>2
<1>6. CASE nFrameNums - 1 = 0
  <2>1. AtHand' = <<unit + 1, 1>>
    BY <1>1, <1>4, <1>6 DEF AtHand
  <2>2. k = m
    <3> HIDE DEF m
    <3> QED
      BY <1>1, <1>2, <1>6
  <2> HIDE DEF k
  <2> QED
    BY <1>1, <1>3, <2>1, <2>2
<1> QED
  BY <1>5, <1>6

\* A header says of every coded frame whether it is shown, even one that is
\* read half way.
LEMMA ShowIsRead ==
    ASSUME NEW d \in Header, NEW f \in Frames, NEW id \in Contents,
           f.kind # "existing", NEW n, n = FrameTag(d, f, id)
    PROVE  n.show_frame = f.show /\ ~n.show_existing_frame
<1> DEFINE e == [Previous(d, f) EXCEPT !.reset_frame_flags = FALSE,
                                       !.show_existing_frame = FALSE]
           t == IF f.kind = "key" THEN KeyTag(e, f) ELSE NonKeyTag(e, f)
<1>1. n = t \/ n = EndOfTag(t, d, f, id)
  BY DEF FrameTag
<1>2. e \in Header
  <2>1. Previous(d, f) \in Header
    BY DEF Previous, Header
  <2> QED
    BY <2>1 DEF Header
<1> HIDE DEF e
<1>3. t \in Header /\ t.show_frame = f.show
  <2>1. CASE f.kind = "key"
    BY <1>2, <2>1, KeyTagReads
  <2>2. CASE f.kind # "key"
    BY <1>2, <2>2, NonKeyTagReads
  <2> QED
    BY <2>1, <2>2
<1> HIDE DEF t
<1>4. n.show_frame = f.show
  BY <1>1, <1>3, EndOfTagReads
<1>5. ~n.show_existing_frame
  BY FrameTagTypes
<1> QED
  BY <1>4, <1>5

\* At the start nothing was given, and nothing was to be.
LEMMA InitGivenInv == Init => GivenInv
<1> SUFFICES ASSUME Init PROVE GivenInv
  OBVIOUS
<1>1. /\ stream \in DOMAIN Streams /\ next = 1 /\ nDecStep = "data"
      /\ g.from = 1 /\ g.hurt = FALSE /\ g.out = <<>> /\ fbm.display = <<>>
  BY DEF Init, Ghost, NewFbm
<1>2. Len(Streams[stream]) \in Nat
      /\ DOMAIN Streams[stream] = 1 .. Len(Streams[stream])
  BY <1>1, NamesUpToIs
<1>3. AtHand = <<1, 1>>
  BY <1>1 DEF AtHand
<1>4. ShownBefore(stream, 1, <<1, 1>>) = <<>>
  <2>1. 1 \in 1 .. Len(Streams[stream]) + 1
    BY <1>2
  <2> QED
    BY <1>1, <2>1, ShownFirst
<1>5. InOrder(Given, ShownBefore(stream, g.from, AtHand))
  <2>1. Given = <<>>
    BY <1>1 DEF Given
  <2> QED
    BY <1>1, <1>3, <1>4, <2>1 DEF InOrder
<1>6. 1 \in DOMAIN Streams[stream] => Streams[stream][1].frames[1].kind = "key"
  <2>1. 1 \in DOMAIN Streams[stream] => Streams[stream] # <<>>
    BY <1>2
  <2> QED
    BY <1>1, <2>1, StreamAssumption
<1>7. g.out \in Seq(Displayed) /\ g.hurt \in BOOLEAN /\ g.from \in 1 .. next
  <2>1. g.hurt \in BOOLEAN
    BY <1>1, Zenon
  <2>2. g.out \in Seq(Displayed) /\ g.from \in 1 .. next
    BY <1>1
  <2> QED
    BY <2>1, <2>2
<1>8. ShowsAsCoded
  BY <1>1 DEF ShowsAsCoded
<1> QED
  BY <1>1, <1>3, <1>5, <1>6, <1>7, <1>8 DEF GivenInv

\* The first frame of a unit is the one that was next.
LEMMA PrepareDataGiven ==
    ASSUME CountInv, GivenInv, PrepareData
    PROVE  GivenInv'
<1>1. /\ nDecStep = "data" /\ unit' = next /\ next' = next + 1
      /\ nDecStep' = "header" /\ next \in DOMAIN Streams[stream]
      /\ stream \in DOMAIN Streams /\ next \in Nat
      /\ nFrameNums' = Len(Streams[stream][next].frames)
      /\ UNCHANGED <<h, stream, g, fbm>>
  <2>1. stream \in DOMAIN Streams /\ next \in 1 .. Len(Streams[stream]) + 1
    BY DEF CountInv, Types, TypeOK
  <2>2. Len(Streams[stream]) \in Nat
        /\ DOMAIN Streams[stream] = 1 .. Len(Streams[stream])
    BY <2>1, NamesUpToIs
  <2>3. next <= Len(Streams[stream])
    BY DEF PrepareData
  <2>4. next \in DOMAIN Streams[stream] /\ next \in Nat
    BY <2>1, <2>2, <2>3
  <2> QED
    BY <2>1, <2>4 DEF PrepareData, coreVars
<1>2. Id' = <<next, 1>>
  <2>1. Len(Streams[stream][next].frames) \in {1, 2}
    BY <1>1, UnitNamesIs
  <2>2. Id' = <<next, Len(Streams[stream][next].frames)
                      - Len(Streams[stream][next].frames) + 1>>
    BY <1>1 DEF Id
  <2> QED
    BY <2>1, <2>2
<1>3. AtHand' = AtHand
  BY <1>1, <1>2 DEF AtHand
<1>4. Given' = Given
  BY <1>1 DEF Given
<1>5. g.from \in 1 .. next + 1 /\ g.from <= next
  BY <1>1 DEF GivenInv
<1> QED
  BY <1>1, <1>3, <1>4, <1>5 DEF GivenInv, ShowsAsCoded

\* A header says whether the frame is shown; the first one is a key frame's.
LEMMA DecodeHeaderGiven ==
    ASSUME CountInv, GivenInv, DecodeHeader
    PROVE  GivenInv'
<1> PICK id, f : id = Id /\ f = FrameAt(stream, id)
  OBVIOUS
<1> DEFINE clean == f.kind = "key" \/ (g.clean /\ f.kind # "existing")
           hurt == g.hurt \/ f.kind = "existing"
           again == g.repeated \/ f.kind = "existing"
<1>1. /\ Types /\ UnitAtHand /\ nDecStep = "header" /\ h \in Header
      /\ f \in Frames /\ id \in Contents /\ unit \in DOMAIN Streams[stream]
  <2>1. Types /\ UnitAtHand /\ nDecStep = "header" /\ h \in Header
    BY DEF CountInv, Types, DecodeHeader
  <2> QED
    BY <2>1, FrameAtHand DEF UnitAtHand
<1>2. /\ h' = FrameTag(h, f, id) /\ nDecStep' = "frame"
      /\ UNCHANGED <<stream, next, unit, nFrameNums, fbm>>
  BY DEF DecodeHeader
<1>3. g' = [g EXCEPT !.clean = clean, !.hurt = hurt, !.repeated = again]
  BY DEF DecodeHeader
<1>4. /\ g'.out = g.out /\ g'.from = g.from
      /\ g'.clean = clean /\ g'.hurt = hurt
  <2> HIDE DEF clean, hurt, again
  <2> QED
    BY <1>1, <1>3 DEF Types
<1>5. Id' = Id /\ AtHand' = AtHand /\ AtHand = Id /\ Given' = Given
  BY <1>1, <1>2, <1>4 DEF Id, AtHand, Given
<1>6. ASSUME ~hurt PROVE clean
  <2>1. CASE AtHand = <<g.from, 1>>
    <3>1. g.from = unit
      BY <1>5, <2>1 DEF Id
    <3>2. f = Streams[stream][g.from].frames[1]
      BY <1>5, <2>1 DEF FrameAt
    <3> QED
      BY <1>1, <3>1, <3>2 DEF GivenInv
  <2> QED
    BY <1>6, <2>1 DEF GivenInv
<1>7. ASSUME ~hurt PROVE ShowsAsCoded'
  <2>1. h'.show_frame = f.show /\ ~h'.show_existing_frame
    BY <1>1, <1>2, <1>7, ShowIsRead
  <2>2. FrameAt(stream, Id)' = f
    BY <1>2, <1>5 DEF FrameAt
  <2> QED
    BY <1>4, <1>6, <1>7, <2>1, <2>2 DEF ShowsAsCoded
<1>8. hurt \in BOOLEAN
  BY DEF GivenInv
<1>9. ~hurt => ~g.hurt
  OBVIOUS
<1> HIDE DEF clean, hurt
<1> QED
  BY <1>1, <1>2, <1>4, <1>5, <1>6, <1>7, <1>8, <1>9 DEF GivenInv

\* The picture of a shown frame is given next.
LEMMA RunPictureGiven ==
    ASSUME CountInv, StepInv, GivenInv, NEW outcome \in Outcomes,
           RunPicture(outcome)
    PROVE  GivenInv'
<1>1. CASE Lacking
  <2>1. UNCHANGED <<stream, next, unit, nFrameNums, nDecStep, h, fbm, g>>
    BY <1>1 DEF RunPicture, Lacking, decVars, coreVars
  <2>2. Id' = Id /\ AtHand' = AtHand /\ Given' = Given
    BY <2>1 DEF Id, AtHand, Given
  <2> QED
    BY <2>1, <2>2 DEF GivenInv, ShowsAsCoded, FrameAt
<1>2. CASE ~Lacking
  <2>1. /\ nDecStep = "frame" /\ UNCHANGED <<stream, next>>
        /\ nDecStep' \in {"result", "header", "data"}
        /\ nDecStep' # "data" => unit' = unit
    <3>1. nDecStep' \in {"result", "header", "data"}
          /\ (nDecStep' # "data" => unit' = unit)
      BY <1>2 DEF RunPicture, Lacking, FrameDone
    <3> QED
      BY <3>1 DEF RunPicture
  <2>2. /\ g'.out = g.out /\ g'.from = g.from
        /\ g'.hurt = (g.hurt \/ outcome # "ready")
        /\ g'.clean = (outcome = "ready" /\ g.clean)
        /\ outcome = "ready" =>
               Given' = IF h.show_existing_frame \/ h.show_frame
                        THEN Append(Given, Entry(outcome)) ELSE Given
    BY <1>2, GivenPicture
  <2>3. ASSUME ~g'.hurt
        PROVE  /\ nDecStep' # "result" /\ g'.clean
               /\ InOrder(Given, ShownBefore(stream, g.from, AtHand))'
    <3>1. outcome = "ready" /\ ~g.hurt /\ g.clean /\ ~h.show_existing_frame
      BY <2>1, <2>2, <2>3 DEF GivenInv, ShowsAsCoded
    <3>2. FrameDone(nFrameNums - 1)
      BY <1>2, <3>1 DEF RunPicture, Lacking
    <3>3. PICK k : /\ AtHand = <<unit, k>> /\ IsFrame(stream, <<unit, k>>)
                   /\ \/ AtHand' = <<unit, k + 1>>
                      \/ /\ AtHand' = <<unit + 1, 1>>
                         /\ k = Len(Streams[stream][unit].frames)
      BY <2>1, <3>2, HandMoves
    <3> DEFINE id == <<unit, k>>
               f == FrameAt(stream, id)
               before == ShownBefore(stream, g.from, id)
    <3>4. Id = id /\ h.show_frame = f.show
      BY <2>1, <3>1, <3>3 DEF AtHand, GivenInv, ShowsAsCoded
    <3>5. /\ stream \in DOMAIN Streams /\ g.from \in Nat /\ unit \in Nat
          /\ unit >= g.from
      <4>1. unit \in Nat
        BY <3>3 DEF IsFrame, Contents
      <4>2. g.from \in Nat /\ g.from <= unit /\ stream \in DOMAIN Streams
        BY <2>1 DEF GivenInv, CountInv, Types, TypeOK
      <4> QED
        BY <4>1, <4>2
    <3>6. ShownBefore(stream, g.from, AtHand') =
              IF f.show THEN Append(before, id) ELSE before
      <4>1. PICK after : after = AtHand'
        OBVIOUS
      <4>2. \/ after = <<unit, k + 1>>
            \/ after = <<unit + 1, 1>> /\ k = Len(Streams[stream][unit].frames)
        BY <3>3, <4>1
      <4>3. ShownBefore(stream, g.from, after) =
                IF f.show THEN Append(before, id) ELSE before
        <5> HIDE DEF before, id, f
        <5>1. IsFrame(stream, <<unit, k>>)
          BY <3>3
        <5>2. ASSUME NEW from, unit >= from
              PROVE  ShownBefore(stream, from, after) =
                         IF FrameAt(stream, <<unit, k>>).show
                         THEN Append(ShownBefore(stream, from, <<unit, k>>),
                                     <<unit, k>>)
                         ELSE ShownBefore(stream, from, <<unit, k>>)
          BY <3>5, <4>2, <5>1, <5>2, ShownNext, SMTT(60)
        <5> QED
          BY <3>5, <5>2, Zenon DEF before, id, f
      <4> QED
        BY <4>1, <4>3
    <3>7. InOrder(Given, before)
      BY <3>1, <3>3 DEF GivenInv
    <3>8. Entry(outcome).frame = id /\ Entry(outcome).content = id
      BY <3>1, <3>4 DEF Entry
    <3>9. Given' = IF f.show THEN Append(Given, Entry(outcome)) ELSE Given
      BY <2>2, <3>1, <3>4
    <3>10. Given \in Seq(Displayed) /\ Entry(outcome) \in Displayed
      <4>1. g.out \in Seq(Displayed) /\ fbm.display \in Seq(Displayed)
        BY DEF GivenInv, CountInv, Types, Frees
      <4>2. Entry(outcome) \in Displayed
        BY <1>2, GivenPicture
      <4> QED
        BY <4>1, <4>2 DEF Given
    <3>11. before \in Seq(Contents) /\ id \in Contents
      <4>1. before \in Seq(Contents)
        BY <3>3, <3>5, ShownOfAll
      <4> QED
        BY <3>3, <4>1 DEF IsFrame
    <3> HIDE DEF before, id, f
    <3>12. ASSUME NEW given \in Seq(Displayed), NEW e \in Displayed,
                  InOrder(given, before), e.frame = id, e.content = id
           PROVE  InOrder(Append(given, e), Append(before, id))
      BY <3>11, <3>12 DEF InOrder
    <3>13. InOrder(Given', IF f.show THEN Append(before, id) ELSE before)
      BY <3>7, <3>8, <3>9, <3>10, <3>12
    <3>14. InOrder(Given', ShownBefore(stream, g.from, AtHand'))
      BY <3>6, <3>13
    <3>15. nDecStep' # "result"
      BY <3>2 DEF FrameDone
    <3> QED
      BY <2>1, <2>2, <3>1, <3>14, <3>15
  <2>4. g'.hurt \in BOOLEAN
    BY <2>2 DEF GivenInv
  <2> QED
    BY <2>1, <2>2, <2>3, <2>4 DEF GivenInv, ShowsAsCoded
<1> QED
  BY <1>1, <1>2

\* The other steps of the decoder and of the player.
LEMMA AfterBusErrorGiven ==
    ASSUME CountInv, StepInv, GivenInv, AfterBusError
    PROVE  GivenInv'
<1>1. /\ nDecStep = "result" /\ nDecStep' \in {"header", "data"}
      /\ nDecStep' = "header" => unit' = unit
      /\ UNCHANGED <<stream, next, h, fbm, g>>
  BY DEF AfterBusError, FrameDone
<1>2. g.hurt
  BY <1>1 DEF GivenInv
<1> QED
  BY <1>1, <1>2 DEF GivenInv

LEMMA PlayerGiven ==
    ASSUME CountInv, GivenInv, NoFrameBuffer \/ TakePicture \/ ReturnPicture
    PROVE  GivenInv'
<1>1. UNCHANGED <<stream, next, unit, nFrameNums, nDecStep, h>>
  BY DEF NoFrameBuffer, TakePicture, ReturnPicture, decVars, coreVars
<1>2. /\ Given' = Given /\ g'.out \in Seq(Displayed)
      /\ g'.from = g.from /\ g'.hurt = g.hurt /\ g'.clean = g.clean
  <2>1. CASE NoFrameBuffer \/ ReturnPicture
    <3>1. g' = g /\ fbm'.display = fbm.display
      <4>1. fbm \in Frees
        BY DEF CountInv, Types
      <4> QED
        BY <2>1, <4>1 DEF NoFrameBuffer, ReturnPicture, Frees
    <3> QED
      BY <3>1 DEF Given, GivenInv
  <2>2. CASE TakePicture
    BY <2>2, GivenTaken DEF CountInv
  <2> QED
    BY <2>1, <2>2
<1>3. Id' = Id /\ AtHand' = AtHand
  BY <1>1 DEF Id, AtHand
<1> QED
  BY <1>1, <1>2, <1>3 DEF GivenInv, ShowsAsCoded, FrameAt

\* A seek starts anew with a key frame.
LEMMA SeekGiven ==
    ASSUME CountInv, GivenInv, Seek
    PROVE  GivenInv'
<1>1. PICK to \in SeekPoints(stream) :
         /\ next' = to
         /\ g' = [g EXCEPT !.from = to, !.hurt = FALSE, !.out = <<>>]
  BY DEF Seek
<1>2. /\ nDecStep' = "data" /\ stream' = stream
      /\ fbm' = [fbm EXCEPT !.free = @ + Len(fbm.display), !.display = <<>>]
  BY DEF Seek
<1>3. /\ g'.from = to /\ g'.hurt = FALSE /\ g'.out = <<>>
      /\ fbm'.display = <<>>
  BY <1>1, <1>2 DEF CountInv, Types, Frees
<1>4. /\ Streams[stream][to].frames[1].kind = "key"
      /\ to \in DOMAIN Streams[stream] /\ stream \in DOMAIN Streams
  BY DEF SeekPoints, CountInv, Types, TypeOK
<1>5. to \in 1 .. to /\ to \in 1 .. Len(Streams[stream]) + 1
  <2>1. Len(Streams[stream]) \in Nat
        /\ DOMAIN Streams[stream] = 1 .. Len(Streams[stream])
    BY <1>4, NamesUpToIs
  <2> QED
    BY <1>4, <2>1
<1>6. AtHand' = <<to, 1>> /\ Given' = <<>>
  BY <1>1, <1>2, <1>3 DEF AtHand, Given
<1>7. ShownBefore(stream, to, <<to, 1>>) = <<>>
  BY <1>4, <1>5, ShownFirst
<1>8. InOrder(Given, ShownBefore(stream, g.from, AtHand))'
  <2>1. InOrder(<<>>, <<>>)
    BY DEF InOrder
  <2> QED
    BY <1>2, <1>3, <1>6, <1>7, <2>1
<1>9. g'.out \in Seq(Displayed)
  BY <1>3
<1> QED
  BY <1>1, <1>2, <1>3, <1>4, <1>5, <1>6, <1>8, <1>9 DEF GivenInv, ShowsAsCoded

\* The player is given what was shown, in order.
LEMMA GivenAsCoded ==
    ASSUME CountInv, StepInv, GivenInv
    PROVE  OutputAsCoded
<1> SUFFICES ASSUME ~g.hurt
             PROVE  LET given == Given
                        shown == ShownFrames(stream, g.from)
                    IN  /\ Len(given) <= Len(shown)
                        /\ \A k \in DOMAIN given :
                              /\ given[k].frame = shown[k]
                              /\ given[k].content = shown[k]
  BY DEF OutputAsCoded, Given
<1>1. stream \in DOMAIN Streams /\ next \in 1 .. Len(Streams[stream]) + 1
  BY DEF CountInv, Types, TypeOK
<1>2. IsFrame(stream, AtHand) \/ AtHand = <<Len(Streams[stream]) + 1, 1>>
  <2>1. CASE nDecStep = "data"
    <3>1. Len(Streams[stream]) \in Nat
          /\ DOMAIN Streams[stream] = 1 .. Len(Streams[stream])
      BY <1>1, NamesUpToIs
    <3>2. CASE next = Len(Streams[stream]) + 1
      BY <2>1, <3>2 DEF AtHand
    <3>3. CASE next # Len(Streams[stream]) + 1
      <4>1. next \in DOMAIN Streams[stream]
        BY <1>1, <3>1, <3>3
      <4>2. 1 \in 1 .. Len(Streams[stream][next].frames)
            /\ IsFrame(stream, <<next, 1>>)
        <5>1. Len(Streams[stream][next].frames) \in {1, 2}
          BY <1>1, <4>1, UnitNamesIs
        <5>2. 1 \in 1 .. Len(Streams[stream][next].frames)
          BY <5>1
        <5> QED
          BY <1>1, <4>1, <5>2, UnitNamesIs
      <4> QED
        BY <2>1, <4>2 DEF AtHand
    <3> QED
      BY <3>2, <3>3
  <2>2. CASE nDecStep # "data"
    <3>1. nDecStep \in {"header", "frame"}
      BY <2>2 DEF GivenInv, CountInv, Types, TypeOK
    <3> QED
      BY <2>2, <3>1, FrameIs DEF AtHand, CountInv
  <2> QED
    BY <2>1, <2>2
<1> DEFINE before == ShownBefore(stream, g.from, AtHand)
           all == ShownFrames(stream, g.from)
<1>3. /\ before \in Seq(Contents) /\ Len(before) <= Len(all)
      /\ \A k \in 1 .. Len(before) : all[k] = before[k]
  BY <1>1, <1>2, ShownOfAll
<1>4. InOrder(Given, before)
  BY DEF GivenInv
<1>5. Given \in Seq(Displayed)
  <2>1. g.out \in Seq(Displayed) /\ fbm.display \in Seq(Displayed)
    BY DEF GivenInv, CountInv, Types, Frees
  <2> QED
    BY <2>1 DEF Given
<1> HIDE DEF before, all
<1>6. DOMAIN Given = 1 .. Len(Given)
  BY <1>5
<1>7. /\ Len(Given) <= Len(all)
      /\ \A k \in DOMAIN Given : /\ Given[k].frame = all[k]
                                 /\ Given[k].content = all[k]
  BY <1>3, <1>4, <1>6 DEF InOrder
<1> QED
  BY <1>7 DEF all

-----------------------------------------------------------------------------
(* The time stamps. *)

\* By how much frames have overtaken the unit u, at most.
Ahead(n) == Duration * n
Extra(u) == ExtraFrames(stream, g.from, u)

At(u) == Streams[stream][u].pts

\* Before the unit u is decoded, the frame decoded last is one of the unit
\* before it, or there is none.
StampedBefore(u) ==
    IF u = g.from THEN pts.pre = 0
    ELSE pts.pre <= At(u - 1) + Ahead(1 + Extra(u - 1))

\* After some frames of the unit u.
StampedIn(u, done) ==
    /\ pts.cur = pts.pre /\ At(u) <= pts.pre
    /\ pts.pre <= At(u) + Ahead(done + Extra(u - 1))

Done == Len(Streams[stream][unit].frames) - nFrameNums

Rises(given) == \A k \in 2 .. Len(given) : given[k - 1].pts < given[k].pts

\* A picture was given the time stamp of its unit or a later one, but not much.
InTime(e) ==
    /\ e.frame[1] \in g.from .. next - 1 /\ e.pts <= pts.pre
    /\ At(e.frame[1]) <= e.pts
    /\ e.pts <= At(e.frame[1]) + Ahead(1 + Extra(e.frame[1]))

StampInv ==
    /\ nDecStep = "data" => StampedBefore(next)
    /\ nDecStep # "data" =>
          IF Done = 0 THEN StampedBefore(unit) /\ pts.cur = At(unit)
          ELSE StampedIn(unit, Done)
    /\ Rises(Given)
    /\ \A k \in DOMAIN Given : InTime(Given[k])

\* One frame more.
LEMMA AheadMore ==
    ASSUME NEW n \in Nat
    PROVE  Ahead(n) \in Nat /\ Ahead(n + 1) = Ahead(n) + Duration
<1>1. Duration \in Nat
  BY Vp9Assumption
<1>2. \A d \in Nat : d * n \in Nat /\ d * (n + 1) = d * n + d
  OBVIOUS
<1> QED
  BY <1>1, <1>2 DEF Ahead

\* Frames on top of one per unit, unit by unit.
LEMMA ExtraIs ==
    ASSUME NEW st \in DOMAIN Streams, NEW from \in Nat
    PROVE  /\ ExtraFrames(st, from, from - 1) = 0
           /\ \A u \in DOMAIN Streams[st] :
                 from <= u =>
                     /\ ExtraFrames(st, from, u - 1) \in Nat
                     /\ ExtraFrames(st, from, u) =
                            ExtraFrames(st, from, u - 1)
                            + (Len(Streams[st][u].frames) - 1)
<1> DEFINE Two(w) == {u \in from .. w : Len(Streams[st][u].frames) = 2}
<1>1. \A w \in Int : IsFiniteSet(Two(w)) /\ Cardinality(Two(w)) \in Nat
  <2> SUFFICES ASSUME NEW w \in Int
               PROVE  IsFiniteSet(Two(w)) /\ Cardinality(Two(w)) \in Nat
    OBVIOUS
  <2>1. IsFiniteSet(from .. w)
    BY FS_Interval
  <2>2. IsFiniteSet(Two(w))
    BY <2>1, FS_Subset
  <2> QED
    BY <2>2, FS_CardinalityType
<1>2. ExtraFrames(st, from, from - 1) = 0
  <2>1. Two(from - 1) = {}
    OBVIOUS
  <2>2. Cardinality(Two(from - 1)) = 0
    BY <2>1, FS_EmptySet
  <2> QED
    BY <2>2 DEF ExtraFrames
<1>3. ASSUME NEW u \in DOMAIN Streams[st], from <= u
      PROVE  /\ ExtraFrames(st, from, u - 1) \in Nat
             /\ ExtraFrames(st, from, u) =
                    ExtraFrames(st, from, u - 1)
                    + (Len(Streams[st][u].frames) - 1)
  <2>1. u \in Nat /\ u - 1 \in Int
    BY NamesUpToIs
  <2>2. Len(Streams[st][u].frames) \in {1, 2}
    BY UnitNamesIs
  <2>3. Two(u) = IF Len(Streams[st][u].frames) = 2 THEN Two(u - 1) \cup {u}
                 ELSE Two(u - 1)
    BY <1>3, <2>1
  <2>4. u \notin Two(u - 1)
    BY <2>1
  <2>5. IsFiniteSet(Two(u - 1)) /\ Cardinality(Two(u - 1)) \in Nat
    BY <1>1, <2>1
  <2>6. ExtraFrames(st, from, u - 1) = Cardinality(Two(u - 1))
        /\ ExtraFrames(st, from, u) = Cardinality(Two(u))
    BY DEF ExtraFrames
  <2> HIDE DEF Two
  <2>7. Cardinality(Two(u - 1) \cup {u}) = Cardinality(Two(u - 1)) + 1
    BY <2>4, <2>5, FS_AddElement
  <2>8. CASE Len(Streams[st][u].frames) = 2
    <3>1. Cardinality(Two(u)) = Cardinality(Two(u - 1)) + 1
      BY <2>3, <2>7, <2>8
    <3> QED
      BY <2>5, <2>6, <2>8, <3>1
  <2>9. CASE Len(Streams[st][u].frames) = 1
    <3>1. Cardinality(Two(u)) = Cardinality(Two(u - 1))
      BY <2>3, <2>9
    <3> QED
      BY <2>5, <2>6, <2>9, <3>1
  <2> QED
    BY <2>2, <2>8, <2>9
<1> QED
  BY <1>2, <1>3

\* The unit at hand, for what is said of its time stamps.
LEMMA UnitIs ==
    ASSUME CountInv, GivenInv, NEW u \in DOMAIN Streams[stream], g.from <= u
    PROVE  /\ u \in Nat /\ g.from \in Nat
           /\ At(u) \in Nat /\ Extra(u - 1) \in Nat /\ Extra(u) \in Nat
           /\ Len(Streams[stream][u].frames) \in {1, 2}
           /\ Extra(u) = Extra(u - 1) + (Len(Streams[stream][u].frames) - 1)
           /\ u = g.from => Extra(u - 1) = 0
<1>1. stream \in DOMAIN Streams /\ g.from \in Nat
  <2>1. stream \in DOMAIN Streams /\ g.from \in 1 .. next
        /\ next \in 1 .. Len(Streams[stream]) + 1
    BY DEF CountInv, Types, TypeOK, GivenInv
  <2> QED
    BY <2>1
<1>2. u \in Nat /\ Len(Streams[stream][u].frames) \in {1, 2}
  BY <1>1, NamesUpToIs, UnitNamesIs
<1>3. At(u) \in Nat
  <2>1. Streams[stream] \in Seq(Units)
    BY <1>1, StreamAssumption
  <2>2. Streams[stream][u] \in Units
    BY <2>1
  <2> QED
    BY <2>2 DEF Units, At
<1>4. /\ ExtraFrames(stream, g.from, g.from - 1) = 0
      /\ ExtraFrames(stream, g.from, u - 1) \in Nat
      /\ ExtraFrames(stream, g.from, u) =
             ExtraFrames(stream, g.from, u - 1)
             + (Len(Streams[stream][u].frames) - 1)
  BY <1>1, ExtraIs
<1>5. Extra(u) \in Nat
  <2> DEFINE m == Len(Streams[stream][u].frames)
  <2>1. m \in {1, 2} /\ Extra(u) = ExtraFrames(stream, g.from, u - 1) + (m - 1)
    BY <1>2, <1>4 DEF Extra
  <2> HIDE DEF m
  <2> QED
    BY <1>4, <2>1
<1> QED
  BY <1>1, <1>2, <1>3, <1>4, <1>5 DEF Extra

\* A unit that is through is the one before the next.
LEMMA UnitStamped ==
    ASSUME CountInv, GivenInv, NEW u \in DOMAIN Streams[stream], g.from <= u
    PROVE  /\ Ahead(Len(Streams[stream][u].frames) + Extra(u - 1)) =
                  Ahead(1 + Extra(u))
           /\ u + 1 # g.from /\ (u + 1) - 1 = u
<1> DEFINE m == Len(Streams[stream][u].frames)
           a == Extra(u)
           b == Extra(u - 1)
<1>1. /\ u \in Nat /\ g.from \in Nat /\ b \in Nat /\ m \in {1, 2}
      /\ a = b + (m - 1)
  BY UnitIs
<1> HIDE DEF m, a, b
<1>2. m + b = 1 + a
  BY <1>1
<1>3. u + 1 # g.from /\ (u + 1) - 1 = u
  BY <1>1
<1> QED
  BY <1>2, <1>3 DEF m, a, b

\* What the next picture is stamped with.
LEMMA StampIs ==
    ASSUME CountInv, GivenInv, StampInv, StampsSpaced, nDecStep = "frame"
    PROVE  /\ Stamp \in Nat /\ pts.pre \in Nat /\ pts.pre < Stamp
           /\ At(unit) <= Stamp /\ Done \in Nat
           /\ Done + 1 \in 1 .. Len(Streams[stream][unit].frames)
           /\ Stamp <= At(unit) + Ahead((Done + 1) + Extra(unit - 1))
<1> DEFINE m == Len(Streams[stream][unit].frames)
           b == Extra(unit - 1)
           n == Done + b
<1>1. /\ unit \in DOMAIN Streams[stream] /\ g.from <= unit
      /\ nFrameNums \in 0 .. m /\ nFrameNums # 0
      /\ stream \in DOMAIN Streams
      /\ pts.cur \in Nat /\ pts.pre \in Nat
  BY DEF CountInv, Types, TypeOK, UnitAtHand, GivenInv
<1>2. /\ unit \in Nat /\ g.from \in Nat /\ At(unit) \in Nat /\ b \in Nat
      /\ m \in {1, 2}
      /\ unit = g.from => b = 0
  BY <1>1, UnitIs
<1>3. Done = m - nFrameNums
  BY DEF Done
<1>4. IF Done = 0 THEN StampedBefore(unit) /\ pts.cur = At(unit)
      ELSE StampedIn(unit, Done)
  BY DEF StampInv
<1>5. Duration \in Nat /\ Duration # 0
  BY Vp9Assumption DEF StampsSpaced
<1> HIDE DEF m, b
<1>6. Done \in Nat /\ Done + 1 \in 1 .. m
  <2>1. nFrameNums \in 1 .. m /\ m \in {1, 2}
    BY <1>1, <1>2
  <2>2. m - nFrameNums \in Nat /\ (m - nFrameNums) + 1 \in 1 .. m
    BY <2>1
  <2> QED
    BY <1>3, <2>2
<1>7. n \in Nat /\ n + 1 = (Done + 1) + b
  BY <1>2, <1>6
<1>8. Ahead(n) \in Nat /\ Ahead(n + 1) = Ahead(n) + Duration
  BY <1>7, AheadMore
<1>9. /\ \/ Stamp = pts.cur /\ pts.cur > pts.pre
         \/ Stamp = pts.pre + Duration
      /\ pts.cur > pts.pre /\ pts.cur > 0 => Stamp = pts.cur
  BY <1>1 DEF Stamp
<1>10. Stamp \in Nat /\ pts.pre < Stamp
  BY <1>1, <1>5, <1>9
<1>11. CASE Done = 0
  <2>1. pts.cur = At(unit) /\ StampedBefore(unit)
    BY <1>4, <1>11
  <2>2. n + 1 = 1 + b
    BY <1>2, <1>11
  <2>3. At(unit) <= Stamp
    BY <1>1, <1>2, <1>9, <1>10, <2>1
  <2>4. pts.pre + Duration <= At(unit) + Ahead(n + 1)
    <3>1. CASE unit = g.from
      <4>1. pts.pre = 0
        BY <2>1, <3>1 DEF StampedBefore
      <4> HIDE DEF n
      <4> QED
        BY <1>2, <1>5, <1>8, <4>1
    <3>2. CASE unit # g.from
      <4>1. /\ unit - 1 \in DOMAIN Streams[stream] /\ g.from <= unit - 1
            /\ unit \in 2 .. Len(Streams[stream])
        <5>1. /\ Len(Streams[stream]) \in Nat
              /\ DOMAIN Streams[stream] = 1 .. Len(Streams[stream])
          BY <1>1, NamesUpToIs
        <5>2. g.from \in 1 .. next
          BY DEF GivenInv
        <5> QED
          BY <1>1, <1>2, <3>2, <5>1, <5>2
      <4>2. At(unit - 1) \in Nat
        BY <4>1, UnitIs
      <4>3. At(unit) >= At(unit - 1) + Duration
        BY <1>1, <4>1 DEF StampsSpaced, At
      <4>4. pts.pre <= At(unit - 1) + Ahead(n + 1)
        BY <2>1, <2>2, <3>2 DEF StampedBefore, b
      <4>5. Ahead(n + 1) \in Nat
        BY <1>5, <1>8
      <4> HIDE DEF n
      <4> QED
        BY <1>1, <1>2, <1>5, <4>2, <4>3, <4>4, <4>5
    <3> QED
      BY <3>1, <3>2
  <2>5. Stamp <= At(unit) + Ahead(n + 1)
    <3> HIDE DEF n
    <3> QED
      BY <1>1, <1>2, <1>5, <1>8, <1>9, <2>1, <2>4
  <2> QED
    BY <1>1, <1>6, <1>7, <1>10, <2>3, <2>5 DEF m, b
<1>12. CASE Done # 0
  <2>1. /\ pts.cur = pts.pre /\ At(unit) <= pts.pre
        /\ pts.pre <= At(unit) + Ahead(n)
    BY <1>4, <1>12 DEF StampedIn, b
  <2>2. Stamp = pts.pre + Duration
    BY <1>1, <1>9, <2>1
  <2> HIDE DEF n
  <2>3. At(unit) <= Stamp /\ Stamp <= At(unit) + Ahead(n + 1)
    BY <1>1, <1>2, <1>5, <1>8, <2>1, <2>2
  <2> QED
    BY <1>1, <1>6, <1>7, <1>10, <2>3 DEF m, b
<1> QED
  BY <1>11, <1>12

\* What was given stays in time as time goes on.
LEMMA InTimeStays ==
    ASSUME CountInv, GivenInv, next \in Nat, next' \in Nat, next <= next',
           pts.pre \in Nat, pts'.pre \in Nat, pts.pre <= pts'.pre,
           stream' = stream, g'.from = g.from,
           NEW e \in Displayed, InTime(e)
    PROVE  InTime(e)'
<1>1. e.pts \in Nat /\ e.frame[1] \in Nat
  BY DEF Displayed, Contents
<1>2. g.from \in Nat
  BY DEF GivenInv
<1>3. \A u : At(u)' = At(u) /\ Extra(u)' = Extra(u)
  BY DEF At, Extra
<1>4. \A u : (Ahead(1 + Extra(u)))' = Ahead(1 + Extra(u))
  BY <1>3 DEF Ahead
<1>5. e.frame[1] \in g.from .. next' - 1 /\ e.pts <= pts'.pre
  BY <1>1, <1>2 DEF InTime
<1> QED
  BY <1>3, <1>4, <1>5 DEF InTime

\* All that was given stays in time, and what is added is stamped later.
LEMMA GivenInTime ==
    ASSUME CountInv, GivenInv, StampInv, next' \in Nat, next <= next',
           pts'.pre \in Nat, pts.pre <= pts'.pre,
           stream' = stream, g'.from = g.from, NEW e,
           \/ Given' = Given
           \/ /\ Given' = Append(Given, e) /\ e \in Displayed
              /\ pts.pre < e.pts /\ InTime(e)'
    PROVE  (Rises(Given) /\ \A k \in DOMAIN Given : InTime(Given[k]))'
<1> PICK given, after : given = Given /\ after = Given'
  OBVIOUS
<1>1. next \in Nat /\ pts.pre \in Nat
  <2>1. stream \in DOMAIN Streams /\ next \in 1 .. Len(Streams[stream]) + 1
        /\ pts.pre \in Nat
    BY DEF CountInv, Types, TypeOK
  <2> QED
    BY <2>1
<1>2. given \in Seq(Displayed)
  <2>1. g.out \in Seq(Displayed) /\ fbm.display \in Seq(Displayed)
    BY DEF GivenInv, CountInv, Types, Frees
  <2> QED
    BY <2>1 DEF Given
<1>3. Rises(given) /\ \A k \in DOMAIN given : InTime(given[k])
  BY DEF StampInv
<1>4. ASSUME NEW k \in DOMAIN given PROVE InTime(given[k])'
  <2>1. PICK d : d = given[k]
    OBVIOUS
  <2>2. d \in Displayed /\ InTime(d)
    BY <1>2, <1>3, <2>1
  <2>3. InTime(d)'
    BY <1>1, <2>2, InTimeStays
  <2> QED
    BY <2>1, <2>3
<1>5. Rises(after) /\ \A k \in DOMAIN after : InTime(after[k])'
  <2>1. CASE after = given
    BY <1>3, <1>4, <2>1
  <2>2. CASE /\ after = Append(given, e) /\ e \in Displayed
             /\ pts.pre < e.pts /\ InTime(e)'
    <3>1. /\ Len(given) \in Nat /\ Len(after) = Len(given) + 1
          /\ DOMAIN given = 1 .. Len(given) /\ DOMAIN after = 1 .. Len(after)
          /\ \A k \in 1 .. Len(given) : after[k] = given[k]
          /\ after[Len(given) + 1] = e
      BY <1>2, <2>2
    <3>2. ASSUME NEW k \in 1 .. Len(given)
          PROVE  given[k].pts \in Nat /\ given[k].pts < e.pts
      <4>1. given[k] \in Displayed /\ given[k].pts <= pts.pre
        BY <1>2, <1>3, <3>1 DEF InTime
      <4>2. given[k].pts \in Nat /\ e.pts \in Nat
        BY <2>2, <4>1 DEF Displayed
      <4> QED
        BY <1>1, <2>2, <4>1, <4>2
    <3>3. Rises(after)
      <4> SUFFICES ASSUME NEW k \in 2 .. Len(after)
                   PROVE  after[k - 1].pts < after[k].pts
        BY DEF Rises
      <4>1. CASE k <= Len(given)
        <5>1. /\ k \in 2 .. Len(given) /\ k \in 1 .. Len(given)
              /\ k - 1 \in 1 .. Len(given)
          BY <3>1, <4>1
        <5>2. given[k - 1].pts < given[k].pts
          BY <1>3, <5>1 DEF Rises
        <5> QED
          BY <3>1, <5>1, <5>2
      <4>2. CASE ~ (k <= Len(given))
        <5>1. k = Len(given) + 1 /\ k - 1 \in 1 .. Len(given)
          BY <3>1, <4>2
        <5> QED
          BY <3>1, <3>2, <5>1
      <4> QED
        BY <4>1, <4>2
    <3>4. ASSUME NEW k \in DOMAIN after PROVE InTime(after[k])'
      <4>1. CASE k \in 1 .. Len(given)
        <5>1. after[k] = given[k] /\ k \in DOMAIN given
          BY <3>1, <4>1
        <5> QED
          BY <1>4, <5>1
      <4>2. CASE k = Len(given) + 1
        <5>1. after[k] = e
          BY <3>1, <4>2
        <5> QED
          BY <2>2, <5>1
      <4> QED
        BY <3>1, <4>1, <4>2
    <3> QED
      BY <3>3, <3>4
  <2> QED
    BY <2>1, <2>2
<1> QED
  BY <1>5

\* A step that moves neither the time stamps nor the decoder.
LEMMA StampsAlone ==
    ASSUME CountInv, GivenInv, StampInv,
           UNCHANGED <<stream, next, unit, nFrameNums, pts>>,
           nDecStep' = "data" <=> nDecStep = "data",
           Given' = Given, g'.from = g.from
    PROVE  StampInv'
<1>1. (Rises(Given) /\ \A k \in DOMAIN Given : InTime(Given[k]))'
  <2>1. pts.pre \in Nat /\ next \in Nat
    <3>1. stream \in DOMAIN Streams /\ next \in 1 .. Len(Streams[stream]) + 1
          /\ pts.pre \in Nat
      BY DEF CountInv, Types, TypeOK
    <3> QED
      BY <3>1
  <2> QED
    BY <2>1, GivenInTime
<1>2. Done' = Done
  BY DEF Done
<1>3. \A u : /\ At(u)' = At(u) /\ StampedBefore(u)' = StampedBefore(u)
             /\ \A n : StampedIn(u, n)' = StampedIn(u, n)
  BY DEF At, StampedBefore, StampedIn, Extra, Ahead
<1> QED
  BY <1>1, <1>2, <1>3 DEF StampInv

\* A new unit brings its time stamp.
LEMMA PrepareDataStamps ==
    ASSUME CountInv, GivenInv, StampInv, PrepareData
    PROVE  StampInv'
<1>1. /\ stream \in DOMAIN Streams /\ next \in 1 .. Len(Streams[stream]) + 1
      /\ Len(Streams[stream]) \in Nat /\ pts \in [cur : Nat, pre : Nat]
  <2>1. /\ stream \in DOMAIN Streams /\ pts \in [cur : Nat, pre : Nat]
        /\ next \in 1 .. Len(Streams[stream]) + 1
    BY DEF CountInv, Types, TypeOK
  <2> QED
    BY <2>1, NamesUpToIs
<1>2. /\ nDecStep = "data" /\ unit' = next /\ next' = next + 1
      /\ nDecStep' = "header" /\ UNCHANGED <<stream, g, fbm>>
      /\ nFrameNums' = Len(Streams[stream][next].frames)
      /\ next \in DOMAIN Streams[stream] /\ next \in Nat
      /\ pts' = [pts EXCEPT !.cur = Streams[stream][next].pts]
  <2>1. next <= Len(Streams[stream])
    BY DEF PrepareData
  <2>2. DOMAIN Streams[stream] = 1 .. Len(Streams[stream])
    BY <1>1, NamesUpToIs
  <2>3. next \in DOMAIN Streams[stream] /\ next \in Nat
    BY <1>1, <2>1, <2>2
  <2> QED
    BY <2>3 DEF PrepareData
<1>3. pts'.cur = At(next) /\ pts'.pre = pts.pre /\ pts.pre \in Nat
  BY <1>1, <1>2 DEF At
<1>4. Given' = Given
  BY <1>2 DEF Given
<1>5. (Rises(Given) /\ \A k \in DOMAIN Given : InTime(Given[k]))'
  <2>1. next' \in Nat /\ next <= next'
    BY <1>2
  <2> QED
    BY <1>2, <1>3, <1>4, <2>1, GivenInTime
<1>6. Done' = 0
  <2> DEFINE m == Len(Streams[stream][next].frames)
  <2>1. m \in {1, 2}
    BY <1>1, <1>2, UnitNamesIs
  <2>2. Done' = m - m
    BY <1>2 DEF Done
  <2> HIDE DEF m
  <2> QED
    BY <2>1, <2>2
<1>7. StampedBefore(next)
  BY <1>2 DEF StampInv
<1>8. \A u : At(u)' = At(u) /\ StampedBefore(u)' = StampedBefore(u)
  BY <1>2, <1>3 DEF At, StampedBefore, Extra, Ahead
<1>9. PICK u : u = next
  OBVIOUS
<1>10. StampedBefore(u)' /\ At(u)' = At(u)
  BY <1>7, <1>8, <1>9
<1>11. StampedBefore(unit)' /\ (pts.cur = At(unit))'
  BY <1>2, <1>3, <1>9, <1>10
<1> QED
  BY <1>2, <1>5, <1>6, <1>11 DEF StampInv

\* A picture is stamped.
LEMMA RunPictureStamps ==
    ASSUME CountInv, StepInv, GivenInv, StampInv, StampsSpaced,
           NEW outcome \in Outcomes, RunPicture(outcome)
    PROVE  StampInv'
<1>1. CASE Lacking
  <2>1. UNCHANGED <<stream, next, unit, nFrameNums, nDecStep, pts, fbm, g>>
    BY <1>1 DEF RunPicture, Lacking, decVars, coreVars
  <2>2. Given' = Given
    BY <2>1 DEF Given
  <2> QED
    BY <2>1, <2>2, StampsAlone
<1>2. CASE ~Lacking
  <2> DEFINE m == Len(Streams[stream][unit].frames)
             b == Extra(unit - 1)
  <2> PICK e, u : e = Entry(outcome) /\ u = unit
    OBVIOUS
  <2>1. /\ nDecStep = "frame" /\ UNCHANGED <<stream, next>>
        /\ pts' = [cur |-> Stamp, pre |-> Stamp]
        /\ nFrameNums' = nFrameNums - 1
        /\ \/ nDecStep' = "data" /\ nFrameNums - 1 = 0
           \/ nDecStep' \in {"header", "result"} /\ unit' = unit
    BY <1>2 DEF RunPicture, Lacking, FrameDone
  <2>2. /\ Stamp \in Nat /\ pts.pre \in Nat /\ pts.pre < Stamp
        /\ At(unit) <= Stamp /\ Done \in Nat
        /\ Done + 1 \in 1 .. m
        /\ Stamp <= At(unit) + Ahead((Done + 1) + b)
    BY <2>1, StampIs
  <2>3. /\ pts'.cur = Stamp /\ pts'.pre = Stamp
    BY <2>1
  <2>4. /\ unit \in DOMAIN Streams[stream] /\ g.from <= unit
        /\ nFrameNums \in 0 .. m /\ next = unit + 1
    BY <2>1 DEF CountInv, UnitAtHand, GivenInv, StepInv
  <2>5. /\ unit \in Nat /\ g.from \in Nat /\ At(unit) \in Nat /\ b \in Nat
        /\ m \in {1, 2} /\ Extra(unit) = b + (m - 1)
    BY <2>4, UnitIs
  <2>6. /\ g'.from = g.from /\ e \in Displayed
        /\ Given' \in {Given, Append(Given, e)}
    BY <1>2, GivenPicture
  <2>7. e.frame[1] = unit /\ e.pts = Stamp
    BY DEF Entry, Id
  <2>8. Stamp <= At(unit) + Ahead(1 + Extra(unit))
    <3> HIDE DEF m, b
    <3>1. CASE Done + 1 = m
      <4>1. (Done + 1) + b = 1 + Extra(unit)
        BY <2>2, <2>5, <3>1
      <4> QED
        BY <2>2, <4>1
    <3>2. CASE Done + 1 # m
      <4> DEFINE n == (Done + 1) + b
      <4>1. n \in Nat /\ n + 1 = 1 + Extra(unit)
        BY <2>2, <2>5, <3>2
      <4>2. Ahead(n) \in Nat /\ Ahead(n + 1) = Ahead(n) + Duration
            /\ Duration \in Nat
        BY <4>1, AheadMore, Vp9Assumption
      <4>3. Stamp <= At(unit) + Ahead(n)
        BY <2>2
      <4> HIDE DEF n
      <4> QED
        BY <2>2, <2>5, <4>1, <4>2, <4>3
    <3> QED
      BY <3>1, <3>2
  <2>9. \A v : At(v)' = At(v) /\ Extra(v)' = Extra(v)
    BY <2>1, <2>6 DEF At, Extra
  <2>10. InTime(e)'
    <3>1. u \in g'.from .. next' - 1
      BY <2>1, <2>4, <2>5, <2>6
    <3>2. At(u)' <= e.pts /\ e.pts <= At(u)' + Ahead(1 + Extra(u)')
      BY <2>2, <2>7, <2>8, <2>9
    <3>3. e.pts <= pts'.pre
      BY <2>2, <2>3, <2>7
    <3>4. e.frame[1] = u
      BY <2>7
    <3> QED
      BY <3>1, <3>2, <3>3, <3>4 DEF InTime, Ahead
  <2>11. (Rises(Given) /\ \A k \in DOMAIN Given : InTime(Given[k]))'
    <3>1. /\ next \in Nat /\ next' = next /\ pts.pre <= pts'.pre
          /\ pts'.pre \in Nat /\ pts.pre < e.pts
      BY <2>1, <2>2, <2>3, <2>4, <2>5, <2>7
    <3>2. next <= next'
      BY <3>1
    <3> QED
      BY <2>1, <2>6, <2>10, <3>1, <3>2, GivenInTime
  <2>12. Done = m - nFrameNums
    BY DEF Done
  <2>13. CASE nDecStep' = "data"
    <3>1. Done + 1 = m
      <4> HIDE DEF m
      <4> QED
        BY <2>1, <2>4, <2>5, <2>12, <2>13
    <3>2. /\ Ahead(m + b) = Ahead(1 + Extra(unit))
          /\ unit + 1 # g.from /\ (unit + 1) - 1 = unit
      BY <2>4, UnitStamped
    <3>3. pts'.pre <= At(u)' + Ahead(1 + Extra(u)')
      BY <2>2, <2>3, <2>8, <2>9
    <3>4. StampedBefore(u + 1)'
      BY <2>6, <3>2, <3>3 DEF StampedBefore, Ahead
    <3>5. next' = u + 1
      BY <2>1, <2>4
    <3>6. StampedBefore(next)'
      BY <3>4, <3>5
    <3> QED
      BY <2>11, <2>13, <3>6 DEF StampInv
  <2>14. CASE nDecStep' # "data"
    <3>1. unit' = u /\ nFrameNums' = nFrameNums - 1
      BY <2>1, <2>14
    <3>2. Done' = Done + 1
      <4>1. Done' = m - nFrameNums'
        BY <2>1, <3>1 DEF Done
      <4>2. nFrameNums \in Int
        BY <2>4, <2>5
      <4> HIDE DEF m
      <4> QED
        BY <2>5, <2>12, <3>1, <4>1, <4>2
    <3>3. Done' # 0
      BY <2>2, <3>2
    <3>4. pts'.pre <= At(u)' + Ahead(Done' + Extra(u - 1)')
      BY <2>2, <2>3, <2>9, <3>2
    <3>5. At(u)' <= pts'.pre /\ pts'.cur = pts'.pre
      BY <2>2, <2>3, <2>9
    <3>6. StampedIn(unit, Done)'
      BY <3>1, <3>4, <3>5 DEF StampedIn, Ahead
    <3> QED
      BY <2>11, <2>14, <3>3, <3>6 DEF StampInv
  <2> QED
    BY <2>13, <2>14
<1> QED
  BY <1>1, <1>2

\* After a bus error the unit goes on.
LEMMA AfterBusErrorStamps ==
    ASSUME CountInv, StepInv, GivenInv, StampInv, AfterBusError
    PROVE  StampInv'
<1>1. /\ nDecStep = "result" /\ UNCHANGED <<stream, next, pts, fbm, g>>
      /\ nFrameNums' = nFrameNums
      /\ \/ nDecStep' = "header" /\ unit' = unit
         \/ nDecStep' = "data" /\ nFrameNums = 0
  BY DEF AfterBusError, FrameDone
<1>2. Given' = Given
  BY <1>1 DEF Given
<1>3. CASE nDecStep' = "header" /\ unit' = unit
  BY <1>1, <1>2, <1>3, StampsAlone
<1>4. CASE nDecStep' = "data" /\ nFrameNums = 0
  <2> PICK u : u = unit
    OBVIOUS
  <2> DEFINE m == Len(Streams[stream][u].frames)
  <2>1. /\ u \in DOMAIN Streams[stream] /\ g.from <= u /\ next = u + 1
        /\ stream \in DOMAIN Streams /\ next \in 1 .. Len(Streams[stream]) + 1
        /\ pts.pre \in Nat
    BY <1>1 DEF CountInv, Types, TypeOK, UnitAtHand, GivenInv, StepInv
  <2>2. m \in {1, 2}
    BY <2>1, UnitNamesIs
  <2>3. Done = m - 0
    BY <1>4 DEF Done
  <2>4. Done = m /\ m # 0
    <3> HIDE DEF m
    <3> QED
      BY <2>2, <2>3
  <2>5. StampedIn(u, m)
    BY <1>1, <2>4 DEF StampInv
  <2>6. /\ Ahead(m + Extra(u - 1)) = Ahead(1 + Extra(u))
        /\ u + 1 # g.from /\ (u + 1) - 1 = u
    BY <2>1, UnitStamped
  <2>7. StampedBefore(next)
    BY <2>1, <2>5, <2>6 DEF StampedIn, StampedBefore
  <2>8. StampedBefore(next)'
    BY <1>1, <2>7 DEF StampedBefore, At, Extra, Ahead
  <2>9. (Rises(Given) /\ \A k \in DOMAIN Given : InTime(Given[k]))'
    <3>1. next' \in Nat /\ next <= next'
      BY <1>1, <2>1
    <3> QED
      BY <1>1, <1>2, <2>1, <3>1, GivenInTime
  <2> QED
    BY <1>4, <2>8, <2>9 DEF StampInv
<1> QED
  BY <1>1, <1>3, <1>4

\* After a seek time stamps start anew.
LEMMA SeekStamps ==
    ASSUME CountInv, GivenInv, StampInv, Seek
    PROVE  StampInv'
<1>1. PICK to \in SeekPoints(stream) :
         /\ next' = to
         /\ g' = [g EXCEPT !.from = to, !.hurt = FALSE, !.out = <<>>]
  BY DEF Seek
<1>2. /\ nDecStep' = "data" /\ pts' = [pts EXCEPT !.pre = 0]
      /\ fbm' = [fbm EXCEPT !.free = @ + Len(fbm.display), !.display = <<>>]
  BY DEF Seek, ResetPts
<1>3. /\ g'.from = to /\ g'.out = <<>> /\ fbm'.display = <<>> /\ pts'.pre = 0
  BY <1>1, <1>2 DEF CountInv, Types, Frees
<1>4. Given' = <<>>
  BY <1>3 DEF Given
<1>5. StampedBefore(next)'
  BY <1>1, <1>3 DEF StampedBefore
<1>6. (Rises(Given) /\ \A k \in DOMAIN Given : InTime(Given[k]))'
  <2>1. Rises(<<>>) /\ DOMAIN <<>> = {}
    BY DEF Rises
  <2> QED
    BY <1>4, <2>1
<1> QED
  BY <1>2, <1>5, <1>6 DEF StampInv

\* What the invariant says of the pictures given.
LEMMA StampsInStep ==
    ASSUME CountInv, GivenInv, StampInv
    PROVE  PtsInStep
<1>1. Given \in Seq(Displayed)
  <2>1. g.out \in Seq(Displayed) /\ fbm.display \in Seq(Displayed)
    BY DEF GivenInv, CountInv, Types, Frees
  <2> QED
    BY <2>1 DEF Given
<1>2. ASSUME NEW k \in DOMAIN Given
      PROVE  LET u == Given[k].frame[1]
                 ahead == Given[k].pts - Streams[stream][u].pts
             IN  /\ ahead >= 0
                 /\ ahead <= Duration * (1 + ExtraFrames(stream, g.from, u))
  <2> PICK e, u : e = Given[k] /\ u = e.frame[1]
    OBVIOUS
  <2>1. e \in Displayed /\ InTime(e)
    BY <1>1 DEF StampInv
  <2>2. u \in DOMAIN Streams[stream] /\ g.from <= u
    <3>1. stream \in DOMAIN Streams /\ next \in 1 .. Len(Streams[stream]) + 1
          /\ g.from \in 1 .. next
      BY DEF CountInv, Types, TypeOK, GivenInv
    <3>2. Len(Streams[stream]) \in Nat
          /\ DOMAIN Streams[stream] = 1 .. Len(Streams[stream])
      BY <3>1, NamesUpToIs
    <3>3. u \in g.from .. next - 1
      BY <2>1 DEF InTime
    <3> QED
      BY <3>1, <3>2, <3>3
  <2>3. At(u) \in Nat /\ Extra(u) \in Nat
    BY <2>2, UnitIs
  <2>4. 1 + Extra(u) \in Nat
    BY <2>3
  <2>5. Ahead(1 + Extra(u)) \in Nat
    BY <2>4, AheadMore
  <2>6. e.pts \in Nat /\ At(u) <= e.pts /\ e.pts <= At(u) + Ahead(1 + Extra(u))
    BY <2>1 DEF InTime, Displayed
  <2>7. e.pts - At(u) >= 0 /\ e.pts - At(u) <= Ahead(1 + Extra(u))
    BY <2>3, <2>5, <2>6
  <2> QED
    BY <2>7 DEF At, Ahead, Extra
<1>3. \A k \in 2 .. Len(Given) : Given[k - 1].pts < Given[k].pts
  BY DEF StampInv, Rises
<1> QED
  BY <1>2, <1>3 DEF PtsInStep, Given

\* At the start nothing is stamped.
LEMMA InitStampInv == Init => StampInv
<1> SUFFICES ASSUME Init PROVE StampInv
  OBVIOUS
<1>1. /\ next = 1 /\ nDecStep = "data" /\ pts.pre = 0
      /\ g.from = 1 /\ g.out = <<>> /\ fbm.display = <<>>
  BY DEF Init, Ghost, NewFbm
<1>2. Given = <<>>
  BY <1>1 DEF Given
<1>3. StampedBefore(next)
  BY <1>1 DEF StampedBefore
<1>4. Rises(Given) /\ \A k \in DOMAIN Given : InTime(Given[k])
  <2>1. Rises(<<>>) /\ DOMAIN <<>> = {}
    BY DEF Rises
  <2> QED
    BY <1>2, <2>1
<1> QED
  BY <1>1, <1>3, <1>4 DEF StampInv

-----------------------------------------------------------------------------
(* What the player is given, whatever happens. *)

\* The invariants hold together.
ShownInv == CountInv /\ StepInv /\ GivenInv

LEMMA StepGivenInv == ShownInv /\ [Next]_vars => GivenInv'
<1> SUFFICES ASSUME CountInv, StepInv, GivenInv, [Next]_vars PROVE GivenInv'
  BY DEF ShownInv
<1>1. CASE UNCHANGED vars
  <2>1. UNCHANGED <<stream, next, unit, nFrameNums, nDecStep, h, fbm, g>>
    BY <1>1 DEF vars, decVars, coreVars
  <2>2. Id' = Id /\ AtHand' = AtHand /\ Given' = Given
    BY <2>1 DEF Id, AtHand, Given
  <2> QED
    BY <2>1, <2>2 DEF GivenInv, ShowsAsCoded, FrameAt
<1> QED
  BY <1>1, PrepareDataGiven, DecodeHeaderGiven, PlayerGiven,
     AfterBusErrorGiven, RunPictureGiven, SeekGiven DEF Next, Decode

LEMMA ShownInvStays == ShownInv /\ [Next]_vars => ShownInv'
  BY StepCountInv, StepStays, StepGivenInv DEF ShownInv

LEMMA StepStampInv ==
    ASSUME StampsSpaced
    PROVE  ShownInv /\ StampInv /\ [Next]_vars => StampInv'
<1> SUFFICES ASSUME CountInv, StepInv, GivenInv, StampInv, [Next]_vars
             PROVE  StampInv'
  BY DEF ShownInv
<1>1. CASE UNCHANGED vars \/ DecodeHeader \/ NoFrameBuffer \/ ReturnPicture
  <2>1. /\ UNCHANGED <<stream, next, unit, nFrameNums, pts>>
        /\ nDecStep' = "data" <=> nDecStep = "data"
        /\ fbm'.display = fbm.display /\ g'.out = g.out /\ g'.from = g.from
    <3>1. CASE UNCHANGED vars
      BY <3>1 DEF vars, decVars
    <3>2. CASE DecodeHeader
      <4>1. /\ UNCHANGED <<stream, next, unit, nFrameNums, pts, fbm>>
            /\ nDecStep = "header" /\ nDecStep' = "frame"
        BY <3>2 DEF DecodeHeader
      <4>2. \E clean, hurt, again :
                g' = [g EXCEPT !.clean = clean, !.hurt = hurt,
                               !.repeated = again]
        BY <3>2 DEF DecodeHeader
      <4>3. g'.out = g.out /\ g'.from = g.from
        BY <4>2 DEF CountInv, Types
      <4> QED
        BY <4>1, <4>3
    <3>3. CASE NoFrameBuffer
      BY <3>3 DEF NoFrameBuffer
    <3>4. CASE ReturnPicture
      <4>1. fbm \in Frees
        BY DEF CountInv, Types
      <4> QED
        BY <3>4, <4>1 DEF ReturnPicture, decVars, Frees
    <3> QED
      BY <1>1, <3>1, <3>2, <3>3, <3>4
  <2>2. Given' = Given
    BY <2>1 DEF Given
  <2> QED
    BY <2>1, <2>2, StampsAlone
<1>2. CASE TakePicture
  <2>1. /\ UNCHANGED <<stream, next, unit, nFrameNums, pts, nDecStep>>
    BY <1>2 DEF TakePicture, decVars, coreVars
  <2>2. Given' = Given /\ g'.from = g.from
    BY <1>2, GivenTaken DEF CountInv
  <2> QED
    BY <2>1, <2>2, StampsAlone
<1> QED
  BY <1>1, <1>2, PrepareDataStamps, RunPictureStamps, AfterBusErrorStamps,
     SeekStamps DEF Next, Decode

\* For any stream the player is given every shown frame, once, in order and as
\* it was coded, from where it started on, as long as every picture comes out:
\* whenever it takes the pictures, gives them back and seeks.
THEOREM GivenStaysAsCoded == Spec => []OutputAsCoded
<1>1. Init => ShownInv
  BY InitCountInv, InitStepInv, InitGivenInv DEF ShownInv
<1>2. ShownInv /\ [Next]_vars => ShownInv'
  BY ShownInvStays
<1>3. ShownInv => OutputAsCoded
  BY GivenAsCoded DEF ShownInv
<1> QED
  BY <1>1, <1>2, <1>3, PTL DEF Spec

\* And its time stamps rise, stay with those of the units and run ahead by no
\* more than the frames that come on top of one per unit, whether pictures come
\* out or not: of any stream whose units are not closer than frames are long.
THEOREM ShownStaysAsCoded == ASSUME StampsSpaced PROVE Spec => []ShownAsCoded
<1>1. Init => ShownInv /\ StampInv
  BY InitCountInv, InitStepInv, InitGivenInv, InitStampInv DEF ShownInv
<1>2. ShownInv /\ StampInv /\ [Next]_vars => (ShownInv /\ StampInv)'
  BY ShownInvStays, StepStampInv
<1>3. ShownInv /\ StampInv => ShownAsCoded
  BY GivenAsCoded, StampsInStep DEF ShownInv, ShownAsCoded
<1> QED
  BY <1>1, <1>2, <1>3, PTL DEF Spec

=============================================================================
