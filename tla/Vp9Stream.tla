----------------------------- MODULE Vp9Stream ------------------------------
(***************************************************************************)
(* The VP9 streams the decoder is given, and what their encoder had in     *)
(* each of its memories when it coded a frame: reference slots, entropy    *)
(* contexts, segment map and the motion of the frame before.  This is the  *)
(* measure for the decoder's memories, not a model of its code.            *)
(*                                                                         *)
(* A stream is a sequence of units, [pts, frames], one per packet of the   *)
(* container: one frame, or a superframe of a hidden and a shown one.  A   *)
(* frame is named by <<its unit, its place in the unit>>.                  *)
(***************************************************************************)
EXTENDS Integers, Sequences, FiniteSets, Vp9BufferQueue

CONSTANTS
    Streams,      \* a sequence of streams
    NumContexts   \* NUM_FRAME_CONTEXTS

Contexts == 0 .. NumContexts - 1

Frames == [kind : {"key", "inter", "intra", "existing"}, show : BOOLEAN,
           resilient : BOOLEAN, refresh : SUBSET RefSlots,
           refs : Seq(RefSlots), reset : 0 .. 3, save : BOOLEAN,
           context : Contexts, segment : {"off", "keep", "update"},
           features : BOOLEAN, filter : {"off", "keep", "update"},
           index : RefSlots]

Units == [pts : Nat, frames : Seq(Frames)]

\* A stream starts with a key frame, a superframe has two frames, a predicted
\* frame has a reference, and an intra-only frame is hidden: the format has its
\* bit in hidden frames only.
ASSUME StreamAssumption ==
    /\ NumContexts \in Nat \ {0}
    /\ Streams \in Seq(Seq(Units))
    /\ \A st \in DOMAIN Streams :
          /\ \A u \in DOMAIN Streams[st] :
                /\ Len(Streams[st][u].frames) \in {1, 2}
                /\ \A k \in DOMAIN Streams[st][u].frames :
                      LET f == Streams[st][u].frames[k]
                      IN  /\ f.kind = "inter" => f.refs # <<>>
                          /\ f.kind = "intra" => ~f.show
          /\ Streams[st] # <<>> => Streams[st][1].frames[1].kind = "key"

\* Contents of a memory besides a frame's: nothing yet, the defaults of the
\* format, and what no encoder wrote.
Nothing == <<0, 0>>
Default == <<0, 1>>
Broken == <<0, 2>>

FrameAt(st, id) == Streams[st][id[1]].frames[id[2]]

\* The names of a stream's frames in the order they are coded.
FrameNames(st) ==
    LET upTo[u \in 0 .. Len(Streams[st])] ==
            IF u = 0 THEN <<>>
            ELSE upTo[u - 1]
                 \o [k \in DOMAIN Streams[st][u].frames |-> <<u, k>>]
    IN  upTo[Len(Streams[st])]

----------------------------------------------------------------------------
(* The encoder's memories. *)

NewEncoder == [slots |-> [s \in RefSlots |-> Nothing],
               contexts |-> [x \in Contexts |-> Nothing],
               segments |-> Nothing, features |-> Nothing, deltas |-> Nothing,
               last |-> Nothing,
               lastKey |-> FALSE, lastIntra |-> FALSE, lastShown |-> FALSE]

\* Frames that start from the defaults of the format.
Independent(f) == f.kind \in {"key", "intra"} \/ f.resilient

\* The memories when frame f begins.
AtStart(e, f) ==
    [e EXCEPT
        !.contexts =
            IF f.kind = "key" \/ f.resilient
               \/ (f.kind = "intra" /\ f.reset = 3)
            THEN [x \in Contexts |-> Default]
            ELSE IF f.kind = "intra" /\ f.reset = 2
            THEN [@ EXCEPT ![f.context] = Default]
            ELSE @,
        !.segments = IF Independent(f) THEN Default ELSE @,
        !.features = IF Independent(f) THEN Default ELSE @,
        !.deltas = IF Independent(f) THEN Default ELSE @]

ContextOf(f) == IF Independent(f) THEN 0 ELSE f.context

\* What the decoding of f reads: the pictures it refers to, the context its
\* probabilities start from, the motion of the frame before and the segment
\* map, the
\* segments' features and the loop filter's deltas of the frames before.
Reads(e, f, id) ==
    LET b == AtStart(e, f)
    IN  [refs |-> IF f.kind = "inter"
                  THEN [i \in DOMAIN f.refs |-> b.slots[f.refs[i]]] ELSE <<>>,
         probs |-> b.contexts[ContextOf(f)],
         motion |-> IF /\ f.kind = "inter" /\ ~f.resilient
                       /\ e.lastShown /\ ~e.lastKey /\ ~e.lastIntra
                    THEN e.last ELSE Nothing,
         segments |-> IF f.segment = "off" THEN Nothing ELSE b.segments,
         features |-> IF f.segment = "off" THEN Nothing
                      ELSE IF f.features THEN id ELSE b.features,
         deltas |-> IF f.filter = "off" THEN Nothing
                    ELSE IF f.filter = "update" THEN id ELSE b.deltas]

AtEnd(e, f, id) ==
    LET b == AtStart(e, f)
    IN  IF f.kind = "existing" THEN e
        ELSE [slots |-> [s \in RefSlots |->
                            IF f.kind = "key" \/ s \in f.refresh
                            THEN id ELSE b.slots[s]],
              contexts |-> IF f.save /\ ~f.resilient
                           THEN [b.contexts EXCEPT ![ContextOf(f)] = id]
                           ELSE b.contexts,
              segments |-> IF f.segment = "update" THEN id ELSE b.segments,
              features |-> IF f.segment # "off" /\ f.features THEN id
                           ELSE b.features,
              deltas |-> IF f.filter = "update" THEN id ELSE b.deltas,
              last |-> id, lastKey |-> f.kind = "key",
              lastIntra |-> f.kind = "intra", lastShown |-> f.show]

\* For every stream, what each of its frames reads.
CodedReads ==
    [st \in DOMAIN Streams |->
        LET names == FrameNames(st)
            at[n \in 0 .. Len(names)] ==
                IF n = 0 THEN NewEncoder
                ELSE AtEnd(at[n - 1], FrameAt(st, names[n]), names[n])
        IN  [id \in {names[n] : n \in DOMAIN names} \
                        {names[n] : n \in {m \in DOMAIN names :
                            FrameAt(st, names[m]).kind = "existing"}} |->
                Reads(at[(CHOOSE n \in DOMAIN names : names[n] = id) - 1],
                      FrameAt(st, id), id)]]

\* Units a seek goes to: those that begin with a key frame.
SeekPoints(st) == {u \in DOMAIN Streams[st] :
                       Streams[st][u].frames[1].kind = "key"}

\* The frames shown from the unit from on, in order.
ShownFrames(st, from) ==
    LET names == FrameNames(st)
        upTo[n \in 0 .. Len(names)] ==
            IF n = 0 THEN <<>>
            ELSE IF names[n][1] >= from /\ FrameAt(st, names[n]).show
            THEN Append(upTo[n - 1], names[n])
            ELSE upTo[n - 1]
    IN  upTo[Len(names)]

\* Frames of the units from to to that come on top of one per unit.
ExtraFrames(st, from, to) ==
    Cardinality({u \in from .. to : Len(Streams[st][u].frames) = 2})

=============================================================================
