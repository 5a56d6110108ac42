--------------------------- MODULE Vp9BufferQueue ---------------------------
(***************************************************************************)
(* The queue of reference buffers of the VP9 core (vp9hwd_buffer_queue.c)  *)
(* over its ring (vp9hwd_fifo.c).  Nothing here is checked by the code:    *)
(* the ring has as many places as there are buffers at the start, a pop    *)
(* from an empty ring gives whatever the place holds, a push into a full   *)
(* one overwrites.                                                         *)
(***************************************************************************)
EXTENDS Integers, FiniteSets

CONSTANTS
    NumRefs,     \* VP9_REF_LIST_SIZE, the decoder's reference slots: 8
    NumBuffers,  \* num_frame_buffers, the buffers allocated at the start: 10
    MaxBuffers   \* VP9DEC_MAX_PIC_BUFFERS

ASSUME QueueAssumption ==
    /\ NumRefs \in Nat \ {0}
    /\ NumBuffers \in Nat /\ NumBuffers > NumRefs
    /\ MaxBuffers \in Nat /\ NumBuffers <= MaxBuffers

RefSlots == 0 .. NumRefs - 1
Buffers == 0 .. MaxBuffers - 1
Places == 0 .. NumBuffers - 1

REFERENCE_NOT_SET == -1

----------------------------------------------------------------------------
(* The ring. *)

FifoPush(q, i) ==
    [q EXCEPT !.nodes[(q.tail_index + q.num_of_objects) % NumBuffers] = i,
              !.num_of_objects = @ + 1]

\* The object a pop gives, and the ring after it.
FifoHead(q) == q.nodes[q.tail_index]

FifoPop(q) == [q EXCEPT !.tail_index = (@ + 1) % NumBuffers,
                        !.num_of_objects = @ - 1]

FifoPopRevert(q) == [q EXCEPT !.tail_index = (@ + NumBuffers - 1) % NumBuffers,
                              !.num_of_objects = @ + 1]

\* The buffers in the ring, oldest first.
EmptyFifo(q) ==
    [k \in 1 .. q.num_of_objects |->
        q.nodes[(q.tail_index + k - 1) % NumBuffers]]

----------------------------------------------------------------------------
(* The queue. *)

Vp9BufferQueueInitialize ==
    [nodes |-> [i \in Places |-> i], tail_index |-> 0,
     num_of_objects |-> NumBuffers, n_buffers |-> NumBuffers,
     n_references |-> [b \in Buffers |-> 0],
     ref_status |-> [s \in RefSlots |-> REFERENCE_NOT_SET]]

Vp9BufferQueueGetRef(q, s) == q.ref_status[s]

IncreaseRefCount(q, b) == [q EXCEPT !.n_references[b] = @ + 1]

\* Mutant: the buffer is empty as soon as the decoder has given it out.
PushAlways(q, b) == FifoPush([q EXCEPT !.n_references[b] = @ - 1], b)

\* A buffer is empty again when its last reference goes, and only then: a
\* count that falls below zero does not enter the ring a second time.
DecreaseRefCount(q, b) ==
    LET r == [q EXCEPT !.n_references[b] = @ - 1]
    IN  IF r.n_references[b] = 0 THEN FifoPush(r, b) ELSE r

\* One turn of Vp9BufferQueueUpdateRef's loop: a slot that holds the buffer
\* already is left alone.
UpdateSlot(q, s, b) ==
    LET old == q.ref_status[s]
        freed == IF old = REFERENCE_NOT_SET THEN q ELSE DecreaseRefCount(q, old)
        set == [freed EXCEPT !.ref_status[s] = b]
    IN  IF old = b THEN q
        ELSE IF b = REFERENCE_NOT_SET THEN set ELSE IncreaseRefCount(set, b)

\* Vp9BufferQueueUpdateRef, slot after slot; flags is a set of slots.
Vp9BufferQueueUpdateRef(q, flags, b) ==
    LET upTo[n \in 0 .. NumRefs] ==
            IF n = 0 THEN q
            ELSE IF n - 1 \in flags THEN UpdateSlot(upTo[n - 1], n - 1, b)
            ELSE upTo[n - 1]
    IN  upTo[NumRefs]

\* Vp9AllocateFrame: one buffer more, as long as there is room for its count.
Vp9BufferQueueAddBuffer(q) ==
    [FifoPush(q, q.n_buffers) EXCEPT !.n_buffers = @ + 1]

\* Vp9BufferQueueGetBuffer: the buffer given, or -1 if the head of the ring is
\* in use, and the queue after it.  The limit is never looked at: FifoPop never
\* says that the ring is empty.
Vp9BufferQueueGetBuffer(q) ==
    LET i == FifoHead(q)
        popped == FifoPop(q)
    IN  IF q.n_references[i] # 0
        THEN [buffer |-> -1, queue |-> FifoPopRevert(popped)]
        ELSE [buffer |-> i, queue |-> IncreaseRefCount(popped, i)]

\* The buffers of Vp9GetRefFrm: if none is given, the pool grows by one and the
\* ring is asked again.  A pool that has its greatest size overruns the counts,
\* here buffer -1 like a second failure.
Vp9GetRefFrm(q) ==
    LET first == Vp9BufferQueueGetBuffer(q)
    IN  IF first.buffer # -1 THEN first
        ELSE IF q.n_buffers = MaxBuffers THEN first
        ELSE Vp9BufferQueueGetBuffer(Vp9BufferQueueAddBuffer(first.queue))

----------------------------------------------------------------------------
(* What the queue owes its users. *)

\* How many slots refer to b.
SlotCount(q, b) == Cardinality({s \in RefSlots : q.ref_status[s] = b})

=============================================================================
