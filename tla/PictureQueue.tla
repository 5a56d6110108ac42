---------------------------- MODULE PictureQueue ----------------------------
(***************************************************************************)
(* What the frame buffer manager promises its two users.                   *)
(*   - The decoder only gets a buffer that nobody uses: no picture that    *)
(*     waits for the display, and none that is being shown, is overwritten.*)
(*   - A decoded picture is published at most once, and the render gets    *)
(*     the published pictures in the order they were published.            *)
(*   - A published picture is not shown only if it is dropped by a flush.  *)
(* The decoder may keep a picture as a reference after publishing it.      *)
(***************************************************************************)
EXTENDS Sequences, Naturals

CONSTANT Frames

VARIABLES
    decoding,     \* buffers the decoder writes or refers to
    published,    \* the ones among them it has given to the display
    waiting,      \* pictures for the display, in order
    showing       \* pictures the render has taken

pqVars == <<decoding, published, waiting, showing>>

InUse == decoding \cup showing \cup {waiting[i] : i \in 1 .. Len(waiting)}

PQInit ==
    /\ decoding = {} /\ published = {}
    /\ waiting = <<>> /\ showing = {}

Acquire(f) ==
    /\ f \in Frames \ InUse
    /\ decoding' = decoding \cup {f}
    /\ UNCHANGED <<published, waiting, showing>>

\* The decoder publishes a picture and keeps it as a reference.
Publish(f) ==
    /\ f \in decoding \ published
    /\ published' = published \cup {f}
    /\ waiting' = Append(waiting, f)
    /\ UNCHANGED <<decoding, showing>>

\* The decoder publishes a picture and is done with it.
PublishLast(f) ==
    /\ f \in decoding \ published
    /\ decoding' = decoding \ {f}
    /\ waiting' = Append(waiting, f)
    /\ UNCHANGED <<published, showing>>

\* The decoder is done with a buffer.
Finish(f) ==
    /\ f \in decoding
    /\ decoding' = decoding \ {f}
    /\ published' = published \ {f}
    /\ UNCHANGED <<waiting, showing>>

Show ==
    /\ waiting # <<>>
    /\ showing' = showing \cup {Head(waiting)}
    /\ waiting' = Tail(waiting)
    /\ UNCHANGED <<decoding, published>>

EndShow(f) ==
    /\ f \in showing
    /\ showing' = showing \ {f}
    /\ UNCHANGED <<decoding, published, waiting>>

\* A flush drops the oldest picture.
Drop ==
    /\ waiting # <<>>
    /\ waiting' = Tail(waiting)
    /\ UNCHANGED <<decoding, published, showing>>

PQNext ==
    \/ \E f \in Frames : \/ Acquire(f) \/ Publish(f) \/ PublishLast(f)
                         \/ Finish(f) \/ EndShow(f)
    \/ Show
    \/ Drop

PQSpec == PQInit /\ [][PQNext]_pqVars
=============================================================================
