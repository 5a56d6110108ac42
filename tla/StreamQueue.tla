---------------------------- MODULE StreamQueue ----------------------------
(***************************************************************************)
(* What a stream buffer manager promises its two clients: frames come out  *)
(* in the order they went in.  The decoder may hold several, gives the     *)
(* oldest back first and may put back only the newest.                     *)
(***************************************************************************)
EXTENDS Sequences, Integers

CONSTANT Frame

VARIABLES
    waiting,   \* frames the decoder has not taken yet
    taken      \* frames with the decoder

sqVars == <<waiting, taken>>

SQInit == waiting = <<>> /\ taken = <<>>

Put(f) ==
    /\ waiting' = Append(waiting, f)
    /\ UNCHANGED taken

Take ==
    /\ waiting # <<>>
    /\ taken' = Append(taken, Head(waiting))
    /\ waiting' = Tail(waiting)

PutBack ==
    /\ taken # <<>>
    /\ waiting' = <<taken[Len(taken)]>> \o waiting
    /\ taken' = SubSeq(taken, 1, Len(taken) - 1)

Discard ==
    /\ taken # <<>>
    /\ taken' = Tail(taken)
    /\ UNCHANGED waiting

Clear == waiting' = <<>> /\ taken' = <<>>

SQNext ==
    \/ \E f \in Frame : Put(f)
    \/ Take
    \/ PutBack
    \/ Discard
    \/ Clear

SQSpec == SQInit /\ [][SQNext]_sqVars
=============================================================================
