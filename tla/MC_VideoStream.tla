-------------------------- MODULE MC_VideoStream ---------------------------
(* VideoStream with a ring of a few bytes and a fifo of a few slots. *)
EXTENDS VideoStream
=============================================================================
