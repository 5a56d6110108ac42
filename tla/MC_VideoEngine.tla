-------------------------- MODULE MC_VideoEngine --------------------------
(* An H.264 decoder, an H.265 decoder and a VP9 decoder in one process. *)
EXTENDS VideoEngine

CONSTANTS a, b, c

MCFormat == [d \in Decoders |->
    CASE d = a -> "H264" [] d = b -> "H265" [] d = c -> "VP9"]

\* Enough for the first to make a decoder, decode and reopen, for the second to
\* do one of these, and for the third to come and go.
MCMaxCalls == [d \in Decoders |-> CASE d = a -> 3 [] d = b -> 2 [] d = c -> 1]
===========================================================================
