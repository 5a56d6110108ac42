----------------------------- MODULE EngineSram -----------------------------
(* The memory of the video engine, a function of the places written so far.  *)
(* The decoders write it through a port: an address, then words, each at the *)
(* place after the one before.  A word is what its bytes or halves mean,     *)
(* never a number made of them.                                              *)
EXTENDS Integers, Sequences

EmptySram == [a \in {} |-> 0]

\* The words from address on.
Write(sram, address, words) ==
    [a \in DOMAIN sram \cup {address + 4 * (n - 1) : n \in DOMAIN words} |->
        IF a >= address /\ a < address + 4 * Len(words)
        THEN words[((a - address) \div 4) + 1] ELSE sram[a]]
=============================================================================
