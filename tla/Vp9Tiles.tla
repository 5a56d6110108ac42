------------------------------ MODULE Vp9Tiles ------------------------------
(***************************************************************************)
(* The tiles of a VP9 picture: how many columns a header may ask for, what *)
(* the video engine is told of each tile (Vp9AsicSetTileInfo), and which   *)
(* tiles of the stream it does not get to see (the end of                  *)
(* Vp9DecodeFrameHeader).  Sizes are in superblocks of 64 by 64 pixels.    *)
(***************************************************************************)
EXTENDS Integers, Sequences

MIN_TILE_WIDTH_SBS == 4
MAX_TILE_WIDTH_SBS == 64

Sbs(pixels) == (pixels + 63) \div 64

\* GetTileNBits: log2 of the fewest columns, and how many more it may be.
GetTileNBits(width) ==
    LET cols == Sbs(width)
        first == CHOOSE n \in 0 .. 16 :
            /\ cols \div 2 ^ n < MIN_TILE_WIDTH_SBS
            /\ \A m \in 0 .. n - 1 : cols \div 2 ^ m >= MIN_TILE_WIDTH_SBS
        most == IF first > 0 THEN first - 1 ELSE 0
        fewest == CHOOSE n \in 0 .. 16 :
            /\ MAX_TILE_WIDTH_SBS * 2 ^ n >= cols
            /\ \A m \in 0 .. n - 1 : MAX_TILE_WIDTH_SBS * 2 ^ m < cols
    IN  [min |-> fewest, delta |-> most - fewest]

\* The parts of size superblocks that n tiles have, in order.
Parts(size, n) ==
    [i \in 1 .. n |-> (i * size) \div n - ((i - 1) * size) \div n]

\* Rows the video engine is told of: not the first one if it has no height,
\* unless the picture is so low that others may have none either.
RowsWritten(heights, sbs) ==
    IF sbs >= 3 /\ heights[1] = 0 THEN Tail(heights) ELSE heights

\* Vp9AsicSetTileInfo: the list in memory, and the two numbers in registers.
TileInfo(width, height, log2_tile_columns, log2_tile_rows) ==
    LET cols == 2 ^ log2_tile_columns
        rows == 2 ^ log2_tile_rows
        widths == Parts(Sbs(width), cols)
        heights == RowsWritten(Parts(Sbs(height), rows), Sbs(height))
    IN  [tiles |-> [k \in 1 .. cols * Len(heights) |->
                       <<widths[((k - 1) % cols) + 1],
                         heights[(k - 1) \div cols + 1]>>],
         NUM_TILE_COLS |-> cols,
         NUM_TILE_ROWS |-> IF Sbs(height) >= 3 /\ rows > Sbs(height)
                           THEN Sbs(height) ELSE rows]

\* The end of Vp9DecodeFrameHeader: tiles of the stream to pass over.
TilesSkipped(height, log2_tile_columns, log2_tile_rows) ==
    IF Sbs(height) >= 3 /\ 2 ^ log2_tile_rows > Sbs(height)
    THEN 2 ^ log2_tile_columns ELSE 0

=============================================================================
