--------------------------- MODULE PictureBuffer ---------------------------
(***************************************************************************)
(* The memory behind the pictures of a frame buffer pool (vdecoder/fbm.c): *)
(* how FbmAllocatePictureBuffer lays the planes of a picture out, what     *)
(* FbmCreateBuffer keeps when an allocation fails half way, and what       *)
(* FbmFreePictureBuffer gives back.  GetBufferSize (videoengine.c) is the  *)
(* second computation of the same sizes, for buffers of the window system. *)
(*                                                                         *)
(* An address is a pair <<block, offset>>; a block is named after the      *)
(* frame and the call that allocated it.                                   *)
(***************************************************************************)
EXTENDS Integers, Sequences, FiniteSets

PLANER_420 == 1
PLANER_422 == 2
PLANER_444 == 3
YV12 == 4
NV21 == 5
NV12 == 6
MB32_420 == 7
MB32_422 == 8
MB32_444 == 9
RGBA == 10
P010_UV == 22

Planar == {PLANER_420, PLANER_422, PLANER_444, YV12, NV21, NV12}
Tiled == {MB32_420, MB32_422, MB32_444}

\* In the code (n + a - 1) & ~(a - 1), a being a power of two.
AlignUp(n, a) == ((n + a - 1) \div a) * a

\* Size of one chroma plane of a planar format, from the size of the luma.
\* NV12 is missing from the test, so that it gets the size of 4:4:4.
ChromaOf(ePixelFormat, nMemSizeY) ==
    IF ePixelFormat \in {PLANER_420, YV12, NV21, P010_UV}
    THEN nMemSizeY \div 4
    ELSE IF ePixelFormat = PLANER_422 THEN nMemSizeY \div 2 ELSE nMemSizeY

TiledChromaOf(ePixelFormat, nLineStride, nHeight64Align) ==
    (nLineStride * nHeight64Align) \div
        (CASE ePixelFormat = MB32_420 -> 4
           [] ePixelFormat = MB32_422 -> 2
           [] OTHER -> 1)

\* Memory of a compressed picture: a header and a body for every 16 x 16
\* pixels, four more lines than the picture has.
AfbcSize(nWidth, nHeight, b10Bit) ==
    ((nWidth + 15) \div 16) * ((nHeight + 19) \div 16)
        * ((IF b10Bit THEN 512 ELSE 384) + 16) + 32 + 1024

Lower2BitStride(nWidth) == AlignUp((nWidth + 3) \div 4, 32)

Lower2BitSize(nWidth, nHeight) ==
    (Lower2BitStride(nWidth) * nHeight * 3) \div 2

(***************************************************************************)
(* One picture.  pic has the fields ePixelFormat, b10Bit, afbc, align;     *)
(* block(k) of frame i is <<i, k>>.  A layout gives the size of each block *)
(* and where the planes begin; absent planes are NoPlane.                  *)
(***************************************************************************)
NoPlane == <<>>

\* Mutant: the height is not padded.
LinePadded(pic, nWidth, nHeight) ==
    <<AlignUp(nWidth, IF pic.align = 0 THEN 16 ELSE pic.align), nHeight>>

\* Line stride and number of lines of the luma: nLineStride and nHeight.
Padded(pic, nWidth, nHeight) ==
    LET a == IF pic.align = 0 THEN 16 ELSE pic.align
    IN  <<AlignUp(nWidth, a), AlignUp(nHeight, a)>>

PlanarLayout(i, pic, nWidth, nHeight) ==
    LET size == Padded(pic, nWidth, nHeight)
        nMemSizeY == size[1] * size[2]
        nMemSizeC == ChromaOf(pic.ePixelFormat, nMemSizeY)
        afbcSize == AfbcSize(nWidth, nHeight, pic.b10Bit)
        yuv == IF pic.afbc THEN afbcSize ELSE nMemSizeY + 2 * nMemSizeC
        lower == IF pic.b10Bit THEN Lower2BitSize(nWidth, nHeight) ELSE 0
    IN  [blocks |-> <<<<<<i, "mem">>, yuv + lower>>, <<<<i, "meta">>, 4096>>>>,
         pData0 |-> <<<<i, "mem">>, 0>>,
         pData1 |-> IF pic.afbc THEN NoPlane ELSE <<<<i, "mem">>, nMemSizeY>>,
         pData2 |-> IF pic.afbc \/ pic.b10Bit \/ pic.ePixelFormat = NV21
                    THEN NoPlane
                    ELSE <<<<i, "mem">>, nMemSizeY + nMemSizeC>>,
         nLower2BitBufOffset |-> IF pic.b10Bit THEN yuv ELSE 0,
         nLower2BitBufSize |-> lower,
         nAfbcSize |-> IF pic.afbc THEN afbcSize ELSE 0,
         luma |-> nMemSizeY, chroma |-> nMemSizeC]

OtherLayout(i, blocks, pData1, luma, chroma) ==
    [blocks |-> blocks, pData0 |-> <<<<i, "mem">>, 0>>, pData1 |-> pData1,
     pData2 |-> NoPlane, nLower2BitBufOffset |-> 0, nLower2BitBufSize |-> 0,
     nAfbcSize |-> 0, luma |-> luma, chroma |-> chroma]

\* Two bytes a sample; U and V are together behind the luma.
P010Layout(i, pic, nWidth, nHeight) ==
    LET size == Padded(pic, nWidth, nHeight)
        nMemSizeY == size[1] * size[2] * 2
        nMemSizeC == nMemSizeY \div 4
    IN  OtherLayout(i, <<<<<<i, "mem">>, nMemSizeY + 2 * nMemSizeC>>>>,
                    <<<<i, "mem">>, nMemSizeY>>, nMemSizeY, nMemSizeC)

\* Blocks of 32 x 32 samples; U and V are together in memory of their own.
TiledLayout(i, pic, nWidth, nHeight) ==
    LET nLineStride == AlignUp(AlignUp(nWidth, 32), 64)
        nMemSizeY == nLineStride * AlignUp(nHeight, 64)
        nMemSizeC == TiledChromaOf(pic.ePixelFormat, nLineStride,
                                   AlignUp(nHeight, 64))
    IN  OtherLayout(i, <<<<<<i, "mem">>, nMemSizeY>>,
                         <<<<i, "memC">>, 2 * nMemSizeC>>>>,
                    <<<<i, "memC">>, 0>>, nMemSizeY, nMemSizeC)

\* The width FbmCreateBuffer gives the picture before it has memory.
FrameWidth(pic, nWidth) ==
    IF pic.align = 0 THEN nWidth ELSE AlignUp(nWidth, pic.align)

\* Four bytes a pixel, of lines of that width.
OneBlock(i, pic, nWidth, nHeight) ==
    LET nMemSizeY == 4 * FrameWidth(pic, nWidth) * nHeight
    IN  OtherLayout(i, <<<<<<i, "mem">>, nMemSizeY>>>>, NoPlane, nMemSizeY, 0)

FbmAllocatePictureBuffer(i, pic, nWidth, nHeight) ==
    CASE pic.ePixelFormat = P010_UV -> P010Layout(i, pic, nWidth, nHeight)
      [] pic.ePixelFormat \in Planar -> PlanarLayout(i, pic, nWidth, nHeight)
      [] pic.ePixelFormat \in Tiled -> TiledLayout(i, pic, nWidth, nHeight)
      [] pic.ePixelFormat = RGBA -> OneBlock(i, pic, nWidth, nHeight)

\* GetBufferSize returns -1 and gives no sizes.
NoSize == <<>>

\* Size of the luma and of one chroma plane, as GetBufferSize gives them:
\* without NV12 and P010, with the luma of tiles in 32 lines and not 64, and
\* with lines of four bytes a pixel that are not padded.
GetBufferSize(ePixelFormat, nWidth, nHeight, nAlignValue) ==
    LET a == IF nAlignValue = 0 THEN 16 ELSE nAlignValue
        luma == AlignUp(nWidth, a) * AlignUp(nHeight, a)
    IN  IF ePixelFormat \in Planar \ {NV12}
        THEN <<luma, ChromaOf(ePixelFormat, luma)>>
        ELSE IF ePixelFormat \in Tiled
        THEN <<AlignUp(nWidth, 64) * AlignUp(nHeight, 32),
               TiledChromaOf(ePixelFormat, AlignUp(nWidth, 64),
                             AlignUp(nHeight, 64))>>
        ELSE IF ePixelFormat = RGBA THEN <<4 * nWidth * nHeight, 0>>
        ELSE NoSize

(***************************************************************************)
(* The pool.  fails = <<i, k>>: the allocation of block k of frame i       *)
(* returns NULL, <<-1, "">> for none.  In thumbnail mode only frame 0 has  *)
(* memory, the other frames point to it.                                   *)
(***************************************************************************)
Blocks(layout) == {layout.blocks[j][1] : j \in DOMAIN layout.blocks}

\* FbmFreePictureBuffer: what it frees of a picture.  The planes behind the
\* first are freed for every format from the tiled ones on.
FbmFreePictureBuffer(i, pic, layout) ==
    {layout.pData0}
    \cup {<<b, 0>> : b \in Blocks(layout) \cap {<<i, "meta">>}}
    \cup (IF pic.ePixelFormat < MB32_420 THEN {}
          ELSE {layout.pData1, layout.pData2} \ {NoPlane})

\* Blocks of the failing frame that exist when FbmAllocatePictureBuffer
\* returns -1: the block of the luma is given back when that of the chroma
\* fails, and stays when the metadata fails.
LeftBehind(fails) == IF fails[2] = "meta" THEN {<<fails[1], "mem">>} ELSE {}

\* The frames that FbmCreateBuffer has given memory of their own when it
\* ends, or when an allocation fails.
Allocated(n, bThumbnailMode, fails) ==
    {i \in IF bThumbnailMode THEN {0} ELSE 0 .. n - 1 :
         fails[1] < 0 \/ i < fails[1]}

\* FbmCreateBuffer, its error path, and FbmDestroy: the blocks that were
\* allocated, and the addresses that are freed in the end.
PoolMemory(n, pic, nWidth, nHeight, bThumbnailMode, fails) ==
    LET done == Allocated(n, bThumbnailMode, fails)
        layout(i) == FbmAllocatePictureBuffer(i, pic, nWidth, nHeight)
    IN  [taken |-> LeftBehind(fails)
                       \cup UNION {Blocks(layout(i)) : i \in done},
         freed |-> UNION {FbmFreePictureBuffer(i, pic, layout(i))
                              : i \in done}]

(***************************************************************************)
(* Buffers of the window system: where FbmCreateBuffer says that the lower *)
(* two bits are, and where in a buffer for both views the second view is   *)
(* (nMinorYBufOffset; FbmSetFbmBufAddress).                                *)
(***************************************************************************)
GpuLower2BitOffset(pic, nWidth, nHeight) ==
    LET a == IF pic.align = 0 THEN 1 ELSE pic.align
    IN  IF ~pic.b10Bit THEN 0
        ELSE IF pic.afbc THEN AfbcSize(nWidth, nHeight, TRUE)
        ELSE (AlignUp(nWidth, a) * AlignUp(nHeight, a) * 3) \div 2

=============================================================================
