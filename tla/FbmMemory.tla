----------------------------- MODULE FbmMemory -----------------------------
(***************************************************************************)
(* The memory of the pictures in the pool of Fbm: what PictureBuffer lays  *)
(* out must hold the planes apart from each other and inside the blocks,   *)
(* hold what the second computation of the same layout gives as well, and  *)
(* be given back.  These are functions without state.                      *)
(***************************************************************************)
EXTENDS Fbm, PictureBuffer

CONSTANTS
    PictureSizes,  \* pairs of width and height
    PictureAligns, \* values of nAlignValue
    PoolSizes      \* numbers of frames

\* Lines are padded to whole macroblocks: decoders ask for 16, 32 or 64, or
\* leave it to the frame buffer manager (0).
ASSUME PictureAssumption ==
    /\ PictureSizes \subseteq (Nat \ {0}) \X (Nat \ {0})
    /\ \A a \in PictureAligns : a \in Nat /\ a % 16 = 0
    /\ PoolSizes \subseteq Nat

\* Pictures are laid out while nobody uses the pool: what follows is about
\* functions without state, and is looked at in such states only.
Unused == ~bUseGpuBuf /\ bUsedByDecoder = {} /\ bUsedByRender = {}

PictureKinds ==
    [ePixelFormat : {PLANER_420, PLANER_422, PLANER_444, YV12, NV21, NV12,
                     MB32_420, MB32_422, MB32_444, RGBA, P010_UV},
     b10Bit : BOOLEAN, afbc : BOOLEAN, align : PictureAligns]

SizeOfBlock(layout, block) ==
    layout.blocks[CHOOSE j \in DOMAIN layout.blocks :
                      layout.blocks[j][1] = block][2]

\* The parts of the memory that the decoder writes: <<block, from, length>>.
Parts(pic, layout) ==
    LET both == pic.ePixelFormat \in {NV21, NV12, P010_UV} \cup Tiled
                    \/ pic.b10Bit
        part(plane, length) ==
            IF plane = NoPlane THEN {} ELSE {<<plane[1], plane[2], length>>}
    IN  part(layout.pData0, IF layout.nAfbcSize > 0 THEN layout.nAfbcSize
                            ELSE layout.luma)
        \cup part(layout.pData1, IF both /\ pic.ePixelFormat # NV12
                                 THEN 2 * layout.chroma ELSE layout.chroma)
        \cup (IF both THEN {} ELSE part(layout.pData2, layout.chroma))
        \cup (IF layout.nLower2BitBufSize = 0 THEN {}
              ELSE {<<layout.pData0[1], layout.nLower2BitBufOffset,
                      layout.nLower2BitBufSize>>})

\* They lie in their blocks, and apart from each other.
Fit(layout, parts) ==
    \A a \in parts : /\ a[2] >= 0
                     /\ a[2] + a[3] <= SizeOfBlock(layout, a[1])

Apart(parts) ==
    \A a, b \in parts :
        a # b /\ a[1] = b[1] =>
            a[2] + a[3] <= b[2] \/ b[2] + b[3] <= a[2]

\* FbmAllocatePictureBuffer: the planes of a picture, its compressed body
\* and its lower two bits lie apart from each other in memory that belongs
\* to the picture, and the luma has room for all macroblocks.
PlanesApart ==
    \A pic \in PictureKinds, size \in PictureSizes :
        LET layout == FbmAllocatePictureBuffer(0, pic, size[1], size[2])
            parts == Parts(pic, layout)
        IN  /\ Fit(layout, parts) /\ Apart(parts)
            /\ pic.ePixelFormat # RGBA =>
                   layout.luma >= AlignUp(size[1], 16) * AlignUp(size[2], 16)

\* Both computations pad the luma alike: tiles to 64 lines (fbm.c:1461) and
\* to 32 (videoengine.c:720), four bytes a pixel as the decoder asked for
\* (fbm.c:1502) and not at all (videoengine.c:735).
PaddedAlike(pic, nWidth, nHeight) ==
    CASE pic.ePixelFormat \in Tiled ->
            AlignUp(nHeight, 32) = AlignUp(nHeight, 64)
      [] pic.ePixelFormat = RGBA -> FrameWidth(pic, nWidth) = nWidth
      [] OTHER -> TRUE

\* GetBufferSize never gives a luma larger than FbmAllocatePictureBuffer lays
\* out, and the same chroma: who uses its sizes stays inside the memory.  The
\* luma is the same for the planar formats; of a tiled picture it may be half
\* a row of tiles less, of one with four bytes a pixel the padding less.  For
\* NV12 and P010, which pictures may have, it gives no size.
SizesCovered ==
    \A pic \in PictureKinds, size \in PictureSizes :
        LET layout == FbmAllocatePictureBuffer(0, pic, size[1], size[2])
            sizes == GetBufferSize(pic.ePixelFormat, size[1], size[2],
                                   pic.align)
        IN  IF pic.ePixelFormat \in {NV12, P010_UV} THEN sizes = NoSize
            ELSE /\ sizes[2] = layout.chroma /\ sizes[1] <= layout.luma
                 /\ sizes[1] = layout.luma <=>
                        PaddedAlike(pic, size[1], size[2])

\* FbmCreateBuffer looks for the lower two bits of a planar picture, in a
\* buffer of the window system, never behind where FbmAllocatePictureBuffer
\* puts them, and at the same place when the picture is compressed, or has
\* three samples for two pixels and lines padded alike.
LowerBitsCovered ==
    \A pic \in {p \in PictureKinds : p.ePixelFormat \in Planar},
       size \in PictureSizes :
        LET laid == FbmAllocatePictureBuffer(0, pic, size[1], size[2])
                        .nLower2BitBufOffset
            gpu == GpuLower2BitOffset(pic, size[1], size[2])
        IN  /\ gpu <= laid
            /\ pic.afbc \/ (/\ pic.ePixelFormat \in {PLANER_420, YV12, NV21}
                            /\ pic.align # 0) => gpu = laid

\* What is not freed and what is freed without being a block: the luma of the
\* picture whose metadata cannot be allocated stays (fbm.c:1419), and of P010
\* the address of the chroma inside the block is freed too (fbm.c:1280, 1558).
Lost(fails) == IF fails[2] = "meta" THEN {<<fails[1], "mem">>} ELSE {}

\* FbmCreateBuffer gives back the blocks that it took when the allocation of
\* any block of any frame fails, and FbmDestroy when none does, with one
\* picture for all frames (thumbnails) or not, but for those two exceptions:
\* nothing else is lost, and nothing is freed that is not the pool's.
MemoryFreed ==
    \A n \in PoolSizes, size \in PictureSizes, bThumbnailMode \in BOOLEAN :
    \A pic \in PictureKinds :
        LET layout == FbmAllocatePictureBuffer(0, pic, size[1], size[2])
        IN  \A fails \in {<<-1, "">>}
                         \cup ((0 .. (IF bThumbnailMode THEN 0 ELSE n - 1))
                               \X {block[2] : block \in Blocks(layout)}) :
            LET pool == PoolMemory(n, pic, size[1], size[2], bThumbnailMode,
                                   fails)
                kept == pool.taken \ Lost(fails)
            IN  pool.freed =
                    {<<block, 0>> : block \in kept}
                    \cup (IF pic.ePixelFormat # P010_UV THEN {}
                          ELSE {<<block, layout.luma>> : block \in kept})

\* The memory of a picture, from FbmCreateBuffer to FbmDestroy: nothing
\* overlaps, the two places in the code that compute its layout stay inside
\* it, and what was taken is given back, whichever allocation fails.  Where
\* the code does not do quite so, the parts say what it does.
PicturesLaid ==
    Unused => PlanesApart /\ SizesCovered /\ LowerBitsCovered /\ MemoryFreed
=============================================================================
