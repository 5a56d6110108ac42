---------------------------- MODULE PixelFormat ----------------------------
(***************************************************************************)
(* Conversion and rotation of a picture for display (vdecoder/             *)
(* pixel_format.c, RotatePicture of vdecoder.c).  A copying loop is the    *)
(* set of its moves <<to, from>>; an address is <<plane, offset>>, plane 0 *)
(* the memory at pData0 and plane 1 that at pData1 (the chroma of a tiled  *)
(* picture; elsewhere the planes follow each other at pData0).             *)
(*                                                                         *)
(* The loops over tiled pictures are in the 32-bit ARM build only; their   *)
(* assembly splits 32 bytes in the even ones (U) and the odd ones (V).     *)
(* The copy of the last column of tiles, cut at the line stride, is not    *)
(* kept apart from that of the whole tiles.                                *)
(*                                                                         *)
(* A picture has the fields ePixelFormat, nWidth, nHeight, nLineStride.    *)
(***************************************************************************)
EXTENDS PictureBuffer

MemCpy(to, from, n) == {<<<<0, to + k>>, <<0, from + k>>>> : k \in 0 .. n - 1}

Half(n) == (n + 1) \div 2

(***************************************************************************)
(* Tiles of 32 bytes by 32 lines, stored one after the other.              *)
(***************************************************************************)
\* Bytes of the lines that are written: all up to the line stride.
ConvertMb32420ToNv21Y(nWidth, nHeight) ==
    LET nLineStride == AlignUp(nWidth, 16)
        nMbWidth == AlignUp(nWidth, 32) \div 32
    IN  {<<<<0, line * nLineStride + b>>,
           <<0, ((line \div 32) * nMbWidth + b \div 32) * 1024
                    + (line % 32) * 32 + (b % 32)>>>>
            : line \in 0 .. nHeight - 1, b \in 0 .. nLineStride - 1}

\* Offset of the U of pair n on a line of tiled chroma; V is the byte after.
\* Of a 4:2:2 picture every second line is taken: 16 lines from a tile.
Mb32Chroma(nPicWidth, lines, line, n) ==
    ((line \div lines) * (AlignUp(2 * Half(nPicWidth), 32) \div 32)
         + n \div 16) * 1024
        + (line % lines) * (1024 \div lines) + 2 * (n % 16)

\* V and U in turn.
Mb32ToNv21C(base, nPicWidth, nPicHeight, lines) ==
    LET nLineStride == AlignUp(2 * Half(nPicWidth), 16)
    IN  {<<<<0, base + line * nLineStride + 2 * n + v>>,
           <<1, Mb32Chroma(nPicWidth, lines, line, n) + 1 - v>>>>
            : line \in 0 .. Half(nPicHeight) - 1,
              n \in 0 .. nLineStride \div 2 - 1, v \in {0, 1}}

ConvertMb32420ToNv21C(base, nPicWidth, nPicHeight) ==
    Mb32ToNv21C(base, nPicWidth, nPicHeight, 32)

ConvertMb32422ToNv21C(base, nPicWidth, nPicHeight) ==
    Mb32ToNv21C(base, nPicWidth, nPicHeight, 16)

\* U and V apart.
Mb32ToYv12C(pDstU, pDstV, nPicWidth, nPicHeight, lines) ==
    LET nLineStride == AlignUp(Half(nPicWidth), 8)
    IN  {<<<<0, (IF v = 1 THEN pDstV ELSE pDstU) + line * nLineStride + n>>,
           <<1, Mb32Chroma(nPicWidth, lines, line, n) + v>>>>
            : line \in 0 .. Half(nPicHeight) - 1,
              n \in 0 .. nLineStride - 1, v \in {0, 1}}

ConvertMb32420ToYv12C(pDstU, pDstV, nPicWidth, nPicHeight) ==
    Mb32ToYv12C(pDstU, pDstV, nPicWidth, nPicHeight, 32)

ConvertMb32422ToYv12C(pDstU, pDstV, nPicWidth, nPicHeight) ==
    Mb32ToYv12C(pDstU, pDstV, nPicWidth, nPicHeight, 16)

(***************************************************************************)
(* ConvertPixelFormat.  The line stride of both pictures is taken to be    *)
(* the width rounded up to 16, whatever nLineStride of the source says.    *)
(***************************************************************************)
\* A pair of planes of half the stride <-> one plane of pairs.
Interleave(base, first, second, nWidth, nHeight, stride) ==
    {<<<<0, base + i * stride + 2 * j + v>>,
       <<0, (IF v = 0 THEN first ELSE second) + (i * stride) \div 2 + j>>>>
        : i \in 0 .. Half(nHeight) - 1, j \in 0 .. Half(nWidth) - 1,
          v \in {0, 1}}

Turned(moves) == {<<mv[2], mv[1]>> : mv \in moves}

ConvertChroma(in, to) ==
    LET stride == AlignUp(in.nWidth, 16)
        y == stride * AlignUp(in.nHeight, 16)
        c == y \div 4
        from == in.ePixelFormat
        pairs(first, second) ==
            Interleave(y, first, second, in.nWidth, in.nHeight, stride)
    IN  CASE to = YV12 /\ from = MB32_420 ->
               ConvertMb32420ToYv12C(y + c, y, in.nWidth, in.nHeight)
          [] to = YV12 /\ from = MB32_422 ->
               ConvertMb32422ToYv12C(y + c, y, in.nWidth, in.nHeight)
          [] to = YV12 /\ from = NV21 -> Turned(pairs(y, y + c))
          [] to = YV12 /\ from = PLANER_420 ->
               MemCpy(y, y + c, c) \cup MemCpy(y + c, y, c)
          [] to = NV21 /\ from = MB32_420 ->
               ConvertMb32420ToNv21C(y, in.nWidth, in.nHeight)
          [] to = NV21 /\ from = MB32_422 ->
               ConvertMb32422ToNv21C(y, in.nWidth, in.nHeight)
          [] to = NV21 /\ from = YV12 -> pairs(y, y + c)
          [] to = NV21 /\ from = PLANER_420 -> pairs(y + c, y)
          [] OTHER -> {}

\* The conversions there are; of any other the picture stays as it was.
Converts(from, to) ==
    /\ to \in {YV12, NV21}
    /\ from \in {MB32_420, MB32_422, PLANER_420, YV12, NV21} \ {to}

ConvertPixelFormat(in, to) ==
    (IF ~Converts(in.ePixelFormat, to) THEN {}
     ELSE IF in.ePixelFormat \in {MB32_420, MB32_422}
     THEN ConvertMb32420ToNv21Y(in.nWidth, in.nHeight)
     ELSE MemCpy(0, 0, AlignUp(in.nWidth, 16) * AlignUp(in.nHeight, 16)))
    \cup ConvertChroma(in, to)

\* What it writes in the fields of the picture it makes.
Converted(in, to) ==
    [in EXCEPT !.ePixelFormat = to, !.nLineStride = AlignUp(in.nWidth, 16)]

(***************************************************************************)
(* RotatePicture0Degree: a copy, line by line where the window system pads *)
(* the planes in another way.  out has the fields of the buffer to fill,   *)
(* gpu is <<nGpuYAlign, nGpuCAlign>>, what the window system pads lines to. *)
(***************************************************************************)
MoveLines(to, toStride, from, fromStride, width, height) ==
    {<<<<0, to + j * toStride + k>>, <<0, from + j * fromStride + k>>>>
        : j \in 0 .. height - 1, k \in 0 .. width - 1}

\* Line stride of the chroma planes that the window system expects.
GpuChromaStride(out, gpu) ==
    IF gpu = <<16, 16>>
    THEN AlignUp(out.nLineStride \div 2, 16) ELSE out.nLineStride \div 2

RelaidPlanes(in, out, gpu) ==
    LET y == in.nLineStride * AlignUp(in.nHeight, 16)
        stride == GpuChromaStride(out, gpu)
        first == out.nLineStride * out.nHeight
        second == first + (stride * out.nHeight) \div 2
        plane(to, from) ==
            MoveLines(to, stride, from, in.nLineStride \div 2,
                      in.nWidth \div 2, in.nHeight \div 2)
    IN  MoveLines(0, out.nLineStride, 0, in.nLineStride,
                  in.nWidth, in.nHeight)
        \cup plane(first, y) \cup plane(second, y + y \div 4)

TiledCopy(in) ==
    LET y == in.nLineStride * AlignUp(in.nHeight, 32)
        c == TiledChromaOf(in.ePixelFormat, in.nLineStride,
                           AlignUp(in.nHeight, 64))
    IN  MemCpy(0, 0, y)
        \cup {<<<<1, k>>, <<1, k>>>> : k \in 0 .. 2 * c - 1}

\* The formats of the switch, and the paddings of a YV12 buffer it knows.
Copies(out, gpu) ==
    /\ out.ePixelFormat \in (Planar \ {NV12}) \cup Tiled
    /\ out.ePixelFormat = YV12 =>
           gpu \in {<<16, 8>>, <<16, 16>>, <<32, 16>>}

RotatePicture0Degree(in, out, gpu) ==
    LET y == in.nLineStride * AlignUp(in.nHeight, 16)
    IN  IF ~Copies(out, gpu) THEN {}
        ELSE IF out.ePixelFormat \in Tiled THEN TiledCopy(in)
        ELSE IF out.ePixelFormat = YV12 /\ gpu # <<16, 8>>
        THEN RelaidPlanes(in, out, gpu)
        ELSE MemCpy(0, 0, y + 2 * ChromaOf(in.ePixelFormat, y))

(***************************************************************************)
(* The three rotations, clockwise.                                         *)
(***************************************************************************)
\* Mutant: a quarter turn the other way.
PlaceBack(nRotateDegree, i, j, nWidth, nHeight) ==
    CASE nRotateDegree = 90  -> <<j, nWidth - 1 - i>>
      [] nRotateDegree = 180 -> <<nWidth - 1 - i, nHeight - 1 - j>>
      [] nRotateDegree = 270 -> <<nHeight - 1 - j, i>>

\* Column and line that sample i of line j goes to.
Place(nRotateDegree, i, j, nWidth, nHeight) ==
    CASE nRotateDegree = 90  -> <<nHeight - 1 - j, i>>
      [] nRotateDegree = 180 -> <<nWidth - 1 - i, nHeight - 1 - j>>
      [] nRotateDegree = 270 -> <<j, nWidth - 1 - i>>

\* Size and line stride of the rotated picture.
Rotated(in, nRotateDegree) ==
    IF nRotateDegree = 180 THEN in
    ELSE [in EXCEPT !.nWidth = in.nHeight, !.nHeight = in.nWidth,
                    !.nLineStride = AlignUp(in.nHeight, 16)]

\* One plane, of samples of the given number of bytes.
RotatePlane(nRotateDegree, to, toStride, from, fromStride, w, h, bytes) ==
    {LET p == Place(nRotateDegree, i, j, w, h)
     IN  <<<<0, to + p[2] * toStride + bytes * p[1] + v>>,
           <<0, from + j * fromStride + bytes * i + v>>>>
        : i \in 0 .. w - 1, j \in 0 .. h - 1, v \in 0 .. bytes - 1}

\* All planes.  After 270 degrees the pairs of chroma go where pData1 of the
\* buffer points to (the code does not set it); it is taken to be right.
RotateDegrees(in, ePixelFormat, nRotateDegree) ==
    LET r == Rotated(in, nRotateDegree)
        fromY == in.nLineStride * AlignUp(in.nHeight, 16)
        toY == r.nLineStride * AlignUp(r.nHeight, 16)
        plane(to, from, bytes) ==
            RotatePlane(nRotateDegree,
                        to, (r.nLineStride \div 2) * bytes,
                        from, (in.nLineStride \div 2) * bytes,
                        in.nWidth \div 2, in.nHeight \div 2, bytes)
    IN  IF ePixelFormat \notin {YV12, NV21, NV12} THEN {}
        ELSE RotatePlane(nRotateDegree, 0, r.nLineStride, 0, in.nLineStride,
                         in.nWidth, in.nHeight, 1)
             \cup (IF ePixelFormat = YV12
                   THEN plane(toY, fromY, 1)
                        \cup plane(toY + toY \div 4, fromY + fromY \div 4, 1)
                   ELSE plane(toY, fromY, 2))

RotatePicture90Degree(in, ePixelFormat) == RotateDegrees(in, ePixelFormat, 90)

RotatePicture180Degree(in, ePixelFormat) ==
    RotateDegrees(in, ePixelFormat, 180)

RotatePicture270Degree(in, ePixelFormat) ==
    RotateDegrees(in, ePixelFormat, 270)

\* What comes of two copies, the second one reading what the first wrote.
After(second, first) ==
    UNION {{<<mv[1], w[2]>> : w \in {x \in first : x[1] = mv[2]}}
               : mv \in second}

Turn(in, ePixelFormat, nRotateDegree) ==
    CASE nRotateDegree = 90  -> RotatePicture90Degree(in, ePixelFormat)
      [] nRotateDegree = 180 -> RotatePicture180Degree(in, ePixelFormat)
      [] nRotateDegree = 270 -> RotatePicture270Degree(in, ePixelFormat)

\* A picture of another format is converted first; by 0 degrees that is all,
\* else only if there is a conversion to the format of the buffer.
RotatePicture(in, out, nRotateDegree, gpu) ==
    LET to == out.ePixelFormat
    IN  IF nRotateDegree = 0
        THEN IF to = in.ePixelFormat THEN RotatePicture0Degree(in, out, gpu)
             ELSE ConvertPixelFormat(in, to)
        ELSE IF to # in.ePixelFormat /\ to \in {YV12, NV21}
        THEN After(Turn(Converted(in, to), to, nRotateDegree),
                   ConvertPixelFormat(in, to))
        ELSE Turn(in, to, nRotateDegree)

=============================================================================
