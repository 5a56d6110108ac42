------------------------------ MODULE MC_Fbm ------------------------------
(***************************************************************************)
(* Instances of Fbm for TLC: the constants are plain numbers, given in the *)
(* configurations.  The pictures themselves, their memory and what is done *)
(* to their samples for display, are functions without state: they are     *)
(* checked here against a definition of where each sample belongs.         *)
(***************************************************************************)
EXTENDS FbmMemory, PixelFormat

MCPictureSizes == {<<16, 16>>, <<34, 18>>, <<176, 144>>, <<1920, 1080>>}

(***************************************************************************)
(* Samples of a picture.                                                   *)
(***************************************************************************)
\* Where sample (x, y) of a component is in a picture of a format.
SampleAt(pic, component, x, y) ==
    LET f == pic.ePixelFormat
        stride == pic.nLineStride
        luma == stride * AlignUp(pic.nHeight, 16)
        tile(column, line) ==
            ((line \div 32) * (AlignUp(pic.nWidth, 32) \div 32)
                + column \div 32) * 1024 + (line % 32) * 32 + (column % 32)
        isV == IF component = "V" THEN 1 ELSE 0
        isSecond == IF f \in {NV21, YV12} THEN 1 - isV ELSE isV
    IN  CASE component = "Y" /\ f \in Tiled -> <<0, tile(x, y)>>
          [] component = "Y" /\ f \notin Tiled -> <<0, y * stride + x>>
          [] component # "Y" /\ f = MB32_420 -> <<1, tile(2 * x + isV, y)>>
          [] component # "Y" /\ f = MB32_422 -> <<1, tile(2 * x + isV, 2 * y)>>
          [] component # "Y" /\ f \in {NV21, NV12} ->
                 <<0, luma + y * stride + 2 * x + isSecond>>
          [] component # "Y" /\ f \in {YV12, PLANER_420} ->
                 <<0, luma + isSecond * (luma \div 4)
                        + y * (stride \div 2) + x>>

\* The samples of a picture.
Samples(pic) ==
    {<<"Y", x, y>> : x \in 0 .. pic.nWidth - 1, y \in 0 .. pic.nHeight - 1}
    \cup {<<c, x, y>> : c \in {"U", "V"}, x \in 0 .. Half(pic.nWidth) - 1,
                        y \in 0 .. Half(pic.nHeight) - 1}

PictureOf(format, width, height) ==
    [ePixelFormat |-> format, nWidth |-> width, nHeight |-> height,
     nLineStride |-> AlignUp(width, IF format \in Tiled THEN 32 ELSE 16)]

\* A place is written once, in a picture of that many bytes.
Written(moves, bytes) ==
    /\ Cardinality({mv[1] : mv \in moves}) = Cardinality(moves)
    /\ \A mv \in moves : mv[1][1] = 0 /\ mv[1][2] \in 0 .. bytes - 1

\* ConvertPixelFormat takes every sample of a picture, of even or odd size,
\* to its place in the other format, and writes nothing twice or outside.
SamplesConverted ==
    \A size \in {<<34, 18>>, <<47, 33>>, <<65, 3>>} :
    \A from \in {MB32_420, MB32_422, PLANER_420, YV12, NV21} :
    \A to \in {YV12, NV21} \ {from} :
        LET in == PictureOf(from, size[1], size[2])
            out == Converted(in, to)
            moves == ConvertPixelFormat(in, to)
        IN  /\ \A s \in Samples(in) :
                   <<SampleAt(out, s[1], s[2], s[3]),
                     SampleAt(in, s[1], s[2], s[3])>> \in moves
            /\ Written(moves,
                       (out.nLineStride * AlignUp(size[2], 16) * 3) \div 2)

\* RotatePicture turns a picture of even size clockwise, with its chroma,
\* whether it has to convert it first or not.
SamplesRotated ==
    \A size \in {<<18, 6>>, <<4, 20>>}, nRotateDegree \in {90, 180, 270} :
    \A from \in {MB32_420, PLANER_420, YV12, NV21, NV12} :
    \A to \in IF from = NV12 THEN {NV12} ELSE {YV12, NV21} :
        LET in == PictureOf(from, size[1], size[2])
            out == Rotated(Converted(in, to), nRotateDegree)
            moves == RotatePicture(in, out, nRotateDegree, <<16, 8>>)
            turned(x, y, w, h) ==
                CASE nRotateDegree = 90 -> <<h - 1 - y, x>>
                  [] nRotateDegree = 180 -> <<w - 1 - x, h - 1 - y>>
                  [] nRotateDegree = 270 -> <<y, w - 1 - x>>
            goes(s) ==
                LET d == IF s[1] = "Y" THEN 1 ELSE 2
                    p == turned(s[2], s[3], size[1] \div d, size[2] \div d)
                IN  SampleAt(out, s[1], p[1], p[2])
        IN  moves = {<<goes(s), SampleAt(in, s[1], s[2], s[3])>>
                        : s \in Samples(in)}

\* RotatePicture by 0 degrees fills a buffer of the window system as that
\* lays it out: lines of each plane padded to its alignments.
SamplesRelaid ==
    \A size \in {<<18, 6>>, <<48, 16>>} :
    \A gpu \in {<<16, 8>>, <<16, 16>>, <<32, 16>>} :
        LET in == PictureOf(YV12, size[1], size[2])
            out == [PictureOf(YV12, size[1], AlignUp(size[2], 16))
                       EXCEPT !.nLineStride = AlignUp(size[1], gpu[1])]
            chroma == AlignUp(out.nLineStride \div 2, gpu[2])
            luma == out.nLineStride * out.nHeight
            plane == [Y |-> 0, V |-> luma,
                      U |-> luma + (chroma * out.nHeight) \div 2]
            moves == RotatePicture(in, out, 0, gpu)
        IN  /\ \A s \in Samples(in) :
                   <<<<0, plane[s[1]] + s[2]
                            + s[3] * (IF s[1] = "Y" THEN out.nLineStride
                                      ELSE chroma)>>,
                     SampleAt(in, s[1], s[2], s[3])>> \in moves
            /\ Written(moves, luma + chroma * out.nHeight)

\* RotatePicture and what it calls: each sample of a decoded picture arrives
\* where a reader of the display buffer looks for it, once, and nothing is
\* written outside of that buffer.
SamplesArrive ==
    Unused => SamplesConverted /\ SamplesRotated /\ SamplesRelaid
=============================================================================
