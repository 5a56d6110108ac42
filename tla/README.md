# CedarC: a TLA+ model of the decoders and their buffers

CedarC is a video decoder library for Allwinner chips.  A player calls it from
at least three threads: a *parser* that submits compressed data, a *decoder*
loop that calls `DecodeVideoStream`, and a *render* that takes pictures and
gives them back; a *control* thread seeks (`ResetVideoDecoder`) and, on systems
whose picture buffers belong to the window system, has all of them released and
bound again.  Several decoders may run in one process and share the chip.

The project models what lies between these threads (the buffers that go round,
the counters and positions that describe them, the locks and the places where
there is none), what the decoders do with a stream that is not what they
expect (reference pictures, output order, errors, seeks, missing buffers), and
the pure computations whose result a test would hardly question (scaling
lists, tiles, probabilities, weights, the layout and rotation of pictures).

## 1. Inventory

| component | state | operations | who calls it |
|---|---|---|---|
| player interface, `vdecoder/vdecoder.c` | `partialStreamDataInfo`, the managers, thumbnail and reopen flags | create, initialise, request/submit stream data, decode, request/return picture, rotate, reset, reopen, destroy | the player's threads |
| stream buffer manager, stream mode, `sbm/sbmStream.c` | a byte ring (`pWriteAddr`, `nValidDataSize`), a slot fifo (three positions, two counters) | request buffer, add, request, return, flush stream, reset | parser through `vdecoder.c`; VP9 decoder |
| stream buffer manager, frame mode, `sbm/sbmFrameBase.c`, `sbmFrameH264.c`, `sbmFrameH265.c` | the ring, a stream fifo, a picture fifo, `mDetectInfo`, `nEosFlag`, `bStreamWithStartCode` | as above, and a detector thread that cuts streams into pictures; request, return, flush picture | parser; H.264 and H.265 decoders; control through messages |
| message queue, `base/CdcMessageQueue.c` | a bounded list under a mutex, a semaphore | post, timed get, count | control thread, detector thread |
| frame buffer manager, `vdecoder/fbm.c` | three queues, five flags per frame, counters, the memory of the pictures | request, share, return buffer; request, return picture; flush; release and rebind; create and destroy | decoder, render, control |
| pixel formats, `vdecoder/pixel_format.c` | none | convert, rotate, copy to a graphics buffer | `RotatePicture` |
| video engine, `videoengine/videoengine.c` | the decoder in use, the lock of the engine, the display's pool | create, set stream manager, decode, reset, reopen, destroy | `vdecoder.c` |
| H.264 decoder, `videoengine/h264/` | step of the decode call, slots, short- and long-term lists, delayed pictures, parameter sets | decode, reset, marking (MMCO), reference lists, output, engine memory | video engine |
| H.265 decoder, `videoengine/h265/` | step, DPB, reference picture set, time stamps, parameter sets | the same, with reference picture sets | video engine |
| VP9 decoder and core, `videoengine/vp9Hw/` | step, reference slots, buffer queue, entropy contexts, deltas, segment maps, motion, output | decode, reset, adaptation | video engine |
| driver interface, `ve/` | reference counts, device handles, locks | open, lock, mode, wait, release | decoders, allocator |
| memory, `memory/` | reference count, context, list of ION buffers | open, alloc, free, close | managers, decoders |
| checksums and dumps, driver self test, `CdcSysinfo.c` | none | - | debugging, test |

Hard behaviour, and where it is:

- the threads meet in `fbm.c`, in the stream buffer managers and, between
  decoders, in the drivers and the allocator (interleaving); some tests and reads
  are outside the mutex (`FbmShareBuffer`, the number functions,
  `CdcMessageQueueGetCount`, `partialStreamDataInfo`);
- flags decide who is the last user of a frame; reference marking decides it a
  second time inside the decoders;
- fifo positions, ring addresses, order counts and frame numbers wrap;
- a seek may come at any moment, a parameter set may change in the stream, and
  state of before survives (stale state);
- access units are lost or damaged on the way, slices are missing, the engine
  reports errors; B pictures come too late; a decode call finds no buffer and its
  access unit is decoded again (retry);
- opening a driver, the allocator, a decoder or a stream buffer may fail half way;
- calls wait without a time-out (deadlock).

Nothing is persisted, so there is no crash recovery.  The hazards are listed,
each at its line with the properties about it, in `PROJECT.json`.

What makes the parts correct:

- *frame buffer manager*: no frame is lost or has two owners, the counters the
  decoders wait on are exact, pictures come out in order and are not written
  while they are shown, every frame comes back; planes do not overlap;
- *stream mode*: the ring has no gap and no overlap, the parser writes only free
  bytes, positions and counters agree so that no `abort()` is reached, frames
  come out in order, a parser that asks is served;
- *frame mode*: the same of both fifos, pictures hold exactly their own NAL
  units, the detector thread never falls asleep, resets and destruction end, at
  the end of the stream the ring runs empty;
- *several decoders*: the one whose turn it is has the engine to itself and in its
  own mode, counts are the contexts held, nothing is used after it was freed;
- *each codec*: the video engine is given the references, parameter sets and
  probabilities the encoder used; every picture is displayed once, in order and
  with its time stamp; no reference loses its buffer, no buffer is lost and
  none is waited for in vain; damaged pictures stay off the display.

## 2. Modules

| module | models | composed with |
|---|---|---|
| `Fbm` | `fbm.c`, one pool | refines `PictureQueue` |
| `PictureQueue` | what a render may expect of the pool (abstract) | |
| `PictureBuffer` | layout, allocation and freeing of a picture's memory (`fbm.c`, `GetBufferSize`) | |
| `PixelFormat` | `pixel_format.c`, `RotatePicture` | extends `PictureBuffer` |
| `FbmMemory` | what must be true of the memory of the pictures in a pool | `Fbm`, `PictureBuffer` |
| `MC_Fbm`, `FbmProofs` | the refinement and bounded inputs for TLC; proofs | `FbmMemory`, `PixelFormat` |
| `SbmStream` | `sbmStream.c` | |
| `VideoStream` | request, submit and reset of `vdecoder.c` | extends `SbmStream`, refines `StreamQueue` |
| `StreamQueue` | frames in, the same frames out in order (abstract) | |
| `MC_VideoStream`, `VideoStreamProofs` | the refinement for TLC; proofs | `VideoStream` |
| `CdcMessageQueue` | `CdcMessageQueue.c` | |
| `SbmThread` | the messages between `ProcessThread` and init, reset, destroy | extends `CdcMessageQueue` |
| `SbmThreadProofs` | proofs | `SbmThread` |
| `SbmFrame` | `sbmFrameBase.c` and both detectors, with parser and decoder | extends `SbmThread` |
| `MC_SbmFrame`, `SbmFrameProofs` | streams for TLC; proofs | `SbmFrame` |
| `VideoEngine` | `vdecoder.c`, `videoengine.c`, `veAw.c`, `veVp9.c`, `ionAlloc.c` of several decoders | |
| `MC_VideoEngine`, `VideoEngineProofs` | three decoders for TLC; proofs | `VideoEngine` |
| `H264Dpb` | slots, marking, choice for display, flushing (`h264_mmco.c`, `h264.c`) | |
| `H264RefList` | default lists and their rearrangement | extends `H264Dpb` |
| `H264` | the decode step machine, order counts, errors, reset, player | extends `H264RefList` |
| `H264ParamSets`, `H264Sram` | parameter sets and scaling lists; the engine's memory | `EngineSram` |
| `H265Dpb`, `H265Slice` | reference picture sets, DPB, output; what a slice header says | |
| `H265` | the decode step machine, parameter sets, errors, reset, player | extends `H265Slice` |
| `H265ParamSets`, `H265Sram` | parameter set bytes, tiles, scaling lists; the engine's memory | `EngineSram` |
| `H265Proofs` | proofs | `H265`, with `Loop` |
| `EngineSram` | the port to the engine's memory | |
| `MC_H264`, `MC_H265` | streams, and what the standards make of them, for TLC | all of a codec |
| `Vp9BufferQueue` | reference buffers and their counts | |
| `Vp9Stream` | streams and what their encoder had in its memories | extends `Vp9BufferQueue` |
| `Vp9` | `vp9Hw.c` and the state of the core from frame to frame | extends `Vp9Stream` |
| `Vp9Entropy`, `Vp9Tiles` | bool decoder, probabilities, adaptation; tile table | |
| `Loop` | loops over a sequence and up a count, and what holds when they are through (proof only) | |
| `MC_Vp9`, `Vp9Proofs` | streams, encoders and references for TLC; proofs | all of VP9; `Vp9`, with `Loop` |

Names are those of the source.  An operator whose comment begins with *Mutant*
is a plausible mistake in the operator behind it; no specification uses it.
`PROJECT.json` pairs each with the property that catches it, and `map` gives the
lines of the source that each definition stands for.

### Fbm, PictureBuffer, PixelFormat

A flag of `FrameNodeFlag` is the set of frames that have it set, a linked list
is a sequence.  A call is one action because it runs under `Fbm.mutex`; the
exceptions are where the code lets somebody in: `FbmShareBuffer` tests
`bNeedRelease` before it locks (two actions), `FbmSetNewDispRelease` takes the
mutex three times, and the draining loops take a step per iteration because the
number functions read the counters without the mutex.  `decHolds` and `renHolds`
are the pointers the two threads have; a call is made only with a pointer its
caller holds.  The paths on which the code logs "status invalid" and gives the
frame up set `invalidStatus`.  `bUseGpuBuf`, set when the pool is
created, says who owns the buffers.

`PictureBuffer` and `PixelFormat` are operators: an address is a block and an
offset, and a copying loop is the set of its moves from place to place, so that
"every sample arrives" is a statement about that set.  The layout of a picture is
computed twice in the code, by `FbmAllocatePictureBuffer` for its own memory and by
`GetBufferSize` and `FbmCreateBuffer` for buffers of the window system, and not alike:
`FbmMemory` says for each format whether the two are equal, which of them is smaller,
or that there is no second one (`SizesCovered`, `LowerBitsCovered`).

### SbmStream and VideoStream

The ring has `nStreamBufferSize` bytes; `Margin` are the bytes that
`SbmStreamRequestBuffer` keeps free (64 in the code).  A submission that completes
a frame may add two (the incomplete one before it as well): two steps, the decoder
runs in between.  Reaching `abort()` sets `aborted`.  The parser's bytes
themselves are not modelled, only where they may be written.

Assumed of the player, because nothing in the code checks it: it submits no more
than it was granted, a continuing part follows a first part, and it resets only
while it has no grant and no decode call runs (`partialStreamDataInfo` has no lock).

### CdcMessageQueue, SbmThread, SbmFrame

A post has two steps, because `sem_post` comes after the unlock.  The detector
thread posts its next READ only if it counts no message, without the mutex.
`SbmFrame` says what happens between the messages: every locked section is a
step, and what the detector works out in between, in `mDetectInfo` that nobody
else reads, belongs to the step before or after it.

A stream is a sequence of units, each one cell of the ring: a NAL unit that
begins a picture (F), one that can only come before a picture (H), another one
(S), five bytes or more without a NAL unit (J), and a rest of less than five
bytes (T).  In H.264 every NAL unit is an F, since `ADD_ONE_FRAME` is 0.  That a
stream of some bytes has at least five is assumed, so T never stands alone.
Whether a stream shows its type is left open (both answers), and the limit of 50
streams per check is a loop that may end at any time.  Left out: the timed waits
(they only delay the next READ), presentation times, and the second buffer of
`bUseNewVeMemoryProgram` (`ENABLE_NEW_MEMORY_OPTIMIZATION_PROGRAM` is 0).

Assumed: the decoder holds one picture at a time (`pCurStreamFrame`); reset and
destroy are called from one thread, while no submission and no decode call runs;
nothing is submitted between the end of the stream and the next reset.  And one
thing of the scheduling, `Settled`: `SbmFrameInit` writes
`bStreamWithStartCode = -1` after it has started the thread and posted a READ, so
the thread may find the 0 of the `memset` and look for a length-prefixed stream;
the first stream is assumed to be submitted after that READ.  Without it TLC
shows the first streams taken apart as length-prefixed and then, while the type
is looked for, thrown away from the middle of the ring.

### VideoEngine

One thread per decoder; a step is what it does between two points where it may
have to wait for a lock.  `g_mutex_alloc`, `VeMutex`, the mutex behind `lock_vdec`
and `gVP9Mutex` are the locks; a decoder's turn in the engine goes from
`enableVe` to `disableVe`.  What a decoder allocates are four kinds of blocks,
each mapped through the driver of the context it holds.  One operation of a
behaviour may fail: the open of a driver, of the allocator, of a codec (at start
or in `ReopenVideoEngine`), of the stream buffer.  `VeGetChipId` returns 0, so the
paths for chips with limits on the resolution are dead and left out.

### H264Dpb, H264RefList, H264

A slot of `picture[]` is a record; `pShortRef`, `pLongRef`, `pDelayedPic` hold slots.
Every operator of `H264Dpb` takes the pictures and gives the pictures after the
function returns, so that the marking, the sorting and the flushing of one picture
compose as the calls do.  `H264` walks through the steps of
`H264DecoderDecodeSbmFrame` unit by unit: a unit is what the stream buffer manager
hands out at once, the last slice of a picture completes it.  The stream is what an
encoder wrote (frames, field pairs, B pyramids, long-term references, gaps) with at
most one kind of fault in it: a picture or a burst lost, its tail lost, a garbled
header, an error the engine reports, B pictures that come too late, a seek.  The
references the encoder used are computed in `MC_H264` from the standard, and
`listed` compares them with those the engine is given.

Left out: the second view of MVC, extra data, scaling down, soft header parsing,
recovery points, the test of `bLastMbInSlice`, and a lost first slice, which ends
in `abort()` by the code's design.

### H265Dpb, H265Slice, H265

The same split.  An access unit is decoded within one call of `H265DecoderDecode`
(`vdecoder.c:471` chooses frame mode, so the stream mode of `h265.c` is dead code).
Parameter sets are stored by id and may be lost, replaced or repeated.  A picture
with no buffer is put back and decoded again in the next call.  `nLastPts` is the time
stamp of the access unit requested last; what is dropped takes that one out of the
list, whichever picture its slices are of.  Left out: second
output, compressed pictures, the pool of motion vectors, the list of 256 order
counts, and every access unit carries a time stamp.

### H264ParamSets, H264Sram, H265ParamSets, H265Sram

Operators only: from the syntax elements of a set or a slice to what the video
engine finds in its memory and registers.  `EngineSram` is the port: an address,
then words.  A word is a tuple of what its bytes mean.  `MC_H264` and `MC_H265`
write the syntax as an encoder does and read the memory as the engine does, by
address, and compare.  Default scaling lists are told apart by one of their values.

### Vp9BufferQueue, Vp9Stream, Vp9, Vp9Entropy, Vp9Tiles

A call of `Vp9HwDecoderDecode` is `PrepareData`, `DecodeHeader`, `RunPicture`.  Each
memory of the core (reference slots, contexts, deltas, segment map, motion) holds
the name of the frame that wrote it; `Vp9Stream` says which frame the encoder's held,
and the properties compare.  The bool decoder, the codes of probability updates and
the adaptation are functions, checked against an encoder and against the text of
the format over bounded inputs.

## 3. What TLC checks

| run | question | distinct states |
|---|---|---|
| `fbm` | own buffers: accounting, counters, no invalid status, every frame comes back; window-system buffers through one release and rebind; either way a picture queue; layout, conversion and rotation of pictures | 4,616 |
| `stream` | layout of the ring, grants, drops, positions, no abort, order; a parser that asks is served | 709,331 |
| `frame_avc` | frame mode, H.264: no abort, every byte accounted for, the ring runs empty at the end of the stream | 1,103,972 |
| `frame_hevc` | frame mode, H.265: pictures are whole; handshake of the detector thread, reset and destroy return | 1,329,117 |
| `frame_staleeos` | *violation*, see below | |
| `engine` | three decoders of three formats, one failure: turns, counts, memory, pools; every call returns | 540,524 |
| `engine_failedopen` | *violation*, see below | |
| `h264` | references, order, buffers and errors of H.264 playback; its tables | 303,978 |
| `h265` | the same of H.265, with parameter sets and time stamps; its tables | 1,361,740 |
| `h265_lostkey` | *violation*, see below | |
| `vp9` | what each frame is decoded from, counts, order, time stamps, the end is reached; entropy decoding and tiles | 58,181 |
| `vp9_repeats` | *violation*, see below | |

A property is one promise; where it has several sides they are definitions of their
own that it is the conjunction of (`BuffersKept`, `ShownAsCoded`, `TablesAsCoded`,
`MemoryThere` and others), each with the functions it is about in its comment.  Types are
part of `ReleaseSafe`, `FifosSound`, `CountsExact`, `BuffersKept` and `CountsKept`.

Deadlock is checked but where a behaviour may end: the players of `engine`,
`h265` and `vp9` make boundedly many calls.

*Bounds.*  Two frames let the decoder and the display each have one, or both share
one while the other waits in a queue, and the flush or release find frames in every
such place; a third multiplies the state graph by 30, which the strong fairness of six
calls is too slow to check on, and meets the others only in the queues.  The proofs of
all safety properties cover every other number.  One release (`MaxRelease`) rebinds every frame; the run
stops there because with a second one `ReleaseSafe` does not hold of the code (see the
deviations); `FbmProofs` says when it holds.  The rings have 4 to 6
cells and two or three slots with requests of 0 to 3 cells: frames end at, before
and behind the end of the ring, both the slots and the bytes run out, positions wrap
several times.  In the frame mode two slots of each kind and a ring of 4 or 5 cells
let either fifo fill up while the other is empty, and pictures span two streams.
`MaxInvalid` (1 MB in the code, in a ring of several) is 2 cells in `frame_avc`, so
that pictures that grow too large occur; in `frame_hevc` it is the whole ring, which
excludes the state described with the streams' deviations below.  The queue has 3 places instead of 32:
never more are used, which `ThreadInv` proves.

In `engine` the first decoder decodes and reopens, the second does one of these, the
third comes and goes: two are inside a call while the third opens or closes the last
reference.  The streams of `h264` and `h265` have groups of four or five pictures,
two or three groups long, which fill the DPB, wrap the order counts (16) and the
sequence numbers (4) and seek across a group; the fault may hit any picture.  H.264
has four slots for two references, H.265 four for a picture and its references and
two for reordering, which are the least the code allocates; the H.265 sequence
counter counts modulo 5 (256), one more than one access unit can raise it by.  VP9 has two reference slots (8 in the code), 4 buffers
(10) that may grow to 5 (16), and two contexts (4).

The tables are checked over bounded inputs: four sizes of pictures, pools of one to
three frames, all formats and alignments; conversions of pictures no multiple of a
tile, rotations of even sizes; H.264 sets with five codings of lists in any
combination, headers of 8 to 24 bits, lists of 1 to 32 references; H.265 payloads of
up to five bytes at every place of the ring, every tiling of pictures up to 5 by 3
CTBs, every cut of 4 by 3 CTBs into slices of whole tiles, six codings of lists in
either set, lists of 1 to 16 references; VP9 codes and probabilities in full, bool
decoders of two bytes, pictures of up to a dozen superblocks either way.

*Fairness.*  A thread that has entered a call leaves it (weak fairness: the code
between locks always terminates).  The decoder takes what there is, as
`DecodeVideoStream` is called in a loop, and gives it back in the end (strong
fairness: it may put it back several times first, `SbmReturnStream`); the render
gives back what it has shown.  Calls that compete for the frame buffer manager's
mutex get it in the end (strong fairness); in `VideoEngine` weak fairness is enough,
since callers make boundedly many calls.  Nothing is assumed of how often the player
submits, flushes, resets or destroys.  For H.264 and H.265 no liveness is stated:
`NeverStarved` is its safety form, `AllShown` what has happened at the end.

*What the violations show.*  Each is a place where the code does something a
comment, a message or an assertion of the repository excludes; `PROJECT.json`
quotes it.

1. `frame_staleeos`: `nEosFlag` survives a reset; pictures of the new stream are
   cut off wherever the detector runs short of data.
2. `engine_failedopen`: after a failed open of the allocator,
   `DestroyVideoDecoder` closes it all the same and drops the reference of another
   decoder.
3. `h265_lostkey`: a missing reference with order count 0 is taken for a lost key
   picture, and all pictures are given up while the reference lists are being filled;
   what is in them already stays, without a buffer or as the very picture decoded.
4. `vp9_repeats`: a frame that is only shown again adds a reference to its own buffer
   and takes one from the buffer output last, which may so enter the ring of free
   buffers while a slot refers to it; later pictures are decoded into that reference.
   What is said of VP9 is therefore said of streams, or parts of streams, without such
   frames (`repeated`).

*Deviations met while modelling* that no run is spent on; the models have them, and
the properties are stated around them.

- Frame buffers: a frame that the decoder returns while a release is pending goes to
  the release queue although the render still shows it, and later reaches the empty
  queue with `bUsedByRender` set (`fbm.c:597`, against the comment at `fbm.c:484`).
  A second release finds it there, marks it, and when the render returns it, it enters
  the release queue while it is still in the empty one: the decoder may be given a
  buffer that is on its way back to the window system (see `FbmProofs`).
  The chroma planes of NV12 pictures get the size of 4:4:4; a failed allocation of
  metadata leaks the picture (`fbm.c:1419`).  P010 pictures, one block, are freed at
  their chroma plane as well (`fbm.c:1280`, `:1558`).  `GetBufferSize` rounds the lines
  of tiles to 32, the layout to 64 (`videoengine.c:720`, `fbm.c:1461`); it pads no line
  of four bytes a pixel, and knows neither NV12 nor P010.
- Streams: a frame whose last part never came is added when the next first part
  arrives (`vdecoder.c:1200`, against `sbmStream.c:460`).  `disposeInvalidStreamData`
  puts out a picture that has grown too large without clearing
  `bCurFrameStartCodeFound`; the next one is put out as valid without a NAL unit
  (`sbmFrameH264.c:483`).  What follows the last H.265 picture, a parameter set say,
  is never put out (`sbmFrameH265.c:564`), so the ring keeps it.
- Engine: after a failed open two decoders may wait for each other: one makes the
  allocator's context anew, holds `g_mutex_alloc` and waits in `VeSetSpeed` for
  `lock_vdec`, whose holder waits for `g_mutex_alloc`.  `CallsReturn` excludes it.  A
  codec whose initialisation fails in a reopen leaves a freed context behind; that of
  H.265 loses its memory.
- H.264: `nPocType` of the context is never assigned (`h264_dec.h:409`), so that type
  1 uses the formula of type 2.  `H264ReferenceRefresh` keeps long-term pictures with
  an index not below `nLongRefCount` (`h264_mmco.c:140`, against `:998`).  With the
  least number of buffers a lost IDR makes the decoder wait for ever; the run has one
  more, as the code allocates.  `bDropBFrame` of a picture flushed by a seek keeps its
  slot (`h264_nalu.c:1506`); a hole in `pDelayedPic` may strand pictures.  Later slices
  of a picture are decoded with the lists of the first (`h264_hal.c:1168`).  The entry
  of a second field that refers to its first one loses that one's order count.
  Scaling lists of profile 110 are not used (`h264_hal.c:1132`).
- H.265: a picture's first slice is lost, and the others come in the access unit of the
  key picture before it.  When they are skipped, because only key pictures are played
  or because the first one has just been found, each takes out the time stamp of the
  access unit (`nLastPts`, `h265.c:2856`), which is the key picture's own: it waits in
  the DPB without one (against `h265.c:2715`) and is displayed with another one or with
  0.  `ShownAsCoded` states what is left: in playback of all pictures only the first
  one, of the stream or after a seek, can lose its stamp in this way; where only key pictures are played
  it says nothing of stamps after this fault.
  A garbled slice header before the first parameter set in use stops the
  decoder until a seek (`h265.c:2633`, against its comment).  `nLastDispPoc`,
  `nPocTid0`, `nMaxRa` and `bIsFirstPicture` survive a reset.  The first picture is
  displayed at once, before those that lead it.  A reference is looked for without
  regard to its marking and falls back to its least significant bits.  Sets with
  predicted scaling lists only are taken for default ones.  A picture lost on the way
  leaves those that refer to it without a mark (`h265_ref.c:192`): they are displayed
  although error frames are not asked for (against `:1121`).  Wavefronts with tiles
  count their entries from one (`h265_register.c:1690`); without tiles the table is
  not used.
- VP9: the code of a probability change allows one value (254) that gives 0 or 256,
  which no encoder writes; the bool decoder reports the end of the stream when the
  last byte is used up though nothing more is needed; `num_tile_rows` beyond the
  picture is left to the engine.
- Rotation: cropping offsets of rotated pictures are worked out from the top offset;
  a rotation by 270 degrees never sets `pData1`; a rotation to NV12 from another
  format uses the picture before the conversion.

## 4. What is proved

The proofs hold for every value of the constants that the `ASSUME`s allow.

`FbmProofs`, for pools with their own buffers (`~bUseGpuBuf`) of any size:
types, `FramesAccounted`, `CountersExact`, `NoInvalidStatus`, and that `Fbm`
implements `PictureQueue`.  The invariant is the conjunction of these with
`OwnBuffers` (no release ever starts), `HoldersKnown` (the flags of a frame say
which threads have a pointer to it) and `SharedOnce` (what the decoder has shared
and not returned is what the display knows of).  They are needed because a return
looks only at the flags: without the link to the holders it might take away a
frame in use.  The counters need cardinalities of the sets behind the flags.

`VideoStreamProofs`, for every ring, fifo and request size: types,
`PositionsAgree`, `NoAbort`, `RingLayout`, `DroppedOnlyWithoutSlot`,
`WritesOnlyFree`.  The invariant adds `GrantOK`: what was granted, together with
the parts that wait, still fits into the free bytes behind `pWriteAddr`, since
the decoder can only free more.  The layout is an arithmetic fact about distances
around the ring, and most of the lemmas are about them.

The second part of `FbmProofs`, for pools with buffers of the window system too: types and
`EmptyNumCovers` whatever happens; `ReleaseSafe` and the refinement of `PictureQueue`
through one release (`FirstReleaseSafe`, `FirstReleaseRefines`); and all of it, with
`NoInvalidStatus` and `CountersExact`, through any number of releases if the decoder
returns no frame during a release that the render has taken and not given back
(`TidyReleases`, `TidyRefines`).  That condition is what the second release breaks, so
the two theorems say what that deviation (section 3) costs and no more.  The invariant
`Sound` says where each frame is linked (`LinkedOnce`), that the decoder's pointers are
those of `bUsedByDecoder` (`DecoderKnown`), that a shared frame is known to the display
once, that flags and queues agree (`FlagsAgree`), that only a frame being released is
marked (`ReleaseMarked`) and that a frame without a buffer is used by nobody;
`Untangled`, which the second release breaks, that no frame the render shows is in the
empty or release queue.

The third part: `PicturesLaid`, for every size and format of picture, every alignment
that is none or whole macroblocks and every number of frames (`PicturesStayLaid`).  It
needs no invariant, as the layout is a function of these.  A padded luma is a multiple
of four (`Plane`), so the quarter that `FbmAllocatePictureBuffer` gives a chroma plane
and the three halves behind which `FbmCreateBuffer` looks for the lower two bits are
exact.  The second computation never gives more than the first lays out, and the same
exactly where both pad alike (`PaddedAlike`): 32 lines of tiles are at most 64, a line
that is not padded at most one that is, and without an alignment the lower bits are
looked for behind a luma that is not padded.  `MemoryFreed` has every allocation fail,
and states the two exceptions of the code as sets: what stays (`Lost`) and what is freed
inside a block.  Sizes are numbers without a bound; the theorem says what the code does
as long as they fit its `int`.

The second part of `VideoStreamProofs`, on top of it: `VideoStream` implements `StreamQueue`, for every
ring and fifo.  The frames that wait and the ones taken are read off the slots between
the positions, element by element, and every call is a put, a take, a put back, a
discard, a clear or a stutter.  It needs that positions and counters agree, and
that a part which waits for the rest of its frame has a stamp (`StampKnown`).

`SbmThreadProofs`, for every queue with at least three places: types,
`PostsSucceed`, `ReadAlive`, `ResetCarriedOut`.  The invariant `ThreadInv` lists,
for every pair of control points, which messages can be waiting (at most two READs
and one request), and that the semaphore counts them once both halves of a post
are done.  Neither half is inductive alone: between the two halves of the
reset's post the thread could otherwise take a READ nobody has signalled.

`SbmFrameProofs`: the frame mode implements `SbmThread`, hence inherits
`PostsSucceed` and `ReadAlive`; and, for streams, rings and fifos of any size, its own
`FifosSound` and `BytesAccounted`.  `FrameInv` says which positions and counters of
both fifos go together, who has which slot (the parser's granted stream, the
detector's stream and picture, the decoder's picture) and what the detector has at
each of its points: a reset that finds it in the middle of a stream is where this is
needed.  `Layout` says where everything lies: there are functions that give, for
every picture and every stream in the fifos, the bytes in front of it, so that
addresses follow one another from `FirstAddr` and the last sum is `nValidDataSize`.
`BytesAccounted` adds the bytes up recursively; that its sums are those functions is an
argument about the least place where they would differ (`LeastNumber`).
`PicturesWhole` is proved on condition that no picture which has begun is disposed of
for its size (`FramePicturesWhole`): section 3 says what happens then.  The condition
cannot be dropped: in the code `MaxInvalid` is 1 MB, and the ring from 1 to 32 MB.  In
the run `frame_hevc` `MaxInvalid` is not less than the ring and the condition always met.

`VideoEngineProofs`, for any number of decoders of any formats and any one failing
operation: types, `EngineMine`, `CountsExact`, `MemoryThere`.  The invariant says, for
each point of a thread, what it holds there: the locks (`LocksHeld`), the mode of the
engine (`ModeKept`), the VE context (`ContextAt`), engine, allocator and codec
(`EngineAt`), its blocks (`BlocksAt`), the display's pool (`PoolAt`) and the allocator's
reference (`OpenedAt`).  A step changes only what its own thread holds (`StepOthers`),
so each of these is one lemma about the thread that steps.  The counts are
cardinalities of the sets of threads that hold a context, and change by one with them.
What concerns the allocator (`AllocatorSound`) is claimed until an open has failed, as
the run `engine_failedopen` shows it must.

`Vp9Proofs`, for any number of reference slots and of buffers and for every stream:
types and `CountsKept`.  `Held` is what every operation of the queue keeps: the ring
holds the buffers with the count 0, each once (`RingSound`), a count is the number of
slots that hold the buffer and one for a picture in the making (`SlotsCounted`), and
the pool grows only by buffers a bus error has left behind (`Grown`).  From it follows
what the code never looks at: an empty ring gives its caller nothing, because the
place at its head holds a buffer in use.  A frame updates its slots one after the
other, so `Held` is proved of each turn and carried through the loop
(`UpdateRefReaches`, an argument about the least turn that fails); then exactly one
of the two places that give the picture's own reference back is reached.  `Primed`
is for `RunsOn`: until a picture fails, either every slot holds a decoded picture or
the next frame is a key frame.  Assumed are more buffers than slots (in the code 10
and 8), streams that begin with a key frame, and a reference in every predicted frame
(`StreamAssumption`).

The second part of `Vp9Proofs`: `DecodedAsCoded`, for the same constants and any number
of contexts.  The decoder is run beside the encoder.  `Encoders` gives the encoder's
memories after each frame of a stream, counted up (`Loop` says what a function so
defined is); `EncoderNext` that the next frame of the unit, or the first of the next
one, begins where this one ended; `CodedIs` that what a frame reads according to
`CodedReads` is read from there.  The invariant `StepInv` says that the decoder
remembers what the encoder does (`InStep`): before a header, all of it (`Remembers`);
between the header and the picture, what the header left (`HasRead`), part of it in the
fields of the header and part in the memories.  A key frame needs none of it, which is
why the decoder falls into step with the encoder after an error or a seek.  A slot
that is not refreshed keeps its picture because the buffer given to the new one is in
no slot: that is `Held` of the first part (`GetRefFrmHeld`), and it is where a frame
shown again breaks the argument.  Assumed in addition is that an intra-only frame is
hidden (the header has its bit in hidden frames only): the core takes a shown one for
an inter frame.

The third part: `ShownAsCoded`.  `GivenInv` says that, until a picture is hurt, the
pictures the player has taken and those that wait for it are, in order, the frames
shown from the unit it started at on, before the frame at hand (`ShownBefore`).  One
picture adds one frame to both sides or none to either, whether it ends its unit or
not (`ShownNext`); taking a picture moves it from one half to the other; a seek
empties both.  A superframe's hidden frame is not given away because what the header
says of the picture is what the frame has (`ShowsAsCoded`), and the first picture after
a seek is the key frame the seek went to.  `OutputAsCoded` needs no assumption of its
own.  `PtsInStep` holds under a hypothesis, `StampsSpaced`: a frame lasts, and the units
of a stream are no closer than frames are long.  The code cannot do without it: where a
unit's time stamp is not later than the last picture's it puts the next one a
`Duration` after that, so the stamps of a stream that is faster than its `nFrameRate`
run away from it without bound, and with a frame rate above 1000 `1000 / nFrameRate`
is 0 and they stand still.  The streams of `MC_Vp9` satisfy it (`MCStampsSpaced`).  The
invariant `StampInv` holds after errors and seeks too: the time stamp of the picture
decoded last is ahead of its unit by at most one frame for each one that came on top of
one per unit, and of the unit after it by at most as much, as that is a frame later.

`H265Proofs`, for any number of buffers, any stream whose pictures fit (`SetFits`),
every fault, and any number of seeks and late pictures: `BuffersKept`, that is the
types, `BuffersOwned` and `NeverStarved`.  The code has several loops (over the
reference sets of a slice, the pictures that are output, the NAL units of an access
unit); `Loop` proves once, for a fold over a sequence, that an invariant of the turns
holds at the end (`TurnsReach`), and each loop is an instance of it.  The proof goes
from the inside out.  `After` says what any function of `h265_ref.c` may do to the
pictures without a new one: take marks, buffers and waiting pictures away, hand
pictures to the display, never more.  `Lags` bounds how far the sequence that is
decoded is ahead of the one that is output: by three within an access unit (a picture
and two ends of a sequence, when the head of one is lost), by four with the first
parameter sets.  Were it more than `SeqModulus`, a picture would wait for ever and its
buffer with it; four is why the assumption is `SeqModulus > 4`.  `NeverStarved` needs
more: a picture starts when the buffers of its references and of at most
`nMaxNumReoderPics` pictures that wait are the only ones held (`FewWait`).  A garbled
header leaves the reference sets of the picture before, or, after an IDR or a reset,
none, and then `HevcSetNewRef` gives up nothing; so the invariant `Kept` has `FewAhead`:
as long as the garbled slice is still to come and the header says nothing of
references, few buffers are held.  `StreamOK` is what the argument needs of an access
unit (at most one first slice, two ends of a sequence, a garbled slice only in a whole
picture); that the encoder's stream with any fault in it is made of these
(`StreamIs`) is a case for each kind of fault.

Only model-checked: all liveness and whatever speaks of `ENABLED` (beyond the
prover); the placing of samples in a picture, the entropy decoder and tiles of VP9 and
the tables of H.264 and H.265, which compare recursively defined functions of data;
references, buffers and output of H.264, and the references and output of H.265.  The
last compare with what `MC_H264` and `MC_H265` make of a stream by the rules of the
standards, with recursive operators, which the prover does not take.

## 5. What is not modelled

- The bits of headers (start codes, Exp-Golomb codes), and registers that carry one
  field of a header unchanged: functions of bits without shared state.  Where a field
  decides something, the models have the field.
- Checksums and dumps, the driver self test, `CdcSysinfo.c`: nothing depends on them.
- The `ioctl`s of drivers and of ION: external; the models have what they may return.
- The pool shared by two 3D streams (`pMajorDispFrame`), the second view of MVC, the
  second output and scaling down of the engine, compressed reference pictures.
- The stream mode of `h265.c`, which nothing calls, and the memory program behind
  `ENABLE_NEW_MEMORY_OPTIMIZATION_PROGRAM`, which is 0.
- Of `vdecoder.c`: configuration, thumbnail and speed modes; of VP9 too, where a
  thumbnail has one frame buffer (`vp9Hw_dec.c:639`).
- The sign biases that `Vp9ResetDecoder` clears (`vp9hwd_decoder.c:48`): every frame
  that is predicted from others reads them from its own header.
- A change of resolution in VP9 (the frame buffer manager's frames keep the old size),
  and superframes of other than two frames, which end in `abort()`
  (`Vp9ProcessDataLength`).
- Failing `malloc`s, except where the code allocates pictures.

## 6. Plan

1. Done: frame buffers, stream buffers in both modes, the engine and what decoders
   share, the three codecs, the tables they hand to the chip, picture memory.
2. Done: proofs about the frame buffers and their release, both stream modes, the
   frames in order (`StreamQueue`), the engine, all of the VP9 decoder that is safety
   but its arithmetic, the buffers of H.265.
3. `BuffersKept` of H.264 in the manner of `H265Proofs`.
4. The 3D pool of `Fbm`.
5. Composition of a codec with `SbmFrame` and `Fbm` in place of its own small player.
