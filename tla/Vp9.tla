-------------------------------- MODULE Vp9 ---------------------------------
(***************************************************************************)
(* The VP9 decoder (vp9Hw.c, vp9Hw_dec.c) and the parts of its core that   *)
(* keep state from frame to frame: the reference buffers and their queue,  *)
(* the entropy contexts, the segment maps, the output (vp9Hw_core).        *)
(*                                                                         *)
(* A call of Vp9HwDecoderDecode is PrepareData, DecodeHeader and           *)
(* RunPicture, one after the other (busy); it ends earlier when the frame  *)
(* buffer manager has no frame, and the next call goes on at nDecStep.     *)
(* The player takes displayed frames and gives them back at any time, and  *)
(* seeks between two calls.                                                *)
(***************************************************************************)
EXTENDS Vp9Stream

CONSTANTS
    FbmFrames,   \* VP9HW_INI_FBM_NUM
    Duration,    \* 1000 / nFrameRate * 1000
    Outcomes,    \* what the video engine may make of a picture
    MaxFaults,   \* pictures that do not come out as "ready"
    MaxResets    \* seeks of the player

ASSUME Vp9Assumption ==
    /\ FbmFrames \in Nat \ {0} /\ Duration \in Nat
    /\ Outcomes \subseteq {"ready", "error", "bus", "late"}
    /\ MaxFaults \in Nat /\ MaxResets \in Nat

VARIABLES
    stream, next, \* the stream played, the unit delivered next
    unit,         \* curStreamData: the unit at hand, or 0
    nFrameNums,   \* frames of it still to decode
    nDecStep,
    busy,         \* a call of Decode is under way
    h,            \* struct Vp9Decoder: the header, and fields left from before
    q,            \* bq
    pool,         \* per buffer: its picture, its motion, its picture_info
    prev_out_buffer_i,
    entropy, entropy_last,
    segment_map, active_segment_map,
    pts,          \* CurFramePts and PreFramePts
    pic_number,   \* 1 for the first picture, 2 for the others
    fbm,          \* the frames: free, displayed, with the player, lost
    halted,       \* "no", or how the process ended
    faults, resets,
    g             \* what happened: see Ghost

decVars == <<unit, nFrameNums, nDecStep, busy>>
coreVars == <<h, q, pool, prev_out_buffer_i, entropy, entropy_last,
              segment_map, active_segment_map, pic_number>>
vars == <<stream, next, decVars, coreVars, pts, fbm, halted, faults, resets, g>>

Id == <<unit, Len(Streams[stream][unit].frames) - nFrameNums + 1>>

----------------------------------------------------------------------------
(* The header. *)

NewHeader ==
    [key_frame |-> FALSE, show_frame |-> FALSE, intra_only |-> FALSE,
     error_resilient |-> FALSE, show_existing_frame |-> FALSE,
     reset_frame_flags |-> FALSE, refresh_frame_flags |-> {},
     active_ref_idx |-> <<0>>, refresh_entropy_probs |-> FALSE,
     frame_context_idx |-> 0, reset_frame_context |-> 0,
     segment |-> "off", features |-> Nothing,
     filter |-> "off", deltas |-> Nothing,
     prev_is_key_frame |-> FALSE, prev_show_frame |-> FALSE,
     pic_callback_arg |-> [index |-> 0, show_frame |-> FALSE]]

\* The buffer an inter frame takes its size from (SetupFrameSizeWithRefs).
SizeBuffer(f) == Vp9BufferQueueGetRef(q, f.refs[1])

\* The frame has no reference in that slot: the header is given up half way.
LacksRef(f) == f.kind = "inter" /\ SizeBuffer(f) = REFERENCE_NOT_SET

\* The reference has no picture_info, or one of another size: abort().
SizeUnknown(f) ==
    f.kind = "inter" /\ ~LacksRef(f) /\ ~pool[SizeBuffer(f)].info

\* intra_only is read in hidden frames only, and not touched by key frames.
IntraOnly(d, f) ==
    IF f.kind = "key" THEN d.intra_only ELSE ~f.show /\ f.kind = "intra"

Vp9Resets(d, f) == f.kind = "key" \/ f.resilient \/ IntraOnly(d, f)

\* The start of Vp9DecodeHeaders: what is kept of the frame before.
Previous(d, f) ==
    [d EXCEPT !.prev_is_key_frame = d.key_frame,
              !.prev_show_frame = d.show_frame]

\* Vp9DecodeFrameTag, as far as the fields of a key frame...
KeyTag(e, f) ==
    [e EXCEPT !.key_frame = TRUE, !.show_frame = f.show,
              !.error_resilient = f.resilient, !.reset_frame_flags = TRUE,
              !.refresh_frame_flags = RefSlots, !.active_ref_idx = <<0>>]

\* ... and of another frame: an intra-only one leaves active_ref_idx alone.
NonKeyTag(e, f) ==
    [e EXCEPT !.key_frame = FALSE, !.show_frame = f.show,
              !.error_resilient = f.resilient, !.intra_only = IntraOnly(e, f),
              !.reset_frame_context = IF f.resilient THEN 0 ELSE f.reset,
              !.refresh_frame_flags = f.refresh,
              !.active_ref_idx = IF f.kind = "intra" THEN @ ELSE f.refs]

\* DecodeLfParams: the deltas for references and modes.
DecodeLfParams(d, f, id) ==
    IF f.filter = "update" THEN id
    ELSE IF Vp9Resets(d, f) THEN Default ELSE d.deltas

\* DecodeSegmentationData, after Vp9ResetDecoder: the features of the segments.
DecodeSegmentationData(d, f, id) ==
    IF f.segment # "off" /\ f.features THEN id
    ELSE IF Vp9Resets(d, f) THEN Default ELSE d.features

\* The rest of the tag, of every coded frame.
EndOfTag(e, d, f, id) ==
    [e EXCEPT !.refresh_entropy_probs = ~f.resilient /\ f.save,
              !.frame_context_idx = IF Vp9Resets(d, f) THEN 0 ELSE f.context,
              !.filter = f.filter, !.deltas = DecodeLfParams(d, f, id),
              !.segment = f.segment,
              !.features = DecodeSegmentationData(d, f, id)]

\* Vp9DecodeFrameTag.  Of a frame that is only shown again every other field
\* stays; a frame whose references are missing is read no further than them.
FrameTag(d, f, id) ==
    LET e == [Previous(d, f) EXCEPT !.reset_frame_flags = FALSE,
                                    !.show_existing_frame = FALSE]
    IN  IF f.kind = "existing"
        THEN [e EXCEPT !.show_existing_frame = TRUE, !.refresh_frame_flags = {}]
        ELSE IF f.kind = "key" THEN EndOfTag(KeyTag(e, f), d, f, id)
        ELSE IF LacksRef(f) THEN NonKeyTag(e, f)
        ELSE EndOfTag(NonKeyTag(e, f), d, f, id)

----------------------------------------------------------------------------
(* The entropy contexts and the segment maps. *)

\* Mutant: an intra-only frame resets every context.
ResetAll(last, d, f) ==
    IF Vp9Resets(d, f) THEN [x \in Contexts |-> Default] ELSE last

\* Vp9ResetProbs: which saved contexts take the defaults.  A key frame has not
\* read reset_frame_context.
ResetProbs(last, d, f) ==
    LET how == IF f.kind = "key" THEN d.reset_frame_context
               ELSE IF f.resilient THEN 0 ELSE f.reset
    IN  IF ~Vp9Resets(d, f) THEN last
        ELSE IF f.kind = "key" \/ f.resilient \/ how = 3
        THEN [x \in Contexts |-> Default]
        ELSE IF how = 2 THEN [last EXCEPT ![f.context] = Default]
        ELSE last

\* Vp9GetProbs.
GetProbs(last, d, f) == last[IF Vp9Resets(d, f) THEN 0 ELSE f.context]

\* Vp9StoreProbs: the adapted probabilities, for the frames that follow.
StoreProbs(last, content) ==
    IF h.refresh_entropy_probs
    THEN [last EXCEPT ![h.frame_context_idx] = content] ELSE last

\* Vp9ResetDecoder clears the segment maps...
ClearedMaps == [i \in {0, 1} |-> Default]

\* ... and the video engine writes the map that is not read.
WrittenMaps(maps, content) ==
    IF h.segment = "update"
    THEN [maps EXCEPT ![1 - active_segment_map] = content] ELSE maps

\* Vp9AsicProbUpdate: the maps change places after a frame with a new map.
NextMap == IF h.segment = "update" THEN 1 - active_segment_map
           ELSE active_segment_map

----------------------------------------------------------------------------
(* What happened, for the properties only. *)

\* used: what the last picture was decoded from.
Reading(id, clean) ==
    [frame |-> id, clean |-> clean, refs |-> <<>>, probs |-> Nothing,
     motion |-> Nothing, segments |-> Nothing, features |-> Nothing,
     deltas |-> Nothing]

\* from: the unit playback, or the last seek, started at; clean: a key frame
\* came out, and everything after it; hurt: a picture since from did not, or a
\* frame was shown again; repeated: the same, since the start; leaked: buffers
\* of pictures given up after a bus error; out: what the player has taken.
Ghost == [from |-> 1, clean |-> FALSE, hurt |-> FALSE, repeated |-> FALSE,
          leaked |-> {}, used |-> Reading(Nothing, FALSE), out |-> <<>>]

----------------------------------------------------------------------------
NewFbm == [free |-> FbmFrames, display |-> <<>>, held |-> 0, lost |-> 0]

Init ==
    /\ stream \in DOMAIN Streams /\ next = 1
    /\ unit = 0 /\ nFrameNums = 0 /\ nDecStep = "data" /\ busy = FALSE
    /\ h = NewHeader /\ q = Vp9BufferQueueInitialize
    /\ pool = [b \in Buffers |->
                  [pic |-> Nothing, motion |-> Nothing, info |-> FALSE]]
    /\ prev_out_buffer_i = 0
    /\ entropy = Nothing /\ entropy_last = [x \in Contexts |-> Nothing]
    /\ segment_map = ClearedMaps /\ active_segment_map = 0
    /\ pts = [cur |-> 0, pre |-> 0] /\ pic_number = 1 /\ fbm = NewFbm
    /\ halted = "no" /\ faults = 0 /\ resets = 0 /\ g = Ghost

\* VP9_DEC_PREPARE_DATA: the next unit.
PrepareData ==
    /\ halted = "no" /\ nDecStep = "data" /\ ~busy
    /\ next <= Len(Streams[stream])
    /\ unit' = next /\ next' = next + 1
    /\ nFrameNums' = Len(Streams[stream][next].frames)
    /\ pts' = [pts EXCEPT !.cur = Streams[stream][next].pts]
    /\ nDecStep' = "header" /\ busy' = TRUE
    /\ UNCHANGED <<stream, coreVars, fbm, halted, faults, resets, g>>

\* The reference bookkeeping of a frame that is shown again: a reference for
\* the buffer shown, and then one less for the buffer output last, for whose
\* display pic_callback_arg still stands.
ShowExisting(f) ==
    LET b == Vp9BufferQueueGetRef(q, f.index)
        added == IF b = REFERENCE_NOT_SET THEN q ELSE IncreaseRefCount(q, b)
    IN  IF h.pic_callback_arg.show_frame
        THEN DecreaseRefCount(added, h.pic_callback_arg.index) ELSE added

\* VP9_DEC_PICTURE_HERDER: Vp9DecodeHeaders, whose errors are only logged.
DecodeHeader ==
    /\ halted = "no" /\ nDecStep = "header"
    /\ LET f == FrameAt(stream, Id)
           coded == f.kind # "existing" /\ ~LacksRef(f)
       IN  /\ h' = FrameTag(h, f, Id)
           \* Vp9PicToOutput takes two pointers that its caller, who knows one
           \* argument, has not passed.
           /\ halted' \in IF SizeUnknown(f) THEN {"aborted"}
                          ELSE IF f.kind = "existing" THEN {"no", "crashed"}
                          ELSE {"no"}
           /\ q' = IF f.kind = "existing" THEN ShowExisting(f) ELSE q
           /\ IF coded
              THEN LET last == ResetProbs(entropy_last, h, f)
                   IN  /\ entropy_last' = last
                       /\ entropy' = GetProbs(last, h, f)
              ELSE UNCHANGED <<entropy, entropy_last>>
           /\ segment_map' = IF coded /\ Vp9Resets(h, f) THEN ClearedMaps
                             ELSE segment_map
           /\ g' = [g EXCEPT !.clean = f.kind = "key"
                                       \/ (@ /\ f.kind # "existing"),
                             !.hurt = @ \/ f.kind = "existing",
                             !.repeated = @ \/ f.kind = "existing"]
    /\ nDecStep' = "frame" /\ busy' = TRUE
    /\ UNCHANGED <<stream, next, unit, nFrameNums, pool, prev_out_buffer_i,
                   active_segment_map, pts, pic_number, fbm, faults, resets>>

\* VP9_DEC_PREPARE_FRAME_BUFFER without a frame: VDECODE_RESULT_NO_FRAME_BUFFER.
NoFrameBuffer ==
    /\ halted = "no" /\ nDecStep = "frame" /\ busy /\ fbm.free = 0
    /\ busy' = FALSE
    /\ UNCHANGED <<stream, next, unit, nFrameNums, nDecStep, coreVars, pts, fbm,
                   halted, faults, resets, g>>

----------------------------------------------------------------------------
(* The picture. *)

RefBuffers == [i \in DOMAIN h.active_ref_idx |->
                  Vp9BufferQueueGetRef(q, h.active_ref_idx[i])]

\* HWIF_TEMPOR_MVP_E: the motion of the picture before is used.
TemporalMvs ==
    /\ ~h.error_resilient /\ ~h.key_frame /\ ~h.prev_is_key_frame
    /\ ~h.intra_only /\ h.prev_show_frame

Inter == ~h.key_frame /\ ~h.intra_only

\* Vp9AsicSetReferenceFrames.
ReferenceFrames ==
    IF Inter THEN [i \in DOMAIN RefBuffers |-> pool[RefBuffers[i]].pic] ELSE <<>>

\* Vp9AsicSetSegmentation: the map and the features.
Segmentation ==
    IF h.segment = "off" THEN [segments |-> Nothing, features |-> Nothing]
    ELSE [segments |-> segment_map[active_segment_map],
          features |-> h.features]

\* Vp9AsicSetLoopFilter.
LoopFilter == IF h.filter = "off" THEN Nothing ELSE h.deltas

\* Vp9AsicInitPicture: what the registers point the video engine at.
Registers ==
    [frame |-> Id, clean |-> g.clean, refs |-> ReferenceFrames,
     probs |-> entropy,
     motion |-> IF TemporalMvs THEN pool[prev_out_buffer_i].motion ELSE Nothing,
     segments |-> Segmentation.segments, features |-> Segmentation.features,
     deltas |-> LoopFilter]

\* VP9CongigureDisplayParameters: a time stamp that is not later than the one
\* before, or not given, is made from it.
Stamp ==
    IF pts.cur <= 0 \/ pts.cur <= pts.pre THEN pts.pre + Duration ELSE pts.cur

\* Mutant: a hidden frame keeps its frame buffer.
KeepHidden(m, shown, entry) ==
    IF shown
    THEN [m EXCEPT !.free = @ - 1, !.display = Append(@, entry)]
    ELSE [m EXCEPT !.free = @ - 1]

\* Mutant: hidden frames are displayed like the others.
ShowAll(m, shown, entry) ==
    [m EXCEPT !.free = @ - 1, !.display = Append(@, entry)]

\* Vp9PicToOutput for a picture that was set up as shown, or as not.
Output(m, shown, entry) ==
    IF shown THEN [m EXCEPT !.free = @ - 1, !.display = Append(@, entry)] ELSE m

\* Vp9UpdateRefs, and the reference Vp9PicToOutput gives back after it.
UpdateRefs(r, out, corrupted, shown) ==
    LET reset == IF h.reset_frame_flags
                 THEN Vp9BufferQueueUpdateRef(r, RefSlots, REFERENCE_NOT_SET)
                 ELSE r
        kept == IF corrupted /\ pic_number = 1 THEN r
                ELSE Vp9BufferQueueUpdateRef(reset, h.refresh_frame_flags, out)
        dropped == IF ~h.show_frame \/ (corrupted /\ pic_number # 1)
                   THEN DecreaseRefCount(kept, out) ELSE kept
    IN  IF shown THEN DecreaseRefCount(dropped, out) ELSE dropped

\* The unit goes on with its next frame or is flushed.
FrameDone(left) ==
    /\ busy' = FALSE /\ pic_number' = 2 /\ nFrameNums' = left
    /\ IF left # 0 THEN nDecStep' = "header" /\ UNCHANGED unit
       ELSE nDecStep' = "data" /\ unit' = 0

\* VP9_DEC_PREPARE_FRAME_BUFFER to VP9_DEC_PROCESS_DEC_RESULT.
RunPicture(outcome) ==
    /\ halted = "no" /\ nDecStep = "frame" /\ fbm.free > 0
    /\ outcome # "ready" => faults < MaxFaults
    /\ faults' = IF outcome = "ready" THEN faults ELSE faults + 1
    /\ LET given == Vp9GetRefFrm(q)
           out == given.buffer
           used == Registers
           cleared == IF h.key_frame THEN ClearedMaps ELSE segment_map
           wrong == outcome # "ready" \/ ~g.clean
           content == IF wrong THEN Broken ELSE Id
           shown == h.show_existing_frame \/ h.show_frame
           corrupted == outcome = "error"
           output == outcome # "bus" /\ (~corrupted \/ pic_number = 1)
           entry == [frame |-> Id, pts |-> Stamp, content |-> content]
       IN  IF out = -1
              \/ (Inter /\ \E i \in DOMAIN RefBuffers :
                               RefBuffers[i] = REFERENCE_NOT_SET)
           THEN \* a buffer index of -1
                /\ halted' = "crashed"
                /\ UNCHANGED <<decVars, coreVars, pts, fbm, g>>
           ELSE /\ segment_map' = WrittenMaps(cleared, content)
                /\ active_segment_map' = NextMap
                /\ pool' = [pool EXCEPT
                      ![out].pic = content,
                      ![out].motion = IF h.key_frame THEN @ ELSE content,
                      ![out].info = @ \/ (output /\ ~h.show_existing_frame)]
                /\ pts' = [cur |-> Stamp, pre |-> Stamp]
                /\ fbm' = IF output THEN Output(fbm, shown, entry)
                          ELSE [fbm EXCEPT !.free = @ - 1, !.lost = @ + 1]
                /\ g' = [g EXCEPT
                      !.used = used,
                      !.clean = ~wrong, !.hurt = @ \/ outcome # "ready",
                      !.leaked = IF outcome = "bus" THEN @ \cup {out} ELSE @]
                /\ h' = [h EXCEPT
                      !.reset_frame_flags =
                          @ /\ (outcome = "bus" \/ (corrupted /\ pic_number = 1)),
                      !.pic_callback_arg =
                          [index |-> out, show_frame |-> shown]]
                /\ IF outcome = "bus"
                   THEN /\ q' = given.queue
                        /\ nDecStep' = "result" /\ busy' = FALSE
                        /\ nFrameNums' = nFrameNums - 1
                        /\ UNCHANGED <<unit, prev_out_buffer_i, entropy_last,
                                       pic_number>>
                   ELSE /\ q' = UpdateRefs(given.queue, out, corrupted,
                                           output /\ shown)
                        /\ prev_out_buffer_i' =
                               IF output THEN out ELSE prev_out_buffer_i
                        /\ entropy_last' = StoreProbs(entropy_last, content)
                        /\ FrameDone(nFrameNums - 1)
                /\ UNCHANGED <<entropy, halted>>
    /\ UNCHANGED <<stream, next, resets>>

\* The call after a bus error: the video engine does not run, so the picture
\* counts as decoded.
AfterBusError ==
    /\ halted = "no" /\ nDecStep = "result"
    /\ FrameDone(nFrameNums)
    /\ UNCHANGED <<stream, next, h, q, pool, prev_out_buffer_i, entropy,
                   entropy_last, segment_map, active_segment_map, pts, fbm,
                   halted, faults, resets, g>>

----------------------------------------------------------------------------
(* The player. *)

TakePicture ==
    /\ halted = "no" /\ fbm.display # <<>>
    /\ fbm' = [fbm EXCEPT !.display = Tail(@), !.held = @ + 1]
    /\ g' = [g EXCEPT !.out = Append(@, Head(fbm.display))]
    /\ UNCHANGED <<stream, next, decVars, coreVars, pts, halted, faults, resets>>

ReturnPicture ==
    /\ halted = "no" /\ fbm.held > 0
    /\ fbm' = [fbm EXCEPT !.held = @ - 1, !.free = @ + 1]
    /\ UNCHANGED <<stream, next, decVars, coreVars, pts, halted, faults, resets,
                   g>>

\* Vp9HwResetDecodeParams.
ResetPts(p) == [p EXCEPT !.pre = 0]

\* A seek: Vp9HwDecoderReset gives the unit back, the frame buffer manager its
\* displayed frames.  The core keeps all it has.
Seek ==
    /\ halted = "no" /\ ~busy /\ resets < MaxResets
    /\ resets' = resets + 1
    /\ \E to \in SeekPoints(stream) :
          /\ next' = to
          /\ g' = [g EXCEPT !.from = to, !.hurt = FALSE, !.out = <<>>]
    /\ unit' = 0 /\ nDecStep' = "data" /\ pts' = ResetPts(pts)
    /\ fbm' = [fbm EXCEPT !.free = @ + Len(fbm.display), !.display = <<>>]
    /\ UNCHANGED <<stream, nFrameNums, busy, coreVars, halted, faults>>

Decode == \/ PrepareData \/ DecodeHeader \/ NoFrameBuffer \/ AfterBusError
          \/ \E outcome \in Outcomes : RunPicture(outcome)

Next == Decode \/ TakePicture \/ ReturnPicture \/ Seek

\* The player's threads call Decode again and again, take pictures and give
\* them back; the video engine sometimes finishes a picture.
Spec == Init /\ [][Next]_vars /\ WF_vars(Decode) /\ WF_vars(TakePicture)
             /\ WF_vars(ReturnPicture)

----------------------------------------------------------------------------
(* Properties. *)

\* The variables hold values of the code's types, and the frame buffer
\* manager's frames are all somewhere.
TypeOK ==
    /\ stream \in DOMAIN Streams /\ next \in 1 .. Len(Streams[stream]) + 1
    /\ unit \in 0 .. Len(Streams[stream]) /\ nFrameNums \in 0 .. 2
    /\ nDecStep \in {"data", "header", "frame", "result"} /\ busy \in BOOLEAN
    /\ \A s \in RefSlots :
          q.ref_status[s] \in Buffers \cup {REFERENCE_NOT_SET}
    /\ \A i \in Places : q.nodes[i] \in Buffers
    /\ q.tail_index \in Places /\ active_segment_map \in {0, 1}
    /\ q.n_buffers \in NumBuffers .. MaxBuffers
    /\ prev_out_buffer_i \in Buffers /\ pic_number \in {1, 2}
    /\ pts.cur >= 0 /\ pts.pre >= 0
    /\ fbm.free + Len(fbm.display) + fbm.held + fbm.lost = FbmFrames
    /\ halted \in {"no", "aborted", "crashed"}
    /\ faults \in 0 .. MaxFaults /\ resets \in 0 .. MaxResets

\* What the encoder had when it coded the frame the decoder decoded last.
Coded == CodedReads[stream][g.used.frame]

\* Every picture since a key frame came out, and no frame was shown again: that
\* leaves buffers with fewer references than there are (FreeUnreferenced).
Sound == g.used.clean /\ ~g.repeated

\* From a key frame on, through hidden, unreferenced and intra-only frames and
\* whatever came before the key frame, the reference slots hold for every
\* picture those pictures the encoder predicted it from: no buffer is written
\* again while a slot still refers to it.
RefsAsCoded == Sound => g.used.refs = Coded.refs

\* A frame's probabilities start from the context the encoder took: resets by
\* key, intra-only and error resilient frames reach the contexts they name and
\* no other, and adapted probabilities are saved where the next frame looks.
ProbsAsCoded == Sound => g.used.probs = Coded.probs

\* The motion vectors of the frame before are used when the encoder used them,
\* and are still those: the buffer of a picture nobody refers to any more is
\* not given to the next one.
MotionAsCoded == Sound => g.used.motion = Coded.motion

\* A frame reads the segment map of the last frame that wrote one, whichever of
\* the two maps that is, or a cleared map after a frame that starts anew.
SegmentsAsCoded == Sound => g.used.segments = Coded.segments

\* What a header leaves to those after it, the features of the segments and the
\* deltas of the loop filter, is what the encoder had set last, and starts anew
\* with every frame that depends on no other.
HeadersAsCoded == Sound => /\ g.used.features = Coded.features
                           /\ g.used.deltas = Coded.deltas

\* Between two pictures a buffer is referred to by the slots that hold it and
\* by nothing else, the ring holds exactly the buffers without a reference, each
\* once, and the pool never grows: unless a frame was shown again, or a bus
\* error left a picture behind.
ReferencesCounted ==
    LET empty == EmptyFifo(q)
    IN  ~g.repeated /\ halted = "no" =>
            /\ \A b \in Buffers :
                  q.n_references[b] =
                      SlotCount(q, b) + (IF b \in g.leaked THEN 1 ELSE 0)
            /\ {empty[k] : k \in DOMAIN empty} =
                  {b \in 0 .. q.n_buffers - 1 : q.n_references[b] = 0}
            /\ \A j, k \in DOMAIN empty : j # k => empty[j] # empty[k]
            /\ g.leaked = {} => q.n_buffers = NumBuffers

\* "When reference count reaches 0, buffer is automatically added to the pool of
\* free buffers" (vp9hwd_buffer_queue.h), and "once picture buffer is no longer
\* referred to" only: no buffer in the ring is one of a reference slot.
FreeUnreferenced ==
    LET empty == EmptyFifo(q)
    IN  halted = "no" =>
            \A k \in DOMAIN empty : \A s \in RefSlots :
                q.ref_status[s] # empty[k]

\* The player is given every shown frame of the stream, once, in order and as it
\* was coded, from where it started on, as long as every picture comes out.
OutputAsCoded ==
    LET given == g.out \o fbm.display
        shown == ShownFrames(stream, g.from)
    IN  ~g.hurt =>
            /\ Len(given) <= Len(shown)
            /\ \A k \in DOMAIN given : /\ given[k].frame = shown[k]
                                       /\ given[k].content = shown[k]

\* A frame lasts, and units come no faster than frames: their time stamps are
\* those of a stream whose frame rate is nFrameRate, in frames per second, or
\* less.
StampsSpaced ==
    /\ Duration # 0
    /\ \A st \in DOMAIN Streams : \A u \in 2 .. Len(Streams[st]) :
          Streams[st][u].pts >= Streams[st][u - 1].pts + Duration

\* Time stamps given to the player rise, are never earlier than the unit's, and
\* run ahead of it by at most one frame time for every hidden frame played since
\* the start, or the seek, and one for a first unit without a time stamp.
PtsInStep ==
    LET given == g.out \o fbm.display
    IN  /\ \A k \in 2 .. Len(given) : given[k - 1].pts < given[k].pts
        /\ \A k \in DOMAIN given :
              LET u == given[k].frame[1]
                  ahead == given[k].pts - Streams[stream][u].pts
              IN  /\ ahead >= 0
                  /\ ahead <= Duration * (1 + ExtraFrames(stream, g.from, u))

\* The process ends only after a picture that did not come out, or a frame shown
\* again.
RunsOn == halted # "no" => faults > 0 \/ g.repeated

\* Playback comes to its end, with every picture taken: a picture is not waited
\* for in vain, unless the process ended or bus and stream errors took every
\* frame of the frame buffer manager.
EndReached ==
    <>(\/ /\ next > Len(Streams[stream]) /\ nDecStep = "data"
         /\ fbm.display = <<>>
       \/ halted # "no" \/ fbm.lost = FbmFrames)

\* A frame is decoded from the state the encoder coded it from: references,
\* probabilities, motion, segments and what headers leave behind.
DecodedAsCoded ==
    /\ RefsAsCoded /\ ProbsAsCoded /\ MotionAsCoded
    /\ SegmentsAsCoded /\ HeadersAsCoded

\* The buffers are counted right, and the decoder does not fall over them.
CountsKept == TypeOK /\ ReferencesCounted /\ RunsOn

\* What the player is given: every shown frame, once, in order and in time.
ShownAsCoded == OutputAsCoded /\ PtsInStep

=============================================================================
