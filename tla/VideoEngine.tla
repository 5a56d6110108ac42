---------------------------- MODULE VideoEngine ----------------------------
(***************************************************************************)
(* The decoders of one process and what they share: the driver of the      *)
(* video engine (ve/veAw), the driver of the VP9 core (ve/veVp9), the ion  *)
(* allocator (memory/ionMemory) and the locks that guard them.  One thread *)
(* per decoder calls the interface of vdecoder.c, which works through      *)
(* videoengine.c.  A step is what a thread does between two points where   *)
(* it may have to wait for a lock: a critical section that takes no        *)
(* further lock is one step, one that does is a step per lock.             *)
(*                                                                         *)
(* The codecs themselves are other modules; here a codec is the buffers it *)
(* allocates, the mode it needs the engine in and the time it spends in    *)
(* the engine.  The memory is behind the IOMMU: a buffer is mapped, and    *)
(* unmapped, through the driver of the engine that uses it.                *)
(***************************************************************************)
EXTENDS Naturals, FiniteSets

CONSTANTS
    Decoders,   \* the decoders of the process, a thread each
    Format,     \* Format[d]: what decoder d decodes
    Faults,     \* which operations may fail, one of them once
    MaxCalls,   \* MaxCalls[d]: how often d's thread makes or uses a decoder
    NoOne       \* the holder of a free lock

Codecs == {"H264", "H265", "VP9"}

ASSUME DecodersAssumption == IsFiniteSet(Decoders)
ASSUME FormatAssumption == Format \in [Decoders -> Codecs]
ASSUME FaultsAssumption ==
    Faults \subseteq {"veOpen", "ionOpen", "init", "sbmInit", "reopenInit"}
ASSUME MaxCallsAssumption == MaxCalls \in [Decoders -> Nat]
ASSUME NoOneAssumption == NoOne \notin Decoders

\* g_mutex_alloc, VeMutex, the mutex behind lock_vdec, gVP9Mutex.
Locks == {"alloc", "Ve", "vdec", "VP9"}

\* What a decoder allocates: the codec's working memory, the ring of its
\* stream buffer, its frame buffers; and the memory a codec has lost.
Blocks == {"codec", "sbm", "frames", "lost"}

VARIABLES
    pc,           \* where each thread is
    lock,         \* the holder of each lock, or NoOne
    nVeRefCount,  \* gVeEnvironmentInfo.nVeRefCount
    veFd,         \* whether nVeDriverFd is open
    gVP9RefCount,
    vp9Fd,        \* whether gVP9DriverFd is open
    mode,         \* the engine's VE_MODE_SELECT; "off" is mode 7
    context,      \* whether g_alloc_context is not NULL
    ref_cnt,      \* g_alloc_context->ref_cnt
    list,         \* g_alloc_context->list, as <<decoder, block>> pairs
    ve,           \* the VE context a decoder holds (pVeOpsSelf)
    memops,       \* p->memops is set: DestroyVideoDecoder will close it
    opened,       \* history: CdcMemOpen succeeded and was not closed yet
    engine,       \* p->pVideoEngine is not NULL
    decoder,      \* what pDecoderInterface points to
    pFbm,         \* the display's p->pFbm[0]
    calls,        \* calls made
    fault         \* history: the fault that has happened, or "none"

veVars  == <<nVeRefCount, veFd, mode>>
vp9Vars == <<gVP9RefCount, vp9Fd>>
memVars == <<context, ref_cnt, list, opened>>
decVars == <<memops, engine, decoder, pFbm>>
vars == <<pc, lock, veVars, vp9Vars, memVars, decVars, ve, calls, fault>>

\* The lock of veOpsS->lock: lockDecoder takes decMutex (the H6 has neither a
\* lock of its own for the encoder nor for the jpeg decoder), Vp9Lock the one
\* gVP9Mutex.
DecLock(d) == IF Format[d] = "VP9" THEN "VP9" ELSE "vdec"

\* The points inside enableVe ... disableVe.
Section ==
    {"init", "initDone", "initBad", "setSbm", "decode", "hw", "reset",
     "reopenFree", "reopenInit", "reopenDone", "reopenBad",
     "destroy", "destroySbm", "destroyDone"}

Points == Section \cup
    {"none", "created", "veInit", "veFreq", "veFail", "memRelease",
     "ionOpen", "vp9Release", "vp9Init", "engCreate", "sbmInit", "sbmReady",
     "ready", "failed", "dangling", "release", "releaseBad", "memClose",
     "crashed"}

TypeOK ==
    /\ pc \in [Decoders -> Points]
    /\ lock \in [Locks -> Decoders \cup {NoOne}]
    /\ nVeRefCount \in Nat /\ gVP9RefCount \in Nat /\ ref_cnt \in Nat
    /\ veFd \in BOOLEAN /\ vp9Fd \in BOOLEAN /\ context \in BOOLEAN
    /\ mode \in Codecs \cup {"off"}
    /\ list \subseteq Decoders \X Blocks
    /\ ve \in [Decoders -> {"none", "normal", "vp9"}]
    /\ memops \in [Decoders -> BOOLEAN]
    /\ opened \in [Decoders -> BOOLEAN]
    /\ engine \in [Decoders -> BOOLEAN]
    /\ decoder \in [Decoders -> {"none", "live", "freed"}]
    /\ pFbm \in [Decoders -> {"null", "live", "stale"}]
    /\ calls \in [Decoders -> Nat]
    /\ fault \in Faults \cup {"none"}

Init ==
    /\ pc = [d \in Decoders |-> "none"]
    /\ lock = [l \in Locks |-> NoOne]
    /\ nVeRefCount = 0 /\ veFd = FALSE /\ mode = "off"
    /\ gVP9RefCount = 0 /\ vp9Fd = FALSE
    /\ context = FALSE /\ ref_cnt = 0 /\ list = {}
    /\ ve = [d \in Decoders |-> "none"]
    /\ memops = [d \in Decoders |-> FALSE]
    /\ opened = [d \in Decoders |-> FALSE]
    /\ engine = [d \in Decoders |-> FALSE]
    /\ decoder = [d \in Decoders |-> "none"]
    /\ pFbm = [d \in Decoders |-> "null"]
    /\ calls = [d \in Decoders |-> 0]
    /\ fault = "none"

-----------------------------------------------------------------------------
(* Helpers of the steps. *)

At(d, point) == pc[d] = point
Goto(d, point) == pc' = [pc EXCEPT ![d] = point]
Free(l) == lock[l] = NoOne
Take(d, l) == Free(l) /\ lock' = [lock EXCEPT ![l] = d]
Drop(l) == lock' = [lock EXCEPT ![l] = NoOne]
Has(d) == {b \in Blocks : <<d, b>> \in list}
Palloc(d, b) == Free("alloc") /\ list' = list \cup {<<d, b>>}
Pfree(d, bs) == Free("alloc") /\ list' = list \ ({d} \X bs)

\* One operation of a behaviour may fail, which bounds the state space.
Fault(f) == f \in Faults /\ fault = "none" /\ fault' = f

\* ion_alloc_open is on the way: VeInitialize runs under g_mutex_alloc.
InMemOpen(d) == lock["alloc"] = d

-----------------------------------------------------------------------------
(* Starting a decoder: CreateVideoDecoder and InitializeVideoDecoder. *)

\* CreateVideoDecoder.
CreateVideoDecoder(d) ==
    /\ At(d, "none") /\ calls[d] < MaxCalls[d]
    /\ Goto(d, "created") /\ calls' = [calls EXCEPT ![d] = @ + 1]
    /\ UNCHANGED <<lock, veVars, vp9Vars, memVars, decVars, ve, fault>>

\* Mutant of MemOpen: an open that finds the context is not counted.
MemOpenUncounted(d) ==
    /\ At(d, "created")
    /\ memops' = [memops EXCEPT ![d] = TRUE]
    /\ Goto(d, "veInit")
    /\ \/ /\ context /\ Free("alloc")
          /\ opened' = [opened EXCEPT ![d] = TRUE]
          /\ UNCHANGED <<lock, context, ref_cnt>>
       \/ /\ ~context /\ Take(d, "alloc") /\ context' = TRUE
          /\ UNCHANGED <<ref_cnt, opened>>
    /\ UNCHANGED <<veVars, vp9Vars, list, engine, decoder, pFbm, ve, calls,
                   fault>>

\* InitializeVideoDecoder up to CdcMemOpen, and ion_alloc_open up to CdcVeInit:
\* the decoder that finds no context makes it, and keeps g_mutex_alloc.
MemOpen(d) ==
    /\ At(d, "created")
    /\ memops' = [memops EXCEPT ![d] = TRUE]
    /\ Goto(d, "veInit")
    /\ \/ /\ context /\ Free("alloc")
          /\ ref_cnt' = ref_cnt + 1
          /\ opened' = [opened EXCEPT ![d] = TRUE]
          /\ UNCHANGED <<lock, context>>
       \/ /\ ~context /\ Take(d, "alloc") /\ context' = TRUE
          /\ UNCHANGED <<ref_cnt, opened>>
    /\ UNCHANGED <<veVars, vp9Vars, list, engine, decoder, pFbm, ve, calls,
                   fault>>

\* VeInitialize up to VeSetSpeed: the first context opens /dev/cedar_dev.
VeInitialize(d) ==
    /\ At(d, "veInit")
    /\ \/ /\ Take(d, "Ve") /\ veFd' = TRUE /\ Goto(d, "veFreq")
          /\ UNCHANGED fault
       \/ /\ Fault("veOpen") /\ nVeRefCount = 0 /\ Free("Ve")
          /\ Goto(d, "veFail") /\ UNCHANGED <<lock, veFd>>
    /\ UNCHANGED <<nVeRefCount, mode, vp9Vars, memVars, decVars, ve, calls>>

\* VeSetSpeed, which takes and drops lock_vdec, and the end of VeInitialize.
VeSetSpeed(d) ==
    /\ At(d, "veFreq") /\ Free("vdec")
    /\ nVeRefCount' = nVeRefCount + 1
    /\ ve' = [ve EXCEPT ![d] = "normal"]
    /\ Drop("Ve")
    /\ Goto(d, IF InMemOpen(d) THEN "memRelease"
               ELSE IF Format[d] = "VP9" THEN "vp9Release" ELSE "engCreate")
    /\ UNCHANGED <<veFd, mode, vp9Vars, memVars, decVars, calls, fault>>

\* Mutant of VeRelease: every release closes the driver.
VeReleaseCloses(d) ==
    /\ Free("Ve") /\ veFd' = FALSE
    /\ nVeRefCount' = IF nVeRefCount = 0 THEN 0 ELSE nVeRefCount - 1
    /\ ve' = [ve EXCEPT ![d] = "none"]

\* VeRelease: the last context closes the driver.
VeRelease(d) ==
    /\ Free("Ve")
    /\ nVeRefCount' = IF nVeRefCount = 0 THEN 0 ELSE nVeRefCount - 1
    /\ veFd' = (veFd /\ nVeRefCount # 1)
    /\ ve' = [ve EXCEPT ![d] = "none"]

\* Vp9Release.
Vp9Release(d) ==
    /\ Free("VP9")
    /\ gVP9RefCount' = IF gVP9RefCount = 0 THEN 0 ELSE gVP9RefCount - 1
    /\ vp9Fd' = (vp9Fd /\ gVP9RefCount # 1)
    /\ ve' = [ve EXCEPT ![d] = "none"]

\* CdcVeInit has failed: ion_alloc_open and VideoEngineCreate both release
\* the context they did not get.  VeRelease(NULL) only returns when it finds
\* the count at zero; otherwise it lowers it and reads through the NULL.
VeInitFailed(d) ==
    /\ At(d, "veFail")
    /\ LET count == IF ve[d] = "vp9" THEN gVP9RefCount ELSE nVeRefCount IN
       /\ IF ve[d] = "vp9" THEN Vp9Release(d) /\ UNCHANGED veVars
                           ELSE VeRelease(d) /\ UNCHANGED <<mode, vp9Vars>>
       /\ Goto(d, IF count = 0 THEN "failed" ELSE "crashed")
    /\ IF InMemOpen(d) THEN context' = FALSE /\ Drop("alloc")
                       ELSE UNCHANGED <<context, lock>>
    /\ UNCHANGED <<ref_cnt, list, opened, decVars, calls, fault>>

\* ion_alloc_open gives back the context it took to read the offset.
MemOpenRelease(d) ==
    /\ At(d, "memRelease") /\ VeRelease(d) /\ Goto(d, "ionOpen")
    /\ UNCHANGED <<lock, mode, vp9Vars, memVars, decVars, calls, fault>>

\* The end of ion_alloc_open: /dev/ion.
IonOpen(d) ==
    /\ At(d, "ionOpen") /\ Drop("alloc")
    /\ \/ /\ ref_cnt' = 1 /\ opened' = [opened EXCEPT ![d] = TRUE]
          /\ Goto(d, "veInit") /\ UNCHANGED <<context, fault>>
       \/ /\ Fault("ionOpen") /\ context' = FALSE
          /\ Goto(d, "failed") /\ UNCHANGED <<ref_cnt, opened>>
    /\ UNCHANGED <<veVars, vp9Vars, list, decVars, ve, calls>>

\* VideoEngineCreate finds a VP9 stream: it gives the context of the video
\* engine back and takes one of the VP9 core.
Vp9Swap(d) ==
    /\ At(d, "vp9Release") /\ VeRelease(d) /\ Goto(d, "vp9Init")
    /\ UNCHANGED <<lock, mode, vp9Vars, memVars, decVars, calls, fault>>

\* Vp9Initialize.
Vp9Initialize(d) ==
    /\ At(d, "vp9Init") /\ Free("VP9")
    /\ ve' = [ve EXCEPT ![d] = "vp9"]
    /\ \/ /\ gVP9RefCount' = gVP9RefCount + 1 /\ vp9Fd' = TRUE
          /\ Goto(d, "engCreate") /\ UNCHANGED fault
       \/ /\ Fault("veOpen") /\ gVP9RefCount = 0
          /\ Goto(d, "veFail") /\ UNCHANGED vp9Vars
    /\ UNCHANGED <<lock, veVars, memVars, decVars, calls>>

-----------------------------------------------------------------------------
(* enableVe and disableVe: the decoder's turn in its engine. *)

\* CdcVeLock, CdcVeEnableVe.  The VP9 core has no mode.
EnableVe(d, next) ==
    /\ Take(d, DecLock(d)) /\ Goto(d, next)
    /\ mode' = IF DecLock(d) = "vdec" THEN Format[d] ELSE mode
    /\ UNCHANGED <<nVeRefCount, veFd>>

\* CdcVeDisableVe, CdcVeUnLock.
DisableVe(d, next) ==
    /\ Drop(DecLock(d)) /\ Goto(d, next)
    /\ mode' = IF DecLock(d) = "vdec" THEN "off" ELSE mode
    /\ UNCHANGED <<nVeRefCount, veFd>>

\* VideoEngineCreate: CreateSpecificDecoder, then lock, reset and enable.
EngineCreate(d) ==
    /\ At(d, "engCreate")
    /\ decoder' = [decoder EXCEPT ![d] = "live"]
    /\ EnableVe(d, "init")
    /\ UNCHANGED <<vp9Vars, memVars, memops, engine, pFbm, ve, calls, fault>>

\* A failing Init frees what it has, its own context included; the one of
\* h265_drv.c only returns and forgets the memory it has allocated.
InitFails(d) ==
    IF Format[d] = "H265"
    THEN Palloc(d, "lost") /\ UNCHANGED decoder
    ELSE decoder' = [decoder EXCEPT ![d] = "freed"] /\ UNCHANGED list

\* The codec's Init allocates its working memory.
CodecInit(d) ==
    /\ At(d, "init")
    /\ \/ /\ Palloc(d, "codec") /\ Goto(d, "initDone")
          /\ UNCHANGED <<decoder, fault>>
       \/ Fault("init") /\ Goto(d, "initBad") /\ InitFails(d)
    /\ UNCHANGED <<lock, veVars, vp9Vars, context, ref_cnt, opened,
                   memops, engine, pFbm, ve, calls>>

\* Mutant of EngineCreated: error_exit without disableVe.
EngineCreatedLocked(d) ==
    /\ \/ At(d, "initDone") /\ DisableVe(d, "sbmInit")
          /\ engine' = [engine EXCEPT ![d] = TRUE] /\ UNCHANGED decoder
       \/ At(d, "initBad") /\ Goto(d, "releaseBad")
          /\ UNCHANGED <<lock, veVars>>
          /\ decoder' = [decoder EXCEPT ![d] = "none"] /\ UNCHANGED engine
    /\ UNCHANGED <<vp9Vars, memVars, memops, pFbm, ve, calls, fault>>

\* VideoEngineCreate returns the engine, or goes to its error_exit.
EngineCreated(d) ==
    /\ \/ At(d, "initDone") /\ DisableVe(d, "sbmInit")
          /\ engine' = [engine EXCEPT ![d] = TRUE] /\ UNCHANGED decoder
       \/ At(d, "initBad") /\ DisableVe(d, "releaseBad")
          /\ decoder' = [decoder EXCEPT ![d] = "none"] /\ UNCHANGED engine
    /\ UNCHANGED <<vp9Vars, memVars, memops, pFbm, ve, calls, fault>>

\* CdcVeRelease at the end of VideoEngineDestroy and in error_exit.
EngineRelease(d) ==
    /\ \/ At(d, "release") /\ Goto(d, "memClose")
          /\ engine' = [engine EXCEPT ![d] = FALSE]
       \/ At(d, "releaseBad") /\ Goto(d, "failed") /\ UNCHANGED engine
    /\ IF Format[d] = "VP9" THEN Vp9Release(d) /\ UNCHANGED veVars
                            ELSE VeRelease(d) /\ UNCHANGED <<mode, vp9Vars>>
    /\ UNCHANGED <<lock, memVars, memops, decoder, pFbm, calls, fault>>

\* InitializeVideoDecoder makes the stream buffer; a SbmInit that fails is
\* undone by SbmDestroy, and the engine stays for DestroyVideoDecoder.
SbmInit(d) ==
    /\ At(d, "sbmInit")
    /\ \/ Palloc(d, "sbm") /\ Goto(d, "sbmReady") /\ UNCHANGED fault
       \/ Fault("sbmInit") /\ Goto(d, "failed") /\ UNCHANGED list
    /\ UNCHANGED <<lock, veVars, vp9Vars, context, ref_cnt, opened, decVars,
                   ve, calls>>

\* VideoEngineSetSbm, at the end of InitializeVideoDecoder and of
\* ReopenVideoEngine.
SetSbm(d) ==
    /\ \/ At(d, "sbmReady") /\ EnableVe(d, "setSbm")
       \/ At(d, "setSbm") /\ DisableVe(d, "ready")
    /\ UNCHANGED <<vp9Vars, memVars, decVars, ve, calls, fault>>

-----------------------------------------------------------------------------
(* A decoder at work. *)

Call(d, next) ==
    /\ At(d, "ready") /\ calls[d] < MaxCalls[d]
    /\ calls' = [calls EXCEPT ![d] = @ + 1]
    /\ EnableVe(d, next)

\* DecodeVideoStream, ResetVideoDecoder and ReopenVideoEngine wait for their
\* turn (VideoEngineDecode, VideoEngineReset, VideoEngineReopen).
StartCall(d) ==
    /\ \E next \in {"decode", "reset", "reopenFree"} : Call(d, next)
    /\ UNCHANGED <<vp9Vars, memVars, decVars, ve, fault>>

\* The codec's Decode up to the hardware: the first picture allocates the
\* frame buffers.
DecodeToHardware(d) ==
    /\ At(d, "decode") /\ Goto(d, "hw")
    /\ IF "frames" \in Has(d) THEN UNCHANGED list ELSE Palloc(d, "frames")
    /\ UNCHANGED <<lock, veVars, vp9Vars, context, ref_cnt, opened, decVars,
                   ve, calls, fault>>

\* CdcVeWaitInterrupt returns, at the latest by its timeout; the turn ends.
DecodeDone(d) ==
    /\ At(d, "hw") \/ At(d, "reset")
    /\ DisableVe(d, "ready")
    /\ UNCHANGED <<vp9Vars, memVars, decVars, ve, calls, fault>>

\* RequestPicture finds the pool: VideoEngineGetFbm, without any lock.
GetFbm(d) ==
    /\ At(d, "ready") /\ pFbm[d] = "null" /\ "frames" \in Has(d)
    /\ pFbm' = [pFbm EXCEPT ![d] = "live"]
    /\ UNCHANGED <<pc, lock, veVars, vp9Vars, memVars, memops, engine,
                   decoder, ve, calls, fault>>

\* Mutant of ReopenFree: the interface of the old codec is used on.
ReopenFreeOnly(d) ==
    /\ At(d, "reopenFree") /\ Pfree(d, {"codec", "frames"})
    /\ pFbm' = [pFbm EXCEPT ![d] = IF @ = "null" THEN @ ELSE "stale"]
    /\ decoder' = [decoder EXCEPT ![d] = "freed"]
    /\ Goto(d, "reopenInit")
    /\ UNCHANGED <<lock, veVars, vp9Vars, context, ref_cnt, opened, memops,
                   engine, ve, calls, fault>>

\* VideoEngineReopen destroys the codec and makes a new one; the pool goes
\* with the old one.
ReopenFree(d) ==
    /\ At(d, "reopenFree") /\ Pfree(d, {"codec", "frames"})
    /\ pFbm' = [pFbm EXCEPT ![d] = IF @ = "null" THEN @ ELSE "stale"]
    /\ decoder' = [decoder EXCEPT ![d] = "live"]
    /\ Goto(d, "reopenInit")
    /\ UNCHANGED <<lock, veVars, vp9Vars, context, ref_cnt, opened, memops,
                   engine, ve, calls, fault>>

\* VideoEngineReopen: Init of the new codec.
ReopenInit(d) ==
    /\ At(d, "reopenInit")
    /\ \/ /\ Palloc(d, "codec") /\ Goto(d, "reopenDone")
          /\ UNCHANGED <<decoder, fault>>
       \/ Fault("reopenInit") /\ Goto(d, "reopenBad") /\ InitFails(d)
    /\ UNCHANGED <<lock, veVars, vp9Vars, context, ref_cnt, opened,
                   memops, engine, pFbm, ve, calls>>

\* VideoEngineReopen returns; ReopenVideoEngine forgets the old pool and sets
\* the stream buffer again, or gives up.  Then every later call goes through
\* the context that the failed Init has freed, whose effect is undefined: the
\* model ends that thread.  Only the interface of h265_drv.c is still there.
Reopened(d) ==
    /\ \/ At(d, "reopenDone") /\ DisableVe(d, "sbmReady")
          /\ pFbm' = [pFbm EXCEPT ![d] = "null"]
       \/ At(d, "reopenBad") /\ UNCHANGED pFbm
          /\ DisableVe(d, IF decoder[d] = "live" THEN "ready" ELSE "dangling")
    /\ UNCHANGED <<vp9Vars, memVars, memops, engine, decoder, ve, calls,
                   fault>>

-----------------------------------------------------------------------------
(* The end of a decoder: DestroyVideoDecoder. *)

\* DestroyVideoDecoder, after a failed InitializeVideoDecoder or when the
\* caller has done with the decoder.  (The engine of a decoder that failed
\* early is NULL, and so may its memops be.)
DestroyVideoDecoder(d) ==
    /\ At(d, "ready") \/ At(d, "failed")
    /\ IF engine[d]
       THEN EnableVe(d, "destroy")
       ELSE Goto(d, IF memops[d] THEN "memClose" ELSE "none")
            /\ UNCHANGED <<lock, veVars>>
    /\ UNCHANGED <<vp9Vars, memVars, decVars, ve, calls, fault>>

\* VideoEngineDestroy: pDecoderInterface->Destroy ...
DestroyCodec(d) ==
    /\ At(d, "destroy") /\ Pfree(d, {"codec", "frames"})
    /\ decoder' = [decoder EXCEPT ![d] = "none"]
    /\ pFbm' = [pFbm EXCEPT ![d] = "null"]
    /\ Goto(d, "destroySbm")
    /\ UNCHANGED <<lock, veVars, vp9Vars, context, ref_cnt, opened, memops,
                   engine, ve, calls, fault>>

\* ... then SbmDestroy.
DestroySbm(d) ==
    /\ At(d, "destroySbm") /\ Pfree(d, {"sbm"}) /\ Goto(d, "destroyDone")
    /\ UNCHANGED <<lock, veVars, vp9Vars, context, ref_cnt, opened, decVars,
                   ve, calls, fault>>

\* ... and disableVe.
DestroyDone(d) ==
    /\ At(d, "destroyDone") /\ DisableVe(d, "release")
    /\ UNCHANGED <<vp9Vars, memVars, decVars, ve, calls, fault>>

\* ion_alloc_close: the last reference frees the list and the context; a
\* context that is not there is read through the NULL pointer.
MemClose(d) ==
    /\ At(d, "memClose") /\ Free("alloc")
    /\ memops' = [memops EXCEPT ![d] = FALSE]
    /\ opened' = [opened EXCEPT ![d] = FALSE]
    /\ IF context
       THEN /\ ref_cnt' = IF ref_cnt = 0 THEN 0 ELSE ref_cnt - 1
            /\ context' = (ref_cnt > 1)
            /\ list' = IF ref_cnt > 1 THEN list ELSE {}
            /\ Goto(d, "none")
       ELSE Goto(d, "crashed") /\ UNCHANGED <<ref_cnt, context, list>>
    /\ UNCHANGED <<lock, veVars, vp9Vars, engine, decoder, pFbm, ve, calls,
                   fault>>

-----------------------------------------------------------------------------
Initialize(d) ==
    \/ MemOpen(d) \/ VeInitialize(d) \/ VeSetSpeed(d) \/ VeInitFailed(d)
    \/ MemOpenRelease(d) \/ IonOpen(d) \/ Vp9Swap(d) \/ Vp9Initialize(d)
    \/ EngineCreate(d) \/ CodecInit(d) \/ EngineCreated(d)
    \/ SbmInit(d) \/ SetSbm(d)

Work(d) ==
    \/ DecodeToHardware(d) \/ DecodeDone(d)
    \/ ReopenFree(d) \/ ReopenInit(d) \/ Reopened(d)

Destroy(d) ==
    \/ DestroyCodec(d) \/ DestroySbm(d) \/ DestroyDone(d)
    \/ EngineRelease(d) \/ MemClose(d)

\* The rest of a call that has begun.
Continue(d) == Initialize(d) \/ Work(d) \/ Destroy(d)

Thread(d) ==
    \/ CreateVideoDecoder(d) \/ StartCall(d) \/ GetFbm(d)
    \/ DestroyVideoDecoder(d) \/ Continue(d)

\* A NULL pointer that is read ends the process.
Alive == \A d \in Decoders : ~At(d, "crashed")

Next == Alive /\ \E d \in Decoders : Thread(d)

\* A thread inside a call goes on as soon as the lock it waits for is free,
\* and a lock that stays free is taken.  Callers make boundedly many calls,
\* so no lock is fought for for ever and weak fairness is all this needs.
Fairness == \A d \in Decoders : WF_vars(Alive /\ Continue(d))

Spec == Init /\ [][Next]_vars
FairSpec == Spec /\ Fairness

-----------------------------------------------------------------------------
(* Safety *)

\* A decoder in its turn finds its engine open and in its own mode, and is
\* alone there, whatever the other decoders start, stop, reset or reopen in
\* between: the registers a codec writes are those of its own codec.
EngineMine ==
    Alive => \A d \in Decoders : pc[d] \in Section =>
        /\ lock[DecLock(d)] = d
        /\ IF Format[d] = "VP9" THEN vp9Fd ELSE veFd /\ mode = Format[d]

\* A VE context is an open driver: the counts are the contexts held, and a
\* driver is open exactly while one is held or being made, also after an open
\* has failed (unless the failure ends the process).
ContextsCounted ==
    Alive =>
        /\ nVeRefCount = Cardinality({d \in Decoders : ve[d] = "normal"})
        /\ gVP9RefCount = Cardinality(
               {d \in Decoders : ve[d] = "vp9" /\ ~At(d, "veFail")})
        /\ veFd <=> (nVeRefCount > 0 \/ \E d \in Decoders : At(d, "veFreq"))
        /\ vp9Fd <=> gVP9RefCount > 0

\* An open of a driver has failed.
OpenFailed == fault \in {"veOpen", "ionOpen"}

\* "reference count" (ionAlloc.c): the allocator's count is the decoders that
\* opened it, so that no decoder closes it under another.
ReferenceCount == ref_cnt = Cardinality({d \in Decoders : opened[d]})

\* This holds until an open of the allocator fails: DestroyVideoDecoder then
\* closes what was not opened.
RefCountExact == ~OpenFailed => ReferenceCount

\* "must destory by the order: pDecoderInterface, sbm, ve" (videoengine.c): a
\* block is in the allocator's list only while its decoder has the allocator
\* open and holds the context that unmaps the block; a failed open breaks
\* this for the reason above.
BlocksMapped ==
    \A d \in Decoders :
        Has(d) \ {"lost"} # {} /\ ~OpenFailed =>
            /\ context /\ opened[d]
            /\ ve[d] = IF Format[d] = "VP9" THEN "vp9" ELSE "normal"

\* A codec is only called through a live interface, across Reopen too and
\* whatever has failed.
CodecLive ==
    \A d \in Decoders :
        pc[d] \in (Section \cup {"sbmInit", "sbmReady", "ready"})
                  \ {"initBad", "reopenBad", "destroySbm", "destroyDone"} =>
            decoder[d] = "live"

\* The pool the display uses is never the one a reopen destroyed once the
\* call that destroyed it has returned, unless the reopen has failed; and its
\* memory is there.
DisplayPoolLive ==
    \A d \in Decoders :
        At(d, "ready") /\ pFbm[d] # "null" =>
            /\ fault # "reopenInit" => pFbm[d] = "live"
            /\ fault # "reopenInit" /\ ~OpenFailed => "frames" \in Has(d)

\* "well done, no ion mem leak" (ionAlloc.c): a decoder that comes to close
\* the allocator, however far it came before, has left nothing in the list
\* but what h265_drv.c has lost (and a close too many, after a failed open,
\* strips a decoder at work).
LeftEmpty ==
    \A d \in Decoders :
        At(d, "memClose") /\ ~OpenFailed => Has(d) \subseteq {"lost"}

\* The shared counts of the two drivers and of the allocator are the decoders
\* that really hold them, through every interleaving and every failure.
CountsExact == TypeOK /\ ContextsCounted /\ RefCountExact

\* What a decoder uses is there as long as it uses it, and no longer: its
\* blocks are mapped, its codec is live, the display's pool is, and
\* DestroyVideoDecoder leaves nothing behind.
MemoryThere == BlocksMapped /\ CodecLive /\ DisplayPoolLive /\ LeftEmpty

(* Liveness *)

Returned == {"none", "created", "ready", "failed", "dangling"}

\* Every call returns: no decoder waits for ever for a lock another one has
\* kept, and no two of them wait for each other.  After a failed open two may:
\* one makes the allocator's context anew, holds g_mutex_alloc and waits in
\* VeSetSpeed for lock_vdec, whose holder waits for g_mutex_alloc.
CallsReturn ==
    \A d \in Decoders :
        (pc[d] \notin Returned) ~> (pc[d] \in Returned \/ OpenFailed)
=============================================================================
