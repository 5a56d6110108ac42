-------------------------------- MODULE Fbm --------------------------------
(***************************************************************************)
(* The frame buffer manager of vdecoder/fbm.c: a pool of picture buffers   *)
(* that circulate between the decoder thread (FbmRequestBuffer,            *)
(* FbmShareBuffer, FbmReturnBuffer), the render thread (FbmRequestPicture, *)
(* FbmReturnPicture) and a control thread (FbmFlush and, in the "new       *)
(* display" mode where the buffers belong to the window system, the        *)
(* release and rebind calls).                                              *)
(*                                                                         *)
(* Every call runs under Fbm.mutex and is one action, except where the     *)
(* code lets another thread in:                                            *)
(*   - FbmShareBuffer tests bNeedRelease before it takes the mutex;        *)
(*   - FbmSetNewDispRelease takes and gives back the mutex three times.    *)
(* The two loops that drain a queue (FbmFlush, FbmNewDispRelease) take one *)
(* step per iteration, with the mutex held: readers that take no lock see  *)
(* the states in between.                                                  *)
(*                                                                         *)
(* A flag of FrameNodeFlag is the set of the frames that have it set.  The *)
(* counters no code reads (nDecoderHoldingNum, nWaitForDispNum,            *)
(* nReleaseBufferNum) are left out.                                        *)
(***************************************************************************)
EXTENDS Naturals, Sequences, FiniteSets

CONSTANTS
    nMaxFrameNum,    \* number of frame nodes of the pool
    MaxRelease       \* bound: calls of FbmSetNewDispRelease

ASSUME FbmAssumption ==
    /\ nMaxFrameNum \in Nat \ {0}
    /\ MaxRelease \in Nat

Frames == 0 .. nMaxFrameNum - 1

NULL == nMaxFrameNum     \* no frame

VARIABLES
    bUseGpuBuf,      \* the buffers come from the window system
    pEmptyBufferQueue, pValidPictureQueue, pReleaseBufferQueue,
    nEmptyBufferNum, nValidPictureNum, nRenderHoldingNum,
    bUsedByDecoder, bUsedByRender, bInValidPictureQueue,
    bAlreadyDisplayed, bNeedRelease,
    nID,             \* what vpicture.nID holds: the index, or a tag
    nValidBufNum,    \* frames bound to a window-system buffer so far
    invalidStatus,   \* a call took a "loge, abort()" path
    decHolds,        \* frames the decoder has a pointer to
    decShared,       \* the ones it has shared since it requested them
    sharing,         \* frame between the two halves of FbmShareBuffer
    renHolds,        \* frames the render has a pointer to
    ctl,             \* control point of the control thread
    nReleaseCalls    \* calls of FbmSetNewDispRelease so far

queues  == <<pEmptyBufferQueue, pValidPictureQueue, pReleaseBufferQueue>>
nums    == <<nEmptyBufferNum, nValidPictureNum, nRenderHoldingNum>>
display == <<bUsedByRender, bInValidPictureQueue, bAlreadyDisplayed>>
binding == <<bUseGpuBuf, bNeedRelease, nID, nValidBufNum, nReleaseCalls>>
clients == <<decHolds, decShared, sharing, renHolds>>

vars == <<queues, nums, bUsedByDecoder, display, binding, invalidStatus,
          clients, ctl>>

(***************************************************************************)
(* The singly linked queues.  A frame that is enqueued while it is in the  *)
(* list already becomes its last node: the walk to the tail ends with      *)
(* "p->pNext = NULL", and the nodes that followed p are cut off.           *)
(***************************************************************************)
Members(q) == {q[i] : i \in 1 .. Len(q)}

\* Mutant: the new node becomes the head, as with FbmEnqueueToHead.
FbmEnqueueAtHead(q, p) == <<p>> \o q

FbmEnqueue(q, p) ==
    IF p \in Members(q)
    THEN SubSeq(q, 1, CHOOSE i \in 1 .. Len(q) : q[i] = p)
    ELSE Append(q, p)

\* A thread is inside a loop that holds Fbm.mutex.
Locked == {"flush", "relFlush", "relDrain"}

MutexFree == ctl \notin Locked

\* One decoder thread: it makes no other call while in FbmShareBuffer.
DecoderReady == MutexFree /\ sharing = NULL

\* Mutant: FbmCreateBuffer fills the queue and forgets the counter.
InitialEmptyNumUnset == 0

\* The buffers FbmCreateBuffer puts into the empty queue.
InitialEmptyNum == IF bUseGpuBuf THEN 0 ELSE nMaxFrameNum

(***************************************************************************)
(* FbmCreateBuffer: with its own buffers every frame starts in the empty   *)
(* queue; with window-system buffers no frame is usable yet.  Who owns the *)
(* buffers is said once, when the pool is created.                         *)
(***************************************************************************)
Init ==
    /\ bUseGpuBuf \in BOOLEAN
    /\ pEmptyBufferQueue = IF bUseGpuBuf THEN <<>>
                           ELSE [i \in 1 .. nMaxFrameNum |-> i - 1]
    /\ nEmptyBufferNum = InitialEmptyNum
    /\ pValidPictureQueue = <<>> /\ nValidPictureNum = 0
    /\ pReleaseBufferQueue = <<>>
    /\ nRenderHoldingNum = 0
    /\ bUsedByDecoder = {} /\ bUsedByRender = {}
    /\ bInValidPictureQueue = {} /\ bAlreadyDisplayed = {}
    /\ bNeedRelease = {}
    /\ nID = [f \in Frames |-> "index"]
    /\ nValidBufNum = 0 /\ nReleaseCalls = 0
    /\ invalidStatus = FALSE
    /\ decHolds = {} /\ decShared = {} /\ sharing = NULL /\ renHolds = {}
    /\ ctl = "idle"

-----------------------------------------------------------------------------
(* The decoder thread. *)

FbmRequestBuffer ==
    /\ DecoderReady
    /\ pEmptyBufferQueue # <<>>
    /\ pEmptyBufferQueue' = Tail(pEmptyBufferQueue)
    /\ LET f == Head(pEmptyBufferQueue) IN
       IF f \in bUsedByDecoder \cup bInValidPictureQueue
                \cup bUsedByRender \cup bAlreadyDisplayed
       THEN /\ invalidStatus' = TRUE
            /\ UNCHANGED <<nEmptyBufferNum, bUsedByDecoder, decHolds>>
       ELSE /\ nEmptyBufferNum' = nEmptyBufferNum - 1
            /\ bUsedByDecoder' = bUsedByDecoder \cup {f}
            /\ decHolds' = decHolds \cup {f}
            /\ UNCHANGED invalidStatus
    /\ UNCHANGED <<pValidPictureQueue, pReleaseBufferQueue, nValidPictureNum,
                   nRenderHoldingNum, display, binding, decShared, sharing,
                   renHolds, ctl>>

\* The part of FbmReturnBuffer after the checks: the buffer leaves the
\* decoder and goes where its flags say.
ReturnToQueue(f, bValidPicture) ==
    LET release   == f \in bNeedRelease /\ f \notin bInValidPictureQueue
        shown     == f \in bInValidPictureQueue \cup bUsedByRender
        displayed == ~shown /\ f \in bAlreadyDisplayed
        toValid   == ~release /\ ~shown /\ ~displayed /\ bValidPicture
        toEmpty   == ~release /\ ~shown /\ ~toValid
    IN  /\ bUsedByDecoder' = bUsedByDecoder \ {f}
        /\ pReleaseBufferQueue' = IF release
                                  THEN FbmEnqueue(pReleaseBufferQueue, f)
                                  ELSE pReleaseBufferQueue
        /\ pValidPictureQueue' = IF toValid
                                 THEN FbmEnqueue(pValidPictureQueue, f)
                                 ELSE pValidPictureQueue
        /\ nValidPictureNum' = IF toValid THEN nValidPictureNum + 1
                               ELSE nValidPictureNum
        /\ bInValidPictureQueue' = IF toValid
                                   THEN bInValidPictureQueue \cup {f}
                                   ELSE bInValidPictureQueue
        /\ pEmptyBufferQueue' = IF toEmpty
                                THEN FbmEnqueue(pEmptyBufferQueue, f)
                                ELSE pEmptyBufferQueue
        /\ nEmptyBufferNum' = IF toEmpty THEN nEmptyBufferNum + 1
                              ELSE nEmptyBufferNum
        /\ bAlreadyDisplayed' = IF release \/ toEmpty
                                THEN bAlreadyDisplayed \ {f}
                                ELSE bAlreadyDisplayed
        /\ invalidStatus' = (invalidStatus \/
               (~release /\ f \in bInValidPictureQueue
                         /\ f \in bUsedByRender \cup bAlreadyDisplayed))

FbmReturnBuffer(f, bValidPicture) ==
    /\ DecoderReady
    /\ f \in decHolds
    /\ decHolds' = decHolds \ {f}
    /\ decShared' = decShared \ {f}
    /\ IF nID[f] # "index"
       THEN UNCHANGED <<queues, nEmptyBufferNum, nValidPictureNum,
                        bUsedByDecoder, bInValidPictureQueue,
                        bAlreadyDisplayed, invalidStatus>>
       ELSE IF f \notin bUsedByDecoder
       THEN /\ invalidStatus' = TRUE
            /\ UNCHANGED <<queues, nEmptyBufferNum, nValidPictureNum,
                           bUsedByDecoder, bInValidPictureQueue,
                           bAlreadyDisplayed>>
       ELSE ReturnToQueue(f, bValidPicture)
    /\ UNCHANGED <<nRenderHoldingNum, bUsedByRender, binding, sharing,
                   renHolds, ctl>>

\* FbmShareBuffer up to the lock: nID and bNeedRelease are read unlocked.
FbmShareBufferCheck(f) ==
    /\ sharing = NULL
    /\ f \in decHolds \ decShared
    /\ decShared' = decShared \cup {f}
    /\ sharing' = IF nID[f] # "index" \/ f \in bNeedRelease THEN NULL ELSE f
    /\ UNCHANGED <<queues, nums, bUsedByDecoder, display, binding,
                   invalidStatus, decHolds, renHolds, ctl>>

\* FbmShareBuffer under the lock.
FbmShareBuffer ==
    /\ MutexFree
    /\ sharing # NULL
    /\ sharing' = NULL
    /\ IF \/ sharing \notin bUsedByDecoder
          \/ sharing \in bInValidPictureQueue \cup bAlreadyDisplayed
       THEN /\ invalidStatus' = TRUE
            /\ UNCHANGED <<pValidPictureQueue, nValidPictureNum,
                           bInValidPictureQueue>>
       ELSE /\ bInValidPictureQueue' = bInValidPictureQueue \cup {sharing}
            /\ pValidPictureQueue' = FbmEnqueue(pValidPictureQueue, sharing)
            /\ nValidPictureNum' = nValidPictureNum + 1
            /\ UNCHANGED invalidStatus
    /\ UNCHANGED <<pEmptyBufferQueue, pReleaseBufferQueue, nEmptyBufferNum,
                   nRenderHoldingNum, bUsedByDecoder, bUsedByRender,
                   bAlreadyDisplayed, binding, decHolds, decShared, renHolds,
                   ctl>>

-----------------------------------------------------------------------------
(* The render thread. *)

FbmRequestPicture ==
    /\ MutexFree
    /\ pValidPictureQueue # <<>>
    /\ pValidPictureQueue' = Tail(pValidPictureQueue)
    /\ LET f == Head(pValidPictureQueue) IN
       IF \/ f \notin bInValidPictureQueue
          \/ f \in bUsedByRender \cup bAlreadyDisplayed
       THEN /\ invalidStatus' = TRUE
            /\ UNCHANGED <<nValidPictureNum, nRenderHoldingNum,
                           bInValidPictureQueue, bUsedByRender, renHolds>>
       ELSE /\ nValidPictureNum' = nValidPictureNum - 1
            /\ nRenderHoldingNum' = nRenderHoldingNum + 1
            /\ bInValidPictureQueue' = bInValidPictureQueue \ {f}
            /\ bUsedByRender' = bUsedByRender \cup {f}
            /\ renHolds' = renHolds \cup {f}
            /\ UNCHANGED invalidStatus
    /\ UNCHANGED <<pEmptyBufferQueue, pReleaseBufferQueue, nEmptyBufferNum,
                   bUsedByDecoder, bAlreadyDisplayed, binding, decHolds,
                   decShared, sharing, ctl>>

\* Mutant: the buffer is queued, nEmptyBufferNum is forgotten.
ReturnForbiddenUncounted(f) ==
    /\ pEmptyBufferQueue' = FbmEnqueue(pEmptyBufferQueue, f)
    /\ nID' = [nID EXCEPT ![f] = "index"]
    /\ UNCHANGED <<nEmptyBufferNum, invalidStatus, pReleaseBufferQueue,
                   nRenderHoldingNum, bUsedByRender, bAlreadyDisplayed>>

\* FbmReturnPicture of a frame the display was given as forbidden to use.
ReturnForbidden(f) ==
    /\ IF f \in bUsedByRender \cup bInValidPictureQueue \cup bAlreadyDisplayed
       THEN /\ invalidStatus' = TRUE
            /\ UNCHANGED <<pEmptyBufferQueue, nEmptyBufferNum, nID>>
       ELSE /\ pEmptyBufferQueue' = FbmEnqueue(pEmptyBufferQueue, f)
            /\ nEmptyBufferNum' = nEmptyBufferNum + 1
            /\ nID' = [nID EXCEPT ![f] = "index"]
            /\ UNCHANGED invalidStatus
    /\ UNCHANGED <<pReleaseBufferQueue, nRenderHoldingNum, bUsedByRender,
                   bAlreadyDisplayed>>

\* Mutants of the next definition: nobody is asked; nobody is believed.
AlwaysLastUser(f) == TRUE
NeverLastUser(f) == FALSE

\* The decoder does not refer to the picture any more.
DecoderDone(f) == f \notin bUsedByDecoder

\* FbmReturnPicture of a frame the display requested.
ReturnDisplayed(f) ==
    LET toQueue == DecoderDone(f) IN
    /\ bUsedByRender' = bUsedByRender \ {f}
    /\ nRenderHoldingNum' = nRenderHoldingNum - 1
    /\ bAlreadyDisplayed' = IF toQueue THEN bAlreadyDisplayed
                            ELSE bAlreadyDisplayed \cup {f}
    /\ IF toQueue /\ f \notin bNeedRelease
       THEN /\ pEmptyBufferQueue' = FbmEnqueue(pEmptyBufferQueue, f)
            /\ nEmptyBufferNum' = nEmptyBufferNum + 1
       ELSE UNCHANGED <<pEmptyBufferQueue, nEmptyBufferNum>>
    /\ pReleaseBufferQueue' = IF toQueue /\ f \in bNeedRelease
                              THEN FbmEnqueue(pReleaseBufferQueue, f)
                              ELSE pReleaseBufferQueue
    /\ UNCHANGED <<nID, invalidStatus>>

FbmReturnPicture(f) ==
    /\ MutexFree
    /\ f \in renHolds
    /\ renHolds' = renHolds \ {f}
    /\ IF nID[f] = "forbid"
       THEN ReturnForbidden(f)
       ELSE IF nID[f] = "release"
       THEN UNCHANGED <<pEmptyBufferQueue, pReleaseBufferQueue,
                        nEmptyBufferNum, nRenderHoldingNum, bUsedByRender,
                        bAlreadyDisplayed, nID, invalidStatus>>
       ELSE IF \/ f \notin bUsedByRender
               \/ f \in bInValidPictureQueue \cup bAlreadyDisplayed
       THEN /\ invalidStatus' = TRUE
            /\ UNCHANGED <<pEmptyBufferQueue, pReleaseBufferQueue,
                           nEmptyBufferNum, nRenderHoldingNum, bUsedByRender,
                           bAlreadyDisplayed, nID>>
       ELSE ReturnDisplayed(f)
    /\ UNCHANGED <<pValidPictureQueue, nValidPictureNum, bUsedByDecoder,
                   bInValidPictureQueue, bUseGpuBuf, bNeedRelease,
                   nValidBufNum, nReleaseCalls, decHolds, decShared,
                   sharing, ctl>>

-----------------------------------------------------------------------------
(* The control thread. *)

\* FbmFlush takes the mutex: called by ResetVideoDecoder or as the second
\* part of FbmSetNewDispRelease.
FbmFlushEnter ==
    /\ ctl \in {"idle", "relMarked"}
    /\ ctl' = IF ctl = "idle" THEN "flush" ELSE "relFlush"
    /\ UNCHANGED <<queues, nums, bUsedByDecoder, display, binding,
                   invalidStatus, clients>>

\* Where FbmFlush returns to when it gives the mutex back.
AfterFlush == IF ctl = "flush" THEN "idle" ELSE "relFlushed"

\* Mutant: a flushed picture is free, whoever refers to it.
FlushedAlwaysFree(f) == TRUE

\* A flushed picture can be decoded into at once.
FlushedIsFree(f) == f \notin bUsedByDecoder

\* Mutant: the flush forgets to count the pictures it takes away.
FlushedNumKept == nValidPictureNum

FlushedNum == nValidPictureNum - 1

\* One iteration of FbmFlush, or its end.
FbmFlush ==
    /\ ctl \in {"flush", "relFlush"}
    /\ IF pValidPictureQueue = <<>>
       THEN /\ ctl' = AfterFlush
            /\ UNCHANGED <<pEmptyBufferQueue, pValidPictureQueue,
                           nEmptyBufferNum, nValidPictureNum,
                           bInValidPictureQueue, bAlreadyDisplayed,
                           invalidStatus>>
       ELSE LET f == Head(pValidPictureQueue) IN
            /\ pValidPictureQueue' = Tail(pValidPictureQueue)
            /\ nValidPictureNum' = FlushedNum
            /\ IF f \in bUsedByRender \cup bAlreadyDisplayed
               THEN /\ invalidStatus' = TRUE
                    /\ ctl' = AfterFlush
                    /\ UNCHANGED <<pEmptyBufferQueue, nEmptyBufferNum,
                                   bInValidPictureQueue, bAlreadyDisplayed>>
               ELSE /\ bInValidPictureQueue' = bInValidPictureQueue \ {f}
                    /\ IF FlushedIsFree(f)
                       THEN /\ pEmptyBufferQueue' =
                                   FbmEnqueue(pEmptyBufferQueue, f)
                            /\ nEmptyBufferNum' = nEmptyBufferNum + 1
                            /\ UNCHANGED bAlreadyDisplayed
                       ELSE /\ bAlreadyDisplayed' = bAlreadyDisplayed \cup {f}
                            /\ UNCHANGED <<pEmptyBufferQueue,
                                           nEmptyBufferNum>>
                    /\ UNCHANGED <<invalidStatus, ctl>>
    /\ UNCHANGED <<pReleaseBufferQueue, nRenderHoldingNum, bUsedByDecoder,
                   bUsedByRender, binding, clients>>

\* A window-system buffer is bound to the next frame node.
FbmSetFbmBufAddress(bForbidUseFlag) ==
    LET f == nValidBufNum IN
    /\ bUseGpuBuf
    /\ ctl = "idle"
    /\ nValidBufNum < nMaxFrameNum
    /\ nValidBufNum' = nValidBufNum + 1
    /\ IF bForbidUseFlag
       THEN /\ nID' = [nID EXCEPT ![f] = "forbid"]
            /\ renHolds' = renHolds \cup {f}
            /\ UNCHANGED <<pEmptyBufferQueue, nEmptyBufferNum>>
       ELSE /\ pEmptyBufferQueue' = FbmEnqueue(pEmptyBufferQueue, f)
            /\ nEmptyBufferNum' = nEmptyBufferNum + 1
            /\ UNCHANGED <<nID, renHolds>>
    /\ UNCHANGED <<pValidPictureQueue, pReleaseBufferQueue, nValidPictureNum,
                   nRenderHoldingNum, bUsedByDecoder, display, bUseGpuBuf,
                   bNeedRelease, nReleaseCalls, invalidStatus, decHolds,
                   decShared, sharing, ctl>>

\* First part of FbmSetNewDispRelease: every bound frame is marked.
FbmSetNewDispRelease ==
    /\ bUseGpuBuf
    /\ ctl = "idle"
    /\ nReleaseCalls < MaxRelease
    /\ nReleaseCalls' = nReleaseCalls + 1
    /\ bNeedRelease' = bNeedRelease \cup {f \in Frames : f < nValidBufNum}
    /\ ctl' = "relMarked"
    /\ UNCHANGED <<queues, nums, bUsedByDecoder, display, bUseGpuBuf, nID,
                   nValidBufNum, invalidStatus, clients>>

\* FbmNewDispRelease, the third part, takes the mutex.
FbmNewDispReleaseEnter ==
    /\ ctl = "relFlushed"
    /\ ctl' = "relDrain"
    /\ UNCHANGED <<queues, nums, bUsedByDecoder, display, binding,
                   invalidStatus, clients>>

\* One iteration of FbmNewDispRelease, or its end.
FbmNewDispRelease ==
    /\ ctl = "relDrain"
    /\ IF pEmptyBufferQueue = <<>>
       THEN /\ ctl' = "idle"
            /\ UNCHANGED <<pEmptyBufferQueue, pReleaseBufferQueue,
                           nEmptyBufferNum, invalidStatus>>
       ELSE LET f == Head(pEmptyBufferQueue) IN
            /\ pEmptyBufferQueue' = Tail(pEmptyBufferQueue)
            /\ IF f \in bUsedByDecoder \cup bInValidPictureQueue
                        \cup bUsedByRender \cup bAlreadyDisplayed
               THEN /\ invalidStatus' = TRUE
                    /\ ctl' = "idle"
                    /\ UNCHANGED <<pReleaseBufferQueue, nEmptyBufferNum>>
               ELSE /\ nEmptyBufferNum' = nEmptyBufferNum - 1
                    /\ pReleaseBufferQueue' =
                           FbmEnqueue(pReleaseBufferQueue, f)
                    /\ UNCHANGED <<invalidStatus, ctl>>
    /\ UNCHANGED <<pValidPictureQueue, nValidPictureNum, nRenderHoldingNum,
                   bUsedByDecoder, display, binding, clients>>

FbmRequestReleasePicture ==
    /\ bUseGpuBuf
    /\ ctl = "idle"
    /\ pReleaseBufferQueue # <<>>
    /\ pReleaseBufferQueue' = Tail(pReleaseBufferQueue)
    /\ nID' = [nID EXCEPT ![Head(pReleaseBufferQueue)] = "release"]
    /\ UNCHANGED <<pEmptyBufferQueue, pValidPictureQueue, nums,
                   bUsedByDecoder, display, bUseGpuBuf, bNeedRelease,
                   nValidBufNum, nReleaseCalls, invalidStatus, clients, ctl>>

\* The nodes FbmReturnReleasePicture may bind a new buffer to.
Released == {f \in bNeedRelease : nID[f] = "release"}

\* A new buffer is bound to the released node of lowest index.
FbmReturnReleasePicture(bForbidUseFlag) ==
    /\ bUseGpuBuf
    /\ ctl = "idle"
    /\ \E f \in Released :
        /\ \A g \in Released : f <= g
        /\ bNeedRelease' = bNeedRelease \ {f}
        /\ IF bForbidUseFlag
           THEN /\ nID' = [nID EXCEPT ![f] = "forbid"]
                /\ renHolds' = renHolds \cup {f}
                /\ UNCHANGED <<pEmptyBufferQueue, nEmptyBufferNum>>
           ELSE /\ nID' = [nID EXCEPT ![f] = "index"]
                /\ pEmptyBufferQueue' = FbmEnqueue(pEmptyBufferQueue, f)
                /\ nEmptyBufferNum' = nEmptyBufferNum + 1
                /\ UNCHANGED renHolds
    /\ UNCHANGED <<pValidPictureQueue, pReleaseBufferQueue, nValidPictureNum,
                   nRenderHoldingNum, bUsedByDecoder, display, bUseGpuBuf,
                   nValidBufNum, nReleaseCalls, invalidStatus, decHolds,
                   decShared, sharing, ctl>>

-----------------------------------------------------------------------------
Decoder ==
    \/ FbmRequestBuffer
    \/ \E f \in Frames, v \in BOOLEAN : FbmReturnBuffer(f, v)
    \/ \E f \in Frames : FbmShareBufferCheck(f)
    \/ FbmShareBuffer

Render ==
    \/ FbmRequestPicture
    \/ \E f \in Frames : FbmReturnPicture(f)

Flusher == FbmFlushEnter \/ FbmFlush

Rebinder ==
    \/ \E b \in BOOLEAN : FbmSetFbmBufAddress(b)
    \/ FbmSetNewDispRelease
    \/ FbmNewDispReleaseEnter
    \/ FbmNewDispRelease
    \/ FbmRequestReleasePicture
    \/ \E b \in BOOLEAN : FbmReturnReleasePicture(b)

Next == Decoder \/ Render \/ Flusher \/ Rebinder

Spec == Init /\ [][Next]_vars

(***************************************************************************)
(* The decoder gives back every buffer it holds in the end (its reference  *)
(* list is bounded), the render takes and gives back pictures, and a       *)
(* thread that entered a call leaves it.  The calls that return something  *)
(* compete for the mutex with the others: strong fairness.                 *)
(***************************************************************************)
Fairness ==
    /\ WF_vars(FbmFlush)
    /\ SF_vars(FbmShareBuffer)
    /\ SF_vars(FbmRequestPicture)
    /\ \A f \in Frames :
        /\ SF_vars(\E v \in BOOLEAN : FbmReturnBuffer(f, v))
        /\ SF_vars(FbmReturnPicture(f))

FairSpec == Spec /\ Fairness

-----------------------------------------------------------------------------
\* Types of all variables.
TypeOK ==
    /\ bUseGpuBuf \in BOOLEAN
    /\ pEmptyBufferQueue \in Seq(Frames)
    /\ pValidPictureQueue \in Seq(Frames)
    /\ pReleaseBufferQueue \in Seq(Frames)
    /\ nEmptyBufferNum \in Nat
    /\ nValidPictureNum \in Nat
    /\ nRenderHoldingNum \in Nat
    /\ bUsedByDecoder \subseteq Frames
    /\ bUsedByRender \subseteq Frames
    /\ bInValidPictureQueue \subseteq Frames
    /\ bAlreadyDisplayed \subseteq Frames
    /\ bNeedRelease \subseteq Frames
    /\ nID \in [Frames -> {"index", "forbid", "release"}]
    /\ nValidBufNum \in 0 .. nMaxFrameNum
    /\ nReleaseCalls \in 0 .. MaxRelease
    /\ invalidStatus \in BOOLEAN
    /\ decHolds \subseteq Frames
    /\ decShared \subseteq decHolds
    /\ sharing \in decShared \cup {NULL}
    /\ renHolds \subseteq Frames
    /\ ctl \in Locked \cup {"idle", "relMarked", "relFlushed"}

NoDuplicates(q) ==
    \A i, j \in 1 .. Len(q) : q[i] = q[j] => i = j

\* The flags of a frame and its queue agree.
InPlace ==
    /\ NoDuplicates(pEmptyBufferQueue)
    /\ NoDuplicates(pValidPictureQueue)
    /\ Members(pEmptyBufferQueue) =
           Frames \ (bUsedByDecoder \cup bUsedByRender
                         \cup bInValidPictureQueue)
    /\ Members(pValidPictureQueue) = bInValidPictureQueue
    /\ bInValidPictureQueue \cap bUsedByRender = {}
    /\ bAlreadyDisplayed \subseteq
           bUsedByDecoder \ (bInValidPictureQueue \cup bUsedByRender)

(***************************************************************************)
(* No frame is lost and none is in two places (with the pool's own         *)
(* buffers): the flags of a frame and its queue always agree.  A frame     *)
(* nobody uses is in the empty queue exactly once, a frame waiting for the *)
(* display is in the valid queue exactly once and is not with the render,  *)
(* and "already displayed" is only remembered for a frame the decoder      *)
(* still refers to.  Behind it: FbmReturnBuffer, FbmReturnPicture and      *)
(* FbmFlush each decide from the flags alone who is the last user.         *)
(***************************************************************************)
FramesAccounted == ~bUseGpuBuf => InPlace

\* The counters are the lengths and the number of frames.
Counted ==
    /\ nEmptyBufferNum = Len(pEmptyBufferQueue)
    /\ nValidPictureNum = Len(pValidPictureQueue)
    /\ nRenderHoldingNum = Cardinality(bUsedByRender)

\* The counters that EmptyPictureBufferNum, ValidPictureNum and
\* FbmGetDisplayBufferNum report, and that the H.264 decoder waits on, are
\* the real numbers of a pool with its own buffers, also for a reader that
\* takes no lock.
CountersExact == ~bUseGpuBuf => Counted

\* No call has taken one of its error paths.
StatusValid == ~invalidStatus

\* With the pool's own buffers no call ever meets a frame whose flags it
\* calls invalid (the paths that end in "loge(...); //abort();" and give up
\* on the frame).
NoInvalidStatus == ~bUseGpuBuf => StatusValid

\* The render and the decoder hold exactly the frames the flags say.
HoldersKnown == decHolds = bUsedByDecoder /\ renHolds = bUsedByRender

(***************************************************************************)
(* With window-system buffers: one node is never linked into two queues,   *)
(* so that the FbmEnqueue of one queue does not cut another one.           *)
(***************************************************************************)
QueuesDisjoint ==
    /\ Members(pEmptyBufferQueue) \cap Members(pValidPictureQueue) = {}
    /\ Members(pEmptyBufferQueue) \cap Members(pReleaseBufferQueue) = {}
    /\ Members(pValidPictureQueue) \cap Members(pReleaseBufferQueue) = {}

\* The decoder never reads nEmptyBufferNum = 0 while a buffer waits in the
\* empty queue: it would stop with VDECODE_RESULT_NO_FRAME_BUFFER for ever.
EmptyNumCovers == Len(pEmptyBufferQueue) <= nEmptyBufferNum

\* A buffer that goes back to the window system is not one the decoder
\* writes to or refers to.
ReleasedNotDecoded ==
    (Members(pReleaseBufferQueue) \cup {f \in Frames : nID[f] = "release"})
        \cap (decHolds \cup bUsedByDecoder) = {}

\* FbmReturnReleasePicture and the calls beside it: whatever the order in
\* which the decoder, the render and the window system give buffers back and
\* ask for them, a buffer is in one queue and never leaves under the decoder.
\* That is, through one release and the rebinding after it: a second one may
\* find a frame in the empty queue that the render still shows (FbmReturnBuffer
\* has put it into the release queue), and then it gets into two queues.
ReleaseSafe == TypeOK /\ QueuesDisjoint /\ ReleasedNotDecoded

\* The frames the decoder has published and still refers to.
Published ==
    bUsedByDecoder \cap
        (bInValidPictureQueue \cup bUsedByRender \cup bAlreadyDisplayed)

PQ == INSTANCE PictureQueue WITH
          decoding <- bUsedByDecoder, published <- Published,
          waiting <- pValidPictureQueue, showing <- bUsedByRender

\* The frame buffer manager keeps the promise of PictureQueue.
RefinesPictureQueue == PQ!PQSpec

\* Every frame in use comes back to a pool with its own buffers: whoever uses
\* it, and whatever flush comes in between, it reaches the empty queue again.
FramesComeBack ==
    \A f \in Frames :
        ~bUseGpuBuf /\ f \notin Members(pEmptyBufferQueue)
            ~> f \in Members(pEmptyBufferQueue)
=============================================================================
