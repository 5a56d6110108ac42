----------------------------- MODULE FbmProofs -----------------------------
(***************************************************************************)
(* Proofs about the frame buffer manager, for a pool of any size: first    *)
(* with its own buffers (bUseGpuBuf = FALSE), the safety invariants of     *)
(* such a pool, and that the manager implements PictureQueue; then for     *)
(* buffers of the window system too; at the end, the memory of the         *)
(* pictures, for every size of picture.                                    *)
(*                                                                         *)
(* InPlace is not inductive alone.  A call trusts the pointer its          *)
(* client gives it, so the invariant must know that the clients hold the   *)
(* frames the flags name (HoldersKnown); and FbmShareBuffer trusts the     *)
(* decoder to share a frame once (SharedOnce).                             *)
(***************************************************************************)
EXTENDS FbmMemory, SequenceTheorems, FiniteSetTheorems, TLAPS

\* FbmEnqueue of a node that is not linked yet appends it: the list grows by
\* that node and holds no node twice.
LEMMA EnqueueFacts ==
    ASSUME NEW S, NEW q \in Seq(S), NEW p \in S,
           p \notin Members(q), NoDuplicates(q)
    PROVE  /\ FbmEnqueue(q, p) = Append(q, p)
           /\ FbmEnqueue(q, p) \in Seq(S)
           /\ Len(FbmEnqueue(q, p)) = Len(q) + 1
           /\ Members(FbmEnqueue(q, p)) = Members(q) \cup {p}
           /\ NoDuplicates(FbmEnqueue(q, p))
<1>1. FbmEnqueue(q, p) = Append(q, p)
  BY DEF FbmEnqueue
<1>2. /\ Append(q, p) \in Seq(S)
      /\ Len(q) \in Nat
      /\ Len(Append(q, p)) = Len(q) + 1
      /\ \A i \in 1 .. Len(q) : Append(q, p)[i] = q[i]
      /\ Append(q, p)[Len(q) + 1] = p
  BY AppendProperties, LenProperties
<1>3. Members(Append(q, p)) = Members(q) \cup {p}
  BY <1>2 DEF Members
<1>4. NoDuplicates(Append(q, p))
  BY <1>2 DEF NoDuplicates, Members
<1> QED
  BY <1>1, <1>2, <1>3, <1>4

\* FbmDequeue of a non-empty list takes away its first node and no other.
LEMMA DequeueFacts ==
    ASSUME NEW S, NEW q \in Seq(S), q # <<>>, NoDuplicates(q)
    PROVE  /\ Head(q) \in S
           /\ Head(q) \in Members(q)
           /\ Tail(q) \in Seq(S)
           /\ Len(q) \in Nat \ {0}
           /\ Len(Tail(q)) = Len(q) - 1
           /\ Members(Tail(q)) = Members(q) \ {Head(q)}
           /\ NoDuplicates(Tail(q))
<1>1. /\ Len(q) \in Nat \ {0}
      /\ Head(q) = q[1]
      /\ Head(q) \in S
      /\ Tail(q) \in Seq(S)
      /\ Len(Tail(q)) = Len(q) - 1
      /\ \A i \in 1 .. Len(q) - 1 : Tail(q)[i] = q[i + 1]
  BY HeadTailProperties, LenProperties, EmptySeq
<1>2. Head(q) \in Members(q)
  BY <1>1 DEF Members
<1>3. Members(Tail(q)) = Members(q) \ {Head(q)}
  <2>1. ASSUME NEW x \in Members(Tail(q))
        PROVE  x \in Members(q) \ {Head(q)}
    <3>1. PICK i \in 1 .. Len(q) - 1 : x = q[i + 1]
      BY <1>1 DEF Members
    <3>2. i + 1 \in 1 .. Len(q) /\ i + 1 # 1 /\ 1 \in 1 .. Len(q)
      BY <1>1
    <3> QED
      BY <1>1, <3>1, <3>2 DEF Members, NoDuplicates
  <2>2. ASSUME NEW x \in Members(q) \ {Head(q)}
        PROVE  x \in Members(Tail(q))
    <3>1. PICK i \in 1 .. Len(q) : x = q[i]
      BY DEF Members
    <3>2. i - 1 \in 1 .. Len(q) - 1 /\ Tail(q)[i - 1] = q[i]
      BY <1>1, <3>1
    <3> QED
      BY <1>1, <3>1, <3>2 DEF Members
  <2> QED
    BY <2>1, <2>2
<1>4. NoDuplicates(Tail(q))
  BY <1>1 DEF NoDuplicates
<1> QED
  BY <1>1, <1>2, <1>3, <1>4

-----------------------------------------------------------------------------
\* With the pool's own buffers no frame is ever marked for release.
OwnBuffers ==
    /\ ~bUseGpuBuf
    /\ bNeedRelease = {}
    /\ pReleaseBufferQueue = <<>>
    /\ nID = [f \in Frames |-> "index"]
    /\ nValidBufNum = 0
    /\ nReleaseCalls = 0
    /\ ctl \in {"idle", "flush"}

\* The decoder publishes a frame at most once while it holds it, and the
\* frame it is about to publish has not been published yet.
SharedOnce ==
    /\ Published \subseteq decShared
    /\ sharing \notin Published

\* The inductive invariant: the properties and what they lean on.
IInv ==
    /\ TypeOK
    /\ OwnBuffers
    /\ InPlace
    /\ Counted
    /\ StatusValid
    /\ HoldersKnown
    /\ SharedOnce

\* The pool is finite, so that its subsets have a cardinality.
LEMMA FramesFinite == IsFiniteSet(Frames)
<1>1. 0 \in Int /\ nMaxFrameNum - 1 \in Int
  BY FbmAssumption
<1> QED
  BY <1>1, FS_Interval DEF Frames

\* The null pointer is not a frame.
LEMMA NullIsNoFrame == NULL \notin Frames
BY FbmAssumption DEF NULL, Frames

\* Facts on the cardinality of a set of frames that gains or loses one.
LEMMA CardFrames ==
    ASSUME NEW S \in SUBSET Frames, NEW f \in Frames
    PROVE  /\ Cardinality(S) \in Nat
           /\ f \notin S => Cardinality(S \cup {f}) = Cardinality(S) + 1
           /\ f \in S => /\ Cardinality(S \ {f}) = Cardinality(S) - 1
                         /\ Cardinality(S) - 1 \in Nat
<1>1. IsFiniteSet(S)
  BY FramesFinite, FS_Subset
<1>2. IsFiniteSet(S \ {f})
  BY <1>1, FS_RemoveElement
<1> QED
  BY <1>1, <1>2, FS_AddElement, FS_RemoveElement, FS_CardinalityType

\* FbmCreateBuffer establishes the invariant: all frames are empty.
LEMMA InitIInv == ASSUME ~bUseGpuBuf, Init PROVE IInv
<1> DEFINE q == [i \in 1 .. nMaxFrameNum |-> i - 1]
<1>1. /\ q \in Seq(Frames)
      /\ Len(q) = nMaxFrameNum
      /\ \A i \in 1 .. nMaxFrameNum : q[i] = i - 1
  <2>1. \A i \in 1 .. nMaxFrameNum : i - 1 \in Frames
    BY FbmAssumption DEF Frames
  <2> QED
    BY <2>1, FbmAssumption, IsASeq
<1>2. pEmptyBufferQueue = q
  BY DEF Init, InitialEmptyNum
<1> HIDE DEF q
<1>3. Members(q) = Frames
  <2>1. \A f \in Frames : f + 1 \in 1 .. nMaxFrameNum /\ q[f + 1] = f
    BY <1>1, FbmAssumption DEF Frames
  <2>2. \A i \in 1 .. nMaxFrameNum : q[i] \in Frames
    BY <1>1, FbmAssumption DEF Frames
  <2> QED
    BY <1>1, <2>1, <2>2 DEF Members
<1>4. NoDuplicates(q)
  BY <1>1, FbmAssumption DEF NoDuplicates
<1>5. /\ <<>> \in Seq(Frames)
      /\ Len(<<>>) = 0
      /\ Members(<<>>) = {}
      /\ NoDuplicates(<<>>)
  BY EmptySeq DEF Members, NoDuplicates
<1>6. TypeOK
  <2>1. nID \in [Frames -> {"index", "forbid", "release"}]
    BY DEF Init, InitialEmptyNum
  <2>2. /\ nValidBufNum \in 0 .. nMaxFrameNum
        /\ nReleaseCalls \in 0 .. MaxRelease
        /\ nEmptyBufferNum \in Nat
    BY FbmAssumption DEF Init, InitialEmptyNum
  <2>3. invalidStatus \in BOOLEAN
    BY Zenon DEF Init, InitialEmptyNum
  <2> QED
    BY <1>1, <1>2, <1>5, <2>1, <2>2, <2>3 DEF Init, TypeOK, Locked
<1>7. OwnBuffers
  BY DEF Init, OwnBuffers
<1>8. InPlace
  BY <1>2, <1>3, <1>4, <1>5 DEF Init, InPlace
<1>9. Counted
  BY <1>1, <1>2, <1>5, FS_EmptySet DEF Init, InitialEmptyNum, Counted
<1>10. StatusValid /\ HoldersKnown /\ SharedOnce
  BY DEF Init, StatusValid, HoldersKnown, SharedOnce, Published
<1> QED
  BY <1>6, <1>7, <1>8, <1>9, <1>10 DEF IInv

\* The decoder takes the head of the empty queue: its flags are all clear.
LEMMA RequestBufferIInv == ASSUME IInv, FbmRequestBuffer PROVE IInv'
<1> USE DEF IInv
<1> DEFINE f == Head(pEmptyBufferQueue)
<1>1. /\ f \in Frames
      /\ f \in Members(pEmptyBufferQueue)
      /\ Tail(pEmptyBufferQueue) \in Seq(Frames)
      /\ Len(pEmptyBufferQueue) \in Nat \ {0}
      /\ Len(Tail(pEmptyBufferQueue)) = Len(pEmptyBufferQueue) - 1
      /\ Members(Tail(pEmptyBufferQueue)) = Members(pEmptyBufferQueue) \ {f}
      /\ NoDuplicates(Tail(pEmptyBufferQueue))
  BY DequeueFacts DEF FbmRequestBuffer, TypeOK, InPlace
<1>2. f \notin bUsedByDecoder \cup bInValidPictureQueue
               \cup bUsedByRender \cup bAlreadyDisplayed
  BY <1>1 DEF InPlace
<1>3. /\ pEmptyBufferQueue' = Tail(pEmptyBufferQueue)
      /\ nEmptyBufferNum' = nEmptyBufferNum - 1
      /\ bUsedByDecoder' = bUsedByDecoder \cup {f}
      /\ decHolds' = decHolds \cup {f}
      /\ sharing = NULL
      /\ UNCHANGED <<invalidStatus, pValidPictureQueue, pReleaseBufferQueue,
                     nValidPictureNum, nRenderHoldingNum, display, binding,
                     decShared, sharing, renHolds, ctl>>
  BY <1>2 DEF FbmRequestBuffer, DecoderReady
<1> HIDE DEF f
<1> USE <1>1, <1>2, <1>3 DEF display, binding
<1>4. TypeOK'
  BY DEF TypeOK, Counted
<1>5. OwnBuffers'
  BY DEF OwnBuffers
<1>6. InPlace'
  BY DEF InPlace
<1>7. Counted'
  BY DEF Counted
<1>8. StatusValid' /\ HoldersKnown'
  BY DEF StatusValid, HoldersKnown
<1>9. SharedOnce'
  BY NullIsNoFrame DEF SharedOnce, Published, TypeOK
<1> QED
  BY <1>4, <1>5, <1>6, <1>7, <1>8, <1>9

\* The decoder gives a buffer back.  It goes to the valid queue or to the
\* empty queue only if nobody else uses it.
LEMMA ReturnBufferIInv ==
    ASSUME IInv, NEW f \in Frames, NEW v \in BOOLEAN, FbmReturnBuffer(f, v)
    PROVE  IInv'
<1> USE DEF IInv
<1>1. /\ f \in decHolds
      /\ f \in bUsedByDecoder
      /\ nID[f] = "index"
      /\ f \notin bNeedRelease
      /\ f \notin Members(pEmptyBufferQueue)
      /\ sharing = NULL
  BY DEF FbmReturnBuffer, DecoderReady, HoldersKnown, OwnBuffers,
         InPlace
<1>2. /\ ReturnToQueue(f, v)
      /\ decHolds' = decHolds \ {f}
      /\ decShared' = decShared \ {f}
      /\ UNCHANGED <<nRenderHoldingNum, bUsedByRender, binding, sharing,
                     renHolds, ctl>>
  BY <1>1 DEF FbmReturnBuffer
<1>3. /\ bUsedByDecoder' = bUsedByDecoder \ {f}
      /\ pReleaseBufferQueue' = pReleaseBufferQueue
      /\ invalidStatus' = FALSE
  BY <1>1, <1>2 DEF ReturnToQueue, StatusValid, InPlace, TypeOK
<1>4. OwnBuffers'
  BY <1>2, <1>3 DEF OwnBuffers, binding
<1>5. StatusValid' /\ HoldersKnown'
  BY <1>2, <1>3 DEF StatusValid, HoldersKnown
<1>6. CASE f \in bInValidPictureQueue \cup bUsedByRender
  <2>1. UNCHANGED <<pEmptyBufferQueue, pValidPictureQueue, nEmptyBufferNum,
                    nValidPictureNum, bInValidPictureQueue,
                    bAlreadyDisplayed>>
    BY <1>1, <1>2, <1>6 DEF ReturnToQueue
  <2>2. f \notin bAlreadyDisplayed
    BY <1>6 DEF InPlace
  <2> USE <1>1, <1>2, <1>3, <1>6, <2>1, <2>2 DEF binding
  <2>3. TypeOK'
    BY DEF TypeOK
  <2>4. InPlace'
    BY DEF InPlace
  <2>5. Counted'
    BY DEF Counted
  <2>6. SharedOnce'
    BY NullIsNoFrame DEF SharedOnce, Published, TypeOK
  <2> QED
    BY <1>4, <1>5, <2>3, <2>4, <2>5, <2>6
<1>7. CASE /\ f \notin bInValidPictureQueue \cup bUsedByRender
           /\ f \notin bAlreadyDisplayed
           /\ v
  <2>1. /\ pValidPictureQueue' = FbmEnqueue(pValidPictureQueue, f)
        /\ nValidPictureNum' = nValidPictureNum + 1
        /\ bInValidPictureQueue' = bInValidPictureQueue \cup {f}
        /\ UNCHANGED <<pEmptyBufferQueue, nEmptyBufferNum,
                       bAlreadyDisplayed>>
    BY <1>1, <1>2, <1>7 DEF ReturnToQueue
  <2>2. f \notin Members(pValidPictureQueue)
    BY <1>7 DEF InPlace
  <2>3. /\ pValidPictureQueue' \in Seq(Frames)
        /\ Len(pValidPictureQueue') = Len(pValidPictureQueue) + 1
        /\ Members(pValidPictureQueue') = Members(pValidPictureQueue) \cup {f}
        /\ NoDuplicates(pValidPictureQueue')
    BY <2>1, <2>2, EnqueueFacts DEF TypeOK, InPlace
  <2>4. TypeOK'
    <3>1. decShared' \subseteq decHolds' /\ sharing' \in decShared' \cup {NULL}
      BY <1>1, <1>2 DEF TypeOK
    <3>2. invalidStatus' \in BOOLEAN
      BY <1>3, Zenon
    <3> QED
      BY <1>2, <1>3, <2>1, <2>3, <3>1, <3>2 DEF TypeOK, binding
  <2> USE <1>1, <1>2, <1>3, <1>7, <2>1, <2>2, <2>3 DEF binding
  <2>5. InPlace'
    BY DEF InPlace
  <2>6. Counted'
    BY DEF Counted
  <2>7. SharedOnce'
    BY NullIsNoFrame DEF SharedOnce, Published, TypeOK
  <2> QED
    BY <1>4, <1>5, <2>4, <2>5, <2>6, <2>7
<1>8. CASE /\ f \notin bInValidPictureQueue \cup bUsedByRender
           /\ f \in bAlreadyDisplayed \/ ~v
  <2>1. /\ pEmptyBufferQueue' = FbmEnqueue(pEmptyBufferQueue, f)
        /\ nEmptyBufferNum' = nEmptyBufferNum + 1
        /\ bAlreadyDisplayed' = bAlreadyDisplayed \ {f}
        /\ UNCHANGED <<pValidPictureQueue, nValidPictureNum,
                       bInValidPictureQueue>>
    BY <1>1, <1>2, <1>8 DEF ReturnToQueue
  <2>3. /\ pEmptyBufferQueue' \in Seq(Frames)
        /\ Len(pEmptyBufferQueue') = Len(pEmptyBufferQueue) + 1
        /\ Members(pEmptyBufferQueue') = Members(pEmptyBufferQueue) \cup {f}
        /\ NoDuplicates(pEmptyBufferQueue')
    BY <1>1, <2>1, EnqueueFacts DEF TypeOK, InPlace
  <2>4. TypeOK'
    <3>1. decShared' \subseteq decHolds' /\ sharing' \in decShared' \cup {NULL}
      BY <1>1, <1>2 DEF TypeOK
    <3>2. invalidStatus' \in BOOLEAN
      BY <1>3, Zenon
    <3> QED
      BY <1>2, <1>3, <2>1, <2>3, <3>1, <3>2 DEF TypeOK, binding
  <2> USE <1>1, <1>2, <1>3, <1>8, <2>1, <2>3 DEF binding
  <2>5. InPlace'
    BY DEF InPlace
  <2>6. Counted'
    BY DEF Counted
  <2>7. SharedOnce'
    BY NullIsNoFrame DEF SharedOnce, Published, TypeOK
  <2> QED
    BY <1>4, <1>5, <2>4, <2>5, <2>6, <2>7
<1> QED
  BY <1>6, <1>7, <1>8

\* The unlocked half of FbmShareBuffer chooses a frame not shared before.
LEMMA ShareBufferCheckIInv ==
    ASSUME IInv, NEW f \in Frames, FbmShareBufferCheck(f)
    PROVE  IInv'
<1> USE DEF IInv
<1>1. /\ f \in decHolds \ decShared
      /\ decShared' = decShared \cup {f}
      /\ sharing' = f
      /\ UNCHANGED <<queues, nums, bUsedByDecoder, display, binding,
                     invalidStatus, decHolds, renHolds, ctl>>
  BY DEF FbmShareBufferCheck, OwnBuffers
<1> USE <1>1 DEF queues, nums, display, binding
<1>2. TypeOK'
  BY DEF TypeOK
<1>3. OwnBuffers' /\ InPlace' /\ Counted'
  BY DEF OwnBuffers, InPlace, Counted
<1>4. StatusValid' /\ HoldersKnown'
  BY DEF StatusValid, HoldersKnown
<1>5. SharedOnce'
  BY DEF SharedOnce, Published, HoldersKnown
<1> QED
  BY <1>2, <1>3, <1>4, <1>5

\* The locked half of FbmShareBuffer publishes it: no check can fail.
LEMMA ShareBufferIInv == ASSUME IInv, FbmShareBuffer PROVE IInv'
<1> USE DEF IInv
<1>1. /\ sharing \in decShared
      /\ sharing \in Frames
      /\ sharing \in bUsedByDecoder
      /\ sharing \notin bInValidPictureQueue \cup bUsedByRender
                            \cup bAlreadyDisplayed
      /\ sharing \notin Members(pValidPictureQueue)
  BY DEF FbmShareBuffer, TypeOK, HoldersKnown, SharedOnce, Published,
         InPlace
<1>2. /\ sharing' = NULL
      /\ bInValidPictureQueue' = bInValidPictureQueue \cup {sharing}
      /\ pValidPictureQueue' = FbmEnqueue(pValidPictureQueue, sharing)
      /\ nValidPictureNum' = nValidPictureNum + 1
      /\ UNCHANGED <<invalidStatus, pEmptyBufferQueue, pReleaseBufferQueue,
                     nEmptyBufferNum, nRenderHoldingNum, bUsedByDecoder,
                     bUsedByRender, bAlreadyDisplayed, binding, decHolds,
                     decShared, renHolds, ctl>>
  BY <1>1 DEF FbmShareBuffer
<1>3. /\ pValidPictureQueue' \in Seq(Frames)
      /\ Len(pValidPictureQueue') = Len(pValidPictureQueue) + 1
      /\ Members(pValidPictureQueue') =
             Members(pValidPictureQueue) \cup {sharing}
      /\ NoDuplicates(pValidPictureQueue')
  BY <1>1, <1>2, EnqueueFacts DEF TypeOK, InPlace
<1> USE <1>1, <1>2, <1>3 DEF binding
<1>4. TypeOK'
  BY DEF TypeOK
<1>5. OwnBuffers' /\ StatusValid' /\ HoldersKnown'
  BY DEF OwnBuffers, StatusValid, HoldersKnown
<1>6. InPlace'
  BY DEF InPlace
<1>7. Counted'
  BY DEF Counted
<1>8. SharedOnce'
  BY NullIsNoFrame DEF SharedOnce, Published, TypeOK
<1> QED
  BY <1>4, <1>5, <1>6, <1>7, <1>8

\* The render takes the oldest picture of the valid queue.
LEMMA RequestPictureIInv == ASSUME IInv, FbmRequestPicture PROVE IInv'
<1> USE DEF IInv
<1> DEFINE f == Head(pValidPictureQueue)
<1>1. /\ f \in Frames
      /\ f \in Members(pValidPictureQueue)
      /\ Tail(pValidPictureQueue) \in Seq(Frames)
      /\ Len(pValidPictureQueue) \in Nat \ {0}
      /\ Len(Tail(pValidPictureQueue)) = Len(pValidPictureQueue) - 1
      /\ Members(Tail(pValidPictureQueue)) = Members(pValidPictureQueue) \ {f}
      /\ NoDuplicates(Tail(pValidPictureQueue))
  BY DequeueFacts DEF FbmRequestPicture, TypeOK, InPlace
<1>2. /\ f \in bInValidPictureQueue
      /\ f \notin bUsedByRender \cup bAlreadyDisplayed
  BY <1>1 DEF InPlace
<1>3. /\ pValidPictureQueue' = Tail(pValidPictureQueue)
      /\ nValidPictureNum' = nValidPictureNum - 1
      /\ nRenderHoldingNum' = nRenderHoldingNum + 1
      /\ bInValidPictureQueue' = bInValidPictureQueue \ {f}
      /\ bUsedByRender' = bUsedByRender \cup {f}
      /\ renHolds' = renHolds \cup {f}
      /\ UNCHANGED <<invalidStatus, pEmptyBufferQueue, pReleaseBufferQueue,
                     nEmptyBufferNum, bUsedByDecoder, bAlreadyDisplayed,
                     binding, decHolds, decShared, sharing, ctl>>
  BY <1>2 DEF FbmRequestPicture
<1> HIDE DEF f
<1>4. nRenderHoldingNum' = Cardinality(bUsedByRender')
  BY <1>1, <1>2, <1>3, CardFrames DEF Counted, TypeOK
<1> USE <1>1, <1>2, <1>3 DEF binding
<1>5. TypeOK'
  BY DEF TypeOK, Counted
<1>6. OwnBuffers' /\ StatusValid' /\ HoldersKnown'
  BY DEF OwnBuffers, StatusValid, HoldersKnown
<1>7. InPlace'
  BY DEF InPlace
<1>8. Counted'
  BY <1>4 DEF Counted
<1>9. SharedOnce'
  BY DEF SharedOnce, Published
<1> QED
  BY <1>5, <1>6, <1>7, <1>8, <1>9

\* The render gives a picture back: to the empty queue unless the decoder
\* still refers to it.
LEMMA ReturnPictureIInv ==
    ASSUME IInv, NEW f \in Frames, FbmReturnPicture(f)
    PROVE  IInv'
<1> USE DEF IInv
<1>1. /\ f \in renHolds
      /\ f \in bUsedByRender
      /\ nID[f] = "index"
      /\ f \notin bNeedRelease
      /\ f \notin bInValidPictureQueue \cup bAlreadyDisplayed
      /\ f \notin Members(pEmptyBufferQueue)
  BY DEF FbmReturnPicture, HoldersKnown, OwnBuffers, InPlace
<1>2. /\ ReturnDisplayed(f)
      /\ renHolds' = renHolds \ {f}
      /\ UNCHANGED <<pValidPictureQueue, nValidPictureNum, bUsedByDecoder,
                     bInValidPictureQueue, bUseGpuBuf, bNeedRelease,
                     nValidBufNum, nReleaseCalls, decHolds, decShared,
                     sharing, ctl>>
  BY <1>1 DEF FbmReturnPicture
<1>3. /\ bUsedByRender' = bUsedByRender \ {f}
      /\ nRenderHoldingNum' = nRenderHoldingNum - 1
      /\ UNCHANGED <<nID, invalidStatus, pReleaseBufferQueue>>
  BY <1>1, <1>2 DEF ReturnDisplayed, DecoderDone
<1>4. /\ nRenderHoldingNum' = Cardinality(bUsedByRender')
      /\ nRenderHoldingNum' \in Nat
  BY <1>1, <1>3, CardFrames DEF Counted, TypeOK
<1>5. OwnBuffers' /\ StatusValid' /\ HoldersKnown'
  BY <1>2, <1>3 DEF OwnBuffers, StatusValid, HoldersKnown
<1>6. CASE f \in bUsedByDecoder
  <2>1. /\ bAlreadyDisplayed' = bAlreadyDisplayed \cup {f}
        /\ UNCHANGED <<pEmptyBufferQueue, nEmptyBufferNum>>
    BY <1>2, <1>6 DEF ReturnDisplayed, DecoderDone
  <2> USE <1>1, <1>2, <1>3, <1>4, <1>6, <2>1
  <2>2. TypeOK'
    BY DEF TypeOK
  <2>3. InPlace'
    BY DEF InPlace
  <2>4. Counted'
    BY DEF Counted
  <2>5. SharedOnce'
    BY DEF SharedOnce, Published
  <2> QED
    BY <1>5, <2>2, <2>3, <2>4, <2>5
<1>7. CASE f \notin bUsedByDecoder
  <2>1. /\ pEmptyBufferQueue' = FbmEnqueue(pEmptyBufferQueue, f)
        /\ nEmptyBufferNum' = nEmptyBufferNum + 1
        /\ bAlreadyDisplayed' = bAlreadyDisplayed
    BY <1>1, <1>2, <1>7 DEF ReturnDisplayed, DecoderDone
  <2>2. /\ pEmptyBufferQueue' \in Seq(Frames)
        /\ Len(pEmptyBufferQueue') = Len(pEmptyBufferQueue) + 1
        /\ Members(pEmptyBufferQueue') = Members(pEmptyBufferQueue) \cup {f}
        /\ NoDuplicates(pEmptyBufferQueue')
    BY <1>1, <2>1, EnqueueFacts DEF TypeOK, InPlace
  <2> USE <1>1, <1>2, <1>3, <1>4, <1>7, <2>1, <2>2
  <2>3. TypeOK'
    BY DEF TypeOK
  <2>4. InPlace'
    BY DEF InPlace
  <2>5. Counted'
    BY DEF Counted
  <2>6. SharedOnce'
    BY DEF SharedOnce, Published
  <2> QED
    BY <1>5, <2>3, <2>4, <2>5, <2>6
<1> QED
  BY <1>6, <1>7

\* FbmFlush takes the mutex.
LEMMA FlushEnterIInv == ASSUME IInv, FbmFlushEnter PROVE IInv'
<1> USE DEF IInv
<1>1. /\ ctl' = "flush"
      /\ UNCHANGED <<queues, nums, bUsedByDecoder, display, binding,
                     invalidStatus, clients>>
  BY DEF FbmFlushEnter, OwnBuffers
<1> USE <1>1 DEF queues, nums, display, binding, clients
<1>2. TypeOK'
  BY DEF TypeOK, Locked
<1>3. OwnBuffers' /\ InPlace' /\ Counted'
  BY DEF OwnBuffers, InPlace, Counted
<1>4. StatusValid' /\ HoldersKnown' /\ SharedOnce'
  BY DEF StatusValid, HoldersKnown, SharedOnce, Published
<1> QED
  BY <1>2, <1>3, <1>4

\* One iteration of a flush moves one frame out of the valid queue.
LEMMA FlushIInv == ASSUME IInv, FbmFlush PROVE IInv'
<1> USE DEF IInv
<1>0. /\ ctl = "flush"
      /\ UNCHANGED <<pReleaseBufferQueue, nRenderHoldingNum, bUsedByDecoder,
                     bUsedByRender, binding, clients>>
  BY DEF FbmFlush, OwnBuffers
<1>1. CASE pValidPictureQueue = <<>>
  <2>1. /\ ctl' = "idle"
        /\ UNCHANGED <<pEmptyBufferQueue, pValidPictureQueue,
                       nEmptyBufferNum, nValidPictureNum,
                       bInValidPictureQueue, bAlreadyDisplayed,
                       invalidStatus>>
    BY <1>0, <1>1 DEF FbmFlush, AfterFlush
  <2> USE <1>0, <2>1 DEF binding, clients
  <2>2. TypeOK'
    BY DEF TypeOK, Locked
  <2>3. OwnBuffers' /\ InPlace' /\ Counted'
    BY DEF OwnBuffers, InPlace, Counted
  <2>4. StatusValid' /\ HoldersKnown' /\ SharedOnce'
    BY DEF StatusValid, HoldersKnown, SharedOnce, Published
  <2> QED
    BY <2>2, <2>3, <2>4
<1>2. CASE pValidPictureQueue # <<>>
  <2> DEFINE f == Head(pValidPictureQueue)
  <2>1. /\ f \in Frames
        /\ f \in Members(pValidPictureQueue)
        /\ Tail(pValidPictureQueue) \in Seq(Frames)
        /\ Len(pValidPictureQueue) \in Nat \ {0}
        /\ Len(Tail(pValidPictureQueue)) = Len(pValidPictureQueue) - 1
        /\ Members(Tail(pValidPictureQueue)) =
               Members(pValidPictureQueue) \ {f}
        /\ NoDuplicates(Tail(pValidPictureQueue))
    BY <1>2, DequeueFacts DEF TypeOK, InPlace
  <2>2. /\ f \in bInValidPictureQueue
        /\ f \notin bUsedByRender \cup bAlreadyDisplayed
        /\ f \notin Members(pEmptyBufferQueue)
    BY <2>1 DEF InPlace
  <2>3. /\ pValidPictureQueue' = Tail(pValidPictureQueue)
        /\ nValidPictureNum' = nValidPictureNum - 1
        /\ bInValidPictureQueue' = bInValidPictureQueue \ {f}
        /\ UNCHANGED <<invalidStatus, ctl>>
    BY <1>2, <2>2 DEF FbmFlush, FlushedIsFree, FlushedNum
  <2>4. f \notin bUsedByDecoder =>
            /\ pEmptyBufferQueue' = FbmEnqueue(pEmptyBufferQueue, f)
            /\ nEmptyBufferNum' = nEmptyBufferNum + 1
            /\ bAlreadyDisplayed' = bAlreadyDisplayed
    BY <1>2, <2>2 DEF FbmFlush, FlushedIsFree, FlushedNum
  <2>5. f \in bUsedByDecoder =>
            /\ bAlreadyDisplayed' = bAlreadyDisplayed \cup {f}
            /\ UNCHANGED <<pEmptyBufferQueue, nEmptyBufferNum>>
    BY <1>2, <2>2 DEF FbmFlush, FlushedIsFree, FlushedNum
  <2> HIDE DEF f
  <2>6. OwnBuffers' /\ StatusValid' /\ HoldersKnown'
    BY <1>0, <2>3
       DEF OwnBuffers, StatusValid, HoldersKnown, binding, clients
  <2>7. CASE f \in bUsedByDecoder
    <3> USE <1>0, <2>1, <2>2, <2>3, <2>5, <2>7 DEF binding, clients
    <3>1. TypeOK'
      BY DEF TypeOK, Counted
    <3>2. InPlace'
      BY DEF InPlace
    <3>3. Counted'
      BY DEF Counted
    <3>4. SharedOnce'
      BY DEF SharedOnce, Published
    <3> QED
      BY <2>6, <3>1, <3>2, <3>3, <3>4
  <2>8. CASE f \notin bUsedByDecoder
    <3>1. /\ pEmptyBufferQueue' \in Seq(Frames)
          /\ Len(pEmptyBufferQueue') = Len(pEmptyBufferQueue) + 1
          /\ Members(pEmptyBufferQueue') =
                 Members(pEmptyBufferQueue) \cup {f}
          /\ NoDuplicates(pEmptyBufferQueue')
      BY <2>1, <2>2, <2>4, <2>8, EnqueueFacts DEF TypeOK, InPlace
    <3> USE <1>0, <2>1, <2>2, <2>3, <2>4, <2>8, <3>1 DEF binding, clients
    <3>2. TypeOK'
      BY DEF TypeOK, Counted
    <3>3. InPlace'
      BY DEF InPlace
    <3>4. Counted'
      BY DEF Counted
    <3>5. SharedOnce'
      BY DEF SharedOnce, Published
    <3> QED
      BY <2>6, <3>2, <3>3, <3>4, <3>5
  <2> QED
    BY <2>7, <2>8
<1> QED
  BY <1>1, <1>2

\* A step that changes nothing keeps the invariant.
LEMMA StutterIInv == ASSUME IInv, UNCHANGED vars PROVE IInv'
BY DEF IInv, vars, queues, nums, display, binding, clients, TypeOK,
       OwnBuffers, InPlace, Counted, StatusValid,
       HoldersKnown, SharedOnce, Published

\* Every step of every thread keeps the invariant.
LEMMA NextIInv == ASSUME IInv, [Next]_vars PROVE IInv'
<1>1. CASE Decoder
  BY <1>1, RequestBufferIInv, ReturnBufferIInv, ShareBufferCheckIInv,
     ShareBufferIInv DEF Decoder
<1>2. CASE Render
  BY <1>2, RequestPictureIInv, ReturnPictureIInv DEF Render
<1>3. CASE Flusher
  BY <1>3, FlushEnterIInv, FlushIInv DEF Flusher
<1>4. CASE Rebinder
  BY <1>4 DEF Rebinder, FbmSetFbmBufAddress, FbmSetNewDispRelease,
     FbmNewDispReleaseEnter, FbmNewDispRelease, FbmRequestReleasePicture,
     FbmReturnReleasePicture, IInv, OwnBuffers
<1>5. CASE UNCHANGED vars
  BY <1>5, StutterIInv
<1> QED
  BY <1>1, <1>2, <1>3, <1>4, <1>5 DEF Next

\* Nobody changes who owns the buffers.
LEMMA OwnerStays == ASSUME [Next]_vars PROVE bUseGpuBuf' = bUseGpuBuf
BY DEF vars, binding, Next, Decoder, Render, Flusher, Rebinder,
       FbmRequestBuffer, FbmReturnBuffer, FbmShareBufferCheck,
       FbmShareBuffer, FbmRequestPicture, FbmReturnPicture, FbmFlushEnter,
       FbmFlush, FbmSetFbmBufAddress, FbmSetNewDispRelease,
       FbmNewDispReleaseEnter, FbmNewDispRelease, FbmRequestReleasePicture,
       FbmReturnReleasePicture

\* The inductive invariant holds in every reachable state of a manager with
\* its own buffers, for every number of frames.
THEOREM PlaybackInvariant == Spec => [](~bUseGpuBuf => IInv)
<1>1. Init => (~bUseGpuBuf => IInv)
  BY InitIInv
<1>2. (~bUseGpuBuf => IInv) /\ [Next]_vars => (~bUseGpuBuf => IInv)'
  BY NextIInv, OwnerStays
<1> QED
  BY <1>1, <1>2, PTL DEF Spec

\* Every variable keeps its type; the counters never go below zero.
THEOREM PlaybackTypeOK == Spec => [](~bUseGpuBuf => TypeOK)
BY PlaybackInvariant, PTL DEF IInv

\* No frame of a pool with its own buffers is lost, duplicated or in two
\* places.
THEOREM PlaybackAccounted == Spec => []FramesAccounted
BY PlaybackInvariant, PTL DEF IInv, FramesAccounted

\* The counters of such a pool that the decoder and the player read are the
\* real numbers.
THEOREM PlaybackCounters == Spec => []CountersExact
BY PlaybackInvariant, PTL DEF IInv, CountersExact

\* No call takes one of its "invalid frame status" paths.
THEOREM PlaybackNoInvalidStatus == Spec => []NoInvalidStatus
BY PlaybackInvariant, PTL DEF IInv, NoInvalidStatus

-----------------------------------------------------------------------------
\* The pictures in use, in the terms of PictureQueue.
LEMMA InUseFacts ==
    ASSUME IInv
    PROVE  PQ!InUse = Frames \ Members(pEmptyBufferQueue)
BY DEF IInv, InPlace, TypeOK, PQ!InUse, Members

\* A new pool is an empty picture queue.
LEMMA InitRefines == ASSUME Init PROVE PQ!PQInit
BY DEF Init, PQ!PQInit, Published

\* Every step is a step of PictureQueue or leaves its state alone.
LEMMA StepRefines ==
    ASSUME IInv, [Next]_vars
    PROVE  [PQ!PQNext]_(PQ!pqVars)
<1> USE DEF PQ!PQNext, PQ!pqVars
<1>1. CASE FbmRequestBuffer
  <2> DEFINE f == Head(pEmptyBufferQueue)
  <2>1. f \in Frames /\ f \in Members(pEmptyBufferQueue)
    BY <1>1, DequeueFacts DEF FbmRequestBuffer, IInv, TypeOK, InPlace
  <2>2. f \notin bUsedByDecoder \cup bInValidPictureQueue
                 \cup bUsedByRender \cup bAlreadyDisplayed
    BY <2>1 DEF IInv, InPlace
  <2>3. /\ bUsedByDecoder' = bUsedByDecoder \cup {f}
        /\ UNCHANGED <<pValidPictureQueue, display>>
    BY <1>1, <2>2 DEF FbmRequestBuffer
  <2>4. Published' = Published
    BY <2>2, <2>3 DEF Published, display
  <2>5. PQ!Acquire(f)
    BY <2>1, <2>3, <2>4, InUseFacts DEF PQ!Acquire, display
  <2> QED
    BY <2>1, <2>5
<1>2. ASSUME NEW f \in Frames, NEW v \in BOOLEAN, FbmReturnBuffer(f, v)
      PROVE  PQ!PQNext
  <2>1. /\ f \in bUsedByDecoder
        /\ ReturnToQueue(f, v)
        /\ f \notin bNeedRelease
        /\ UNCHANGED bUsedByRender
        /\ f \notin Members(pValidPictureQueue) \/ f \in bInValidPictureQueue
    BY <1>2 DEF FbmReturnBuffer, IInv, HoldersKnown, OwnBuffers,
       InPlace
  <2>2. bUsedByDecoder' = bUsedByDecoder \ {f}
    BY <2>1 DEF ReturnToQueue
  <2>3. CASE \/ f \in Published
             \/ ~v
    <3>1. UNCHANGED <<pValidPictureQueue, bInValidPictureQueue>>
      BY <2>1, <2>3 DEF ReturnToQueue, Published
    <3>2. bAlreadyDisplayed' = bAlreadyDisplayed
              \/ bAlreadyDisplayed' = bAlreadyDisplayed \ {f}
      BY <2>1 DEF ReturnToQueue
    <3>3. Published' = Published \ {f}
      BY <2>1, <2>2, <3>1, <3>2 DEF Published
    <3>4. PQ!Finish(f)
      BY <2>1, <2>2, <3>1, <3>3 DEF PQ!Finish
    <3> QED
      BY <3>4
  <2>4. CASE f \notin Published /\ v
    <3>1. f \notin bInValidPictureQueue \cup bUsedByRender
                       \cup bAlreadyDisplayed
      BY <2>1, <2>4 DEF Published
    <3>2. /\ pValidPictureQueue' = FbmEnqueue(pValidPictureQueue, f)
          /\ bInValidPictureQueue' = bInValidPictureQueue \cup {f}
          /\ bAlreadyDisplayed' = bAlreadyDisplayed
      BY <2>1, <2>4, <3>1 DEF ReturnToQueue
    <3>3. pValidPictureQueue' = Append(pValidPictureQueue, f)
      BY <3>1, <3>2, EnqueueFacts DEF IInv, TypeOK, InPlace
    <3>4. Published' = Published
      BY <2>1, <2>2, <2>4, <3>2 DEF Published
    <3>5. PQ!PublishLast(f)
      BY <2>1, <2>2, <2>4, <3>3, <3>4 DEF PQ!PublishLast
    <3> QED
      BY <3>5
  <2> QED
    BY <2>3, <2>4
<1>3. ASSUME NEW f \in Frames, FbmShareBufferCheck(f)
      PROVE  UNCHANGED PQ!pqVars
  BY <1>3 DEF FbmShareBufferCheck, queues, display, Published
<1>4. CASE FbmShareBuffer
  <2>1. /\ sharing \in Frames
        /\ sharing \in bUsedByDecoder
        /\ sharing \notin Published
        /\ sharing \notin bInValidPictureQueue \cup bAlreadyDisplayed
        /\ sharing \notin Members(pValidPictureQueue)
    BY <1>4 DEF FbmShareBuffer, IInv, TypeOK, HoldersKnown, SharedOnce,
       Published, InPlace
  <2>2. /\ bInValidPictureQueue' = bInValidPictureQueue \cup {sharing}
        /\ pValidPictureQueue' = FbmEnqueue(pValidPictureQueue, sharing)
        /\ UNCHANGED <<bUsedByDecoder, bUsedByRender, bAlreadyDisplayed>>
    BY <1>4, <2>1 DEF FbmShareBuffer
  <2>3. pValidPictureQueue' = Append(pValidPictureQueue, sharing)
    BY <2>1, <2>2, EnqueueFacts DEF IInv, TypeOK, InPlace
  <2>4. Published' = Published \cup {sharing}
    BY <2>1, <2>2 DEF Published
  <2>5. PQ!Publish(sharing)
    BY <2>1, <2>2, <2>3, <2>4 DEF PQ!Publish
  <2> QED
    BY <2>1, <2>5
<1>5. CASE FbmRequestPicture
  <2> DEFINE f == Head(pValidPictureQueue)
  <2>1. f \in Members(pValidPictureQueue) /\ pValidPictureQueue # <<>>
    BY <1>5, DequeueFacts DEF FbmRequestPicture, IInv, TypeOK,
       InPlace
  <2>2. /\ f \in bInValidPictureQueue
        /\ f \notin bUsedByRender \cup bAlreadyDisplayed
    BY <2>1 DEF IInv, InPlace
  <2>3. /\ pValidPictureQueue' = Tail(pValidPictureQueue)
        /\ bInValidPictureQueue' = bInValidPictureQueue \ {f}
        /\ bUsedByRender' = bUsedByRender \cup {f}
        /\ UNCHANGED <<bUsedByDecoder, bAlreadyDisplayed>>
    BY <1>5, <2>2 DEF FbmRequestPicture
  <2>4. Published' = Published
    BY <2>2, <2>3 DEF Published
  <2>5. PQ!Show
    BY <2>1, <2>3, <2>4 DEF PQ!Show
  <2> QED
    BY <2>5
<1>6. ASSUME NEW f \in Frames, FbmReturnPicture(f)
      PROVE  PQ!PQNext
  <2>1. /\ f \in bUsedByRender
        /\ ReturnDisplayed(f)
        /\ UNCHANGED <<pValidPictureQueue, bUsedByDecoder,
                       bInValidPictureQueue>>
    BY <1>6 DEF FbmReturnPicture, IInv, HoldersKnown, OwnBuffers,
       InPlace
  <2>2. /\ bUsedByRender' = bUsedByRender \ {f}
        /\ bAlreadyDisplayed' = IF f \notin bUsedByDecoder
                                THEN bAlreadyDisplayed
                                ELSE bAlreadyDisplayed \cup {f}
    BY <2>1 DEF ReturnDisplayed, DecoderDone
  <2>3. Published' = Published
    BY <2>1, <2>2 DEF Published
  <2>4. PQ!EndShow(f)
    BY <2>1, <2>2, <2>3 DEF PQ!EndShow
  <2> QED
    BY <2>4
<1>7. CASE FbmFlushEnter
  BY <1>7 DEF FbmFlushEnter, queues, display, Published
<1>8. CASE FbmFlush
  <2>1. CASE pValidPictureQueue = <<>>
    BY <1>8, <2>1 DEF FbmFlush, Published
  <2>2. CASE pValidPictureQueue # <<>>
    <3> DEFINE f == Head(pValidPictureQueue)
    <3>1. f \in Members(pValidPictureQueue)
      BY <2>2, DequeueFacts DEF IInv, TypeOK, InPlace
    <3>2. /\ f \in bInValidPictureQueue
          /\ f \notin bUsedByRender \cup bAlreadyDisplayed
      BY <3>1 DEF IInv, InPlace
    <3>3. /\ pValidPictureQueue' = Tail(pValidPictureQueue)
          /\ bInValidPictureQueue' = bInValidPictureQueue \ {f}
          /\ bAlreadyDisplayed' = IF f \notin bUsedByDecoder
                                  THEN bAlreadyDisplayed
                                  ELSE bAlreadyDisplayed \cup {f}
          /\ UNCHANGED <<bUsedByDecoder, bUsedByRender>>
      BY <1>8, <2>2, <3>2 DEF FbmFlush, FlushedIsFree, FlushedNum
    <3>4. Published' = Published
      BY <3>2, <3>3 DEF Published
    <3>5. PQ!Drop
      BY <2>2, <3>3, <3>4 DEF PQ!Drop
    <3> QED
      BY <3>5
  <2> QED
    BY <2>1, <2>2
<1>9. CASE Rebinder
  BY <1>9 DEF Rebinder, FbmSetFbmBufAddress, FbmSetNewDispRelease,
     FbmNewDispReleaseEnter, FbmNewDispRelease, FbmRequestReleasePicture,
     FbmReturnReleasePicture, IInv, OwnBuffers
<1>10. CASE UNCHANGED vars
  BY <1>10 DEF vars, queues, display, Published
<1> QED
  BY <1>1, <1>2, <1>3, <1>4, <1>5, <1>6, <1>7, <1>8, <1>9, <1>10
     DEF Next, Decoder, Render, Flusher

\* With its own buffers the frame buffer manager implements PictureQueue.
THEOREM PlaybackRefines == ~bUseGpuBuf /\ Spec => RefinesPictureQueue
<1>1. Init => PQ!PQInit
  BY InitRefines
<1>2. (~bUseGpuBuf => IInv) /\ ~bUseGpuBuf /\ [Next]_vars
          => [PQ!PQNext]_(PQ!pqVars) /\ ~bUseGpuBuf'
  BY StepRefines, OwnerStays
<1> QED
  BY <1>1, <1>2, PlaybackInvariant, PTL
     DEF Spec, RefinesPictureQueue, PQ!PQSpec

-----------------------------------------------------------------------------
(***************************************************************************)
(* Proofs about the frame buffer manager with buffers of the window        *)
(* system, for pools of any size: what the counters promise, and that a    *)
(* release leaves every buffer in one place.                               *)
(*                                                                         *)
(* FbmReturnBuffer puts a marked frame into the release queue also while   *)
(* the render shows it (fbm.c:597).  Such a frame comes back with the flag *)
(* bUsedByRender set, and a second release finds it free and in use: it is *)
(* then linked into two queues, and the decoder may get a buffer that the  *)
(* window system is given.  Hence two theorems: through the first release  *)
(* nothing of the kind happens, whatever the threads do; and if that one   *)
(* step is never taken, it does not happen through any number of releases. *)
(***************************************************************************)

\* FbmEnqueue, also of a node that is linked already: the list grows by at
\* most that node and holds no node twice.
LEMMA EnqueueAny ==
    ASSUME NEW S, NEW q \in Seq(S), NEW p \in S
    PROVE  /\ FbmEnqueue(q, p) \in Seq(S)
           /\ Len(FbmEnqueue(q, p)) \in Nat
           /\ Len(FbmEnqueue(q, p)) <= Len(q) + 1
           /\ Members(FbmEnqueue(q, p)) \subseteq Members(q) \cup {p}
           /\ NoDuplicates(q) => NoDuplicates(FbmEnqueue(q, p))
<1>0. Len(q) \in Nat /\ \A i \in 1 .. Len(q) : q[i] \in S
  BY LenProperties, ElementOfSeq
<1>1. CASE p \in Members(q)
  <2>1. PICK k \in 1 .. Len(q) : FbmEnqueue(q, p) = SubSeq(q, 1, k)
    BY <1>1 DEF FbmEnqueue, Members
  <2>2. k \in Nat /\ 1 <= k /\ k <= Len(q)
    BY <1>0
  <2>3. /\ SubSeq(q, 1, k) \in Seq(S)
        /\ Len(SubSeq(q, 1, k)) = k
        /\ \A i \in 1 .. k : SubSeq(q, 1, k)[i] = q[i]
    <3>1. \A i \in 1 .. k : q[i] \in S
      BY <1>0, <2>2
    <3>2. /\ SubSeq(q, 1, k) \in Seq(S)
          /\ Len(SubSeq(q, 1, k)) = IF 1 <= k THEN k - 1 + 1 ELSE 0
          /\ \A i \in 1 .. k - 1 + 1 : SubSeq(q, 1, k)[i] = q[1 + i - 1]
      BY <2>2, <3>1, SubSeqProperties
    <3> QED
      BY <2>2, <3>2
  <2>4. Members(SubSeq(q, 1, k)) \subseteq Members(q)
    BY <1>0, <2>2, <2>3 DEF Members
  <2>5. NoDuplicates(q) => NoDuplicates(SubSeq(q, 1, k))
    BY <1>0, <2>2, <2>3 DEF NoDuplicates
  <2> QED
    BY <1>0, <2>1, <2>2, <2>3, <2>4, <2>5
<1>2. CASE p \notin Members(q)
  <2>1. FbmEnqueue(q, p) = Append(q, p)
    BY <1>2 DEF FbmEnqueue
  <2>2. /\ Append(q, p) \in Seq(S)
        /\ Len(Append(q, p)) = Len(q) + 1
        /\ \A i \in 1 .. Len(q) : Append(q, p)[i] = q[i]
        /\ Append(q, p)[Len(q) + 1] = p
    BY AppendProperties
  <2>3. Members(Append(q, p)) \subseteq Members(q) \cup {p}
    BY <1>0, <2>2 DEF Members
  <2>4. NoDuplicates(q) => NoDuplicates(Append(q, p))
    BY <1>0, <1>2, <2>2 DEF NoDuplicates, Members
  <2> QED
    BY <1>0, <2>1, <2>2, <2>3, <2>4
<1> QED
  BY <1>1, <1>2

\* The first node of a list and the rest, whatever the list holds.
LEMMA DequeueAny ==
    ASSUME NEW S, NEW q \in Seq(S), q # <<>>
    PROVE  /\ Head(q) \in S
           /\ Tail(q) \in Seq(S)
           /\ Len(q) \in Nat \ {0}
           /\ Len(Tail(q)) = Len(q) - 1
BY HeadTailProperties, LenProperties, EmptySeq

-----------------------------------------------------------------------------
(* Counters, whoever owns the buffers. *)

\* A queue is never longer than its counter says, and the render is counted.
CountsCover ==
    /\ EmptyNumCovers
    /\ Len(pValidPictureQueue) <= nValidPictureNum
    /\ nRenderHoldingNum = Cardinality(bUsedByRender)

\* FbmCreateBuffer: the queues are empty or hold every frame.
LEMMA InitTypes == ASSUME Init PROVE TypeOK /\ CountsCover
<1> DEFINE q == [i \in 1 .. nMaxFrameNum |-> i - 1]
<1>1. q \in Seq(Frames) /\ Len(q) = nMaxFrameNum
  <2>1. \A i \in 1 .. nMaxFrameNum : i - 1 \in Frames
    BY FbmAssumption DEF Frames
  <2> QED
    BY <2>1, FbmAssumption, IsASeq
<1>2. <<>> \in Seq(Frames) /\ Len(<<>>) = 0
  BY EmptySeq
<1> HIDE DEF q
<1>3. /\ pEmptyBufferQueue \in Seq(Frames)
      /\ nEmptyBufferNum \in Nat
      /\ Len(pEmptyBufferQueue) = nEmptyBufferNum
  <2>1. CASE bUseGpuBuf
    BY <1>2, <2>1 DEF Init, InitialEmptyNum
  <2>2. CASE ~bUseGpuBuf
    BY <1>1, <2>2, FbmAssumption DEF Init, InitialEmptyNum, q
  <2> QED
    BY <2>1, <2>2, FbmAssumption
<1>4. nID \in [Frames -> {"index", "forbid", "release"}]
  BY DEF Init
<1>5. nValidBufNum \in 0 .. nMaxFrameNum /\ nReleaseCalls \in 0 .. MaxRelease
  BY FbmAssumption DEF Init
<1>6. invalidStatus \in BOOLEAN
  BY Zenon DEF Init
<1>7. TypeOK
  BY <1>2, <1>3, <1>4, <1>5, <1>6 DEF Init, TypeOK, Locked
<1>8. CountsCover
  <2>1. Cardinality(bUsedByRender) = 0
    BY FS_EmptySet DEF Init
  <2>2. /\ Len(pValidPictureQueue) = 0 /\ nValidPictureNum = 0
        /\ nRenderHoldingNum = 0
    BY <1>2 DEF Init
  <2> QED
    BY <1>3, <2>1, <2>2 DEF CountsCover, EmptyNumCovers
<1> QED
  BY <1>7, <1>8

\* What enqueuing a frame can do to the lengths of the queues.
LEMMA EnqueueTypes ==
    ASSUME TypeOK, NEW f \in Frames
    PROVE  /\ Len(pEmptyBufferQueue) \in Nat
           /\ Len(pValidPictureQueue) \in Nat
           /\ FbmEnqueue(pEmptyBufferQueue, f) \in Seq(Frames)
           /\ Len(FbmEnqueue(pEmptyBufferQueue, f)) \in Nat
           /\ Len(FbmEnqueue(pEmptyBufferQueue, f))
                  <= Len(pEmptyBufferQueue) + 1
           /\ FbmEnqueue(pValidPictureQueue, f) \in Seq(Frames)
           /\ Len(FbmEnqueue(pValidPictureQueue, f)) \in Nat
           /\ Len(FbmEnqueue(pValidPictureQueue, f))
                  <= Len(pValidPictureQueue) + 1
           /\ FbmEnqueue(pReleaseBufferQueue, f) \in Seq(Frames)
<1>1. /\ pEmptyBufferQueue \in Seq(Frames)
      /\ pValidPictureQueue \in Seq(Frames)
      /\ pReleaseBufferQueue \in Seq(Frames)
  BY DEF TypeOK
<1> QED
  BY <1>1, EnqueueAny, LenProperties

\* Every step keeps the types, and no counter falls below its queue.
LEMMA StepTypes ==
    ASSUME TypeOK, CountsCover, [Next]_vars
    PROVE  TypeOK' /\ CountsCover'
<1> USE DEF CountsCover, EmptyNumCovers
<1>1. CASE FbmRequestBuffer
  <2> DEFINE f == Head(pEmptyBufferQueue)
  <2>1. /\ f \in Frames
        /\ Tail(pEmptyBufferQueue) \in Seq(Frames)
        /\ Len(pEmptyBufferQueue) \in Nat \ {0}
        /\ Len(Tail(pEmptyBufferQueue)) = Len(pEmptyBufferQueue) - 1
    BY <1>1, DequeueAny DEF FbmRequestBuffer, TypeOK
  <2>2. invalidStatus' \in BOOLEAN
    BY <1>1, Zenon DEF FbmRequestBuffer, TypeOK
  <2> HIDE DEF f
  <2>3. /\ pEmptyBufferQueue' = Tail(pEmptyBufferQueue)
        /\ \/ UNCHANGED <<nEmptyBufferNum, bUsedByDecoder, decHolds>>
           \/ /\ nEmptyBufferNum' = nEmptyBufferNum - 1
              /\ bUsedByDecoder' = bUsedByDecoder \cup {f}
              /\ decHolds' = decHolds \cup {f}
        /\ UNCHANGED <<pValidPictureQueue, pReleaseBufferQueue,
                       nValidPictureNum, nRenderHoldingNum, display, binding,
                       decShared, sharing, renHolds, ctl>>
    BY <1>1 DEF FbmRequestBuffer, f
  <2> QED
    BY <2>1, <2>2, <2>3 DEF TypeOK, display, binding
<1>2. ASSUME NEW f \in Frames, NEW v \in BOOLEAN, FbmReturnBuffer(f, v)
      PROVE  TypeOK' /\ CountsCover'
  <2>1. invalidStatus' \in BOOLEAN
    BY <1>2, Zenon DEF FbmReturnBuffer, ReturnToQueue, TypeOK
  <2>2. /\ Len(pEmptyBufferQueue) \in Nat
        /\ FbmEnqueue(pEmptyBufferQueue, f) \in Seq(Frames)
        /\ Len(FbmEnqueue(pEmptyBufferQueue, f)) \in Nat
        /\ Len(FbmEnqueue(pEmptyBufferQueue, f))
               <= Len(pEmptyBufferQueue) + 1
        /\ Len(pValidPictureQueue) \in Nat
        /\ FbmEnqueue(pValidPictureQueue, f) \in Seq(Frames)
        /\ Len(FbmEnqueue(pValidPictureQueue, f)) \in Nat
        /\ Len(FbmEnqueue(pValidPictureQueue, f))
               <= Len(pValidPictureQueue) + 1
        /\ FbmEnqueue(pReleaseBufferQueue, f) \in Seq(Frames)
    BY <1>2, EnqueueTypes
  <2> QED
    BY SMTT(20), <1>2, <2>1, <2>2
       DEF FbmReturnBuffer, ReturnToQueue, DecoderReady, TypeOK, queues,
           binding
<1>3. ASSUME NEW f \in Frames, FbmShareBufferCheck(f)
      PROVE  TypeOK' /\ CountsCover'
  BY <1>3 DEF FbmShareBufferCheck, TypeOK, queues, nums, display, binding
<1>4. CASE FbmShareBuffer
  <2>1. sharing \in Frames
    BY <1>4 DEF FbmShareBuffer, TypeOK
  <2>2. invalidStatus' \in BOOLEAN
    BY <1>4, Zenon DEF FbmShareBuffer, TypeOK
  <2> QED
    BY SMTT(20), <1>4, <2>1, <2>2, EnqueueTypes
       DEF FbmShareBuffer, TypeOK, binding
<1>5. CASE FbmRequestPicture
  <2> DEFINE f == Head(pValidPictureQueue)
  <2>1. /\ f \in Frames
        /\ Tail(pValidPictureQueue) \in Seq(Frames)
        /\ Len(pValidPictureQueue) \in Nat \ {0}
        /\ Len(Tail(pValidPictureQueue)) = Len(pValidPictureQueue) - 1
    BY <1>5, DequeueAny DEF FbmRequestPicture, TypeOK
  <2>2. invalidStatus' \in BOOLEAN
    BY <1>5, Zenon DEF FbmRequestPicture, TypeOK
  <2>3. /\ pValidPictureQueue' = Tail(pValidPictureQueue)
        /\ \/ UNCHANGED <<nValidPictureNum, nRenderHoldingNum,
                          bInValidPictureQueue, bUsedByRender, renHolds>>
           \/ /\ f \notin bUsedByRender
              /\ nValidPictureNum' = nValidPictureNum - 1
              /\ nRenderHoldingNum' = nRenderHoldingNum + 1
              /\ bInValidPictureQueue' = bInValidPictureQueue \ {f}
              /\ bUsedByRender' = bUsedByRender \cup {f}
              /\ renHolds' = renHolds \cup {f}
        /\ UNCHANGED <<pEmptyBufferQueue, pReleaseBufferQueue,
                       nEmptyBufferNum, bUsedByDecoder, bAlreadyDisplayed,
                       binding, decHolds, decShared, sharing, ctl>>
    BY <1>5 DEF FbmRequestPicture
  <2> HIDE DEF f
  <2>4. nRenderHoldingNum' = Cardinality(bUsedByRender')
    BY <2>1, <2>3, CardFrames DEF TypeOK
  <2>5. Cardinality(bUsedByRender) \in Nat
    BY <2>1, CardFrames DEF TypeOK
  <2> QED
    BY <2>1, <2>2, <2>3, <2>4, <2>5 DEF TypeOK, binding
<1>6. ASSUME NEW f \in Frames, FbmReturnPicture(f)
      PROVE  TypeOK' /\ CountsCover'
  <2>1. invalidStatus' \in BOOLEAN
    BY <1>6, Zenon
       DEF FbmReturnPicture, ReturnForbidden, ReturnDisplayed, TypeOK
  <2>2. \/ UNCHANGED <<bUsedByRender, nRenderHoldingNum>>
        \/ /\ f \in bUsedByRender
           /\ bUsedByRender' = bUsedByRender \ {f}
           /\ nRenderHoldingNum' = nRenderHoldingNum - 1
    BY <1>6 DEF FbmReturnPicture, ReturnForbidden, ReturnDisplayed
  <2>3. /\ nRenderHoldingNum' = Cardinality(bUsedByRender')
        /\ nRenderHoldingNum' \in Nat
        /\ bUsedByRender' \subseteq Frames
    BY <2>2, CardFrames DEF TypeOK
  <2>4. nID' \in [Frames -> {"index", "forbid", "release"}]
    BY <1>6 DEF FbmReturnPicture, ReturnForbidden, ReturnDisplayed, TypeOK
  <2>5. /\ pEmptyBufferQueue' \in Seq(Frames)
        /\ nEmptyBufferNum' \in Nat
        /\ Len(pEmptyBufferQueue') <= nEmptyBufferNum'
        /\ pReleaseBufferQueue' \in Seq(Frames)
    BY SMTT(20), <1>6, EnqueueTypes
       DEF FbmReturnPicture, ReturnForbidden, ReturnDisplayed, TypeOK
  <2>6. bAlreadyDisplayed' \subseteq Frames
    BY <1>6 DEF FbmReturnPicture, ReturnForbidden, ReturnDisplayed, TypeOK
  <2> QED
    BY <1>6, <2>1, <2>3, <2>4, <2>5, <2>6 DEF FbmReturnPicture, TypeOK
<1>7. CASE FbmFlushEnter
  BY <1>7 DEF FbmFlushEnter, TypeOK, Locked, queues, nums, display, binding,
     clients
<1>8. CASE FbmFlush
  <2>1. CASE pValidPictureQueue = <<>>
    BY <1>8, <2>1 DEF FbmFlush, AfterFlush, TypeOK, Locked, binding, clients
  <2>2. CASE pValidPictureQueue # <<>>
    <3> DEFINE f == Head(pValidPictureQueue)
    <3>1. /\ f \in Frames
          /\ Tail(pValidPictureQueue) \in Seq(Frames)
          /\ Len(pValidPictureQueue) \in Nat \ {0}
          /\ Len(Tail(pValidPictureQueue)) = Len(pValidPictureQueue) - 1
      BY <2>2, DequeueAny DEF TypeOK
    <3>2. invalidStatus' \in BOOLEAN
      BY <1>8, Zenon DEF FbmFlush, TypeOK
    <3>3. /\ pValidPictureQueue' = Tail(pValidPictureQueue)
          /\ nValidPictureNum' = nValidPictureNum - 1
          /\ ctl' \in {ctl, AfterFlush}
          /\ bInValidPictureQueue' \subseteq bInValidPictureQueue
          /\ bAlreadyDisplayed' \subseteq bAlreadyDisplayed \cup {f}
          /\ \/ UNCHANGED <<pEmptyBufferQueue, nEmptyBufferNum>>
             \/ /\ pEmptyBufferQueue' = FbmEnqueue(pEmptyBufferQueue, f)
                /\ nEmptyBufferNum' = nEmptyBufferNum + 1
      BY <1>8, <2>2 DEF FbmFlush, FlushedNum
    <3>4. UNCHANGED <<pReleaseBufferQueue, nRenderHoldingNum, bUsedByDecoder,
                      bUsedByRender, binding, clients>>
      BY <1>8 DEF FbmFlush
    <3> HIDE DEF f
    <3>0. /\ Len(pEmptyBufferQueue) \in Nat
          /\ FbmEnqueue(pEmptyBufferQueue, f) \in Seq(Frames)
          /\ Len(FbmEnqueue(pEmptyBufferQueue, f)) \in Nat
          /\ Len(FbmEnqueue(pEmptyBufferQueue, f))
                 <= Len(pEmptyBufferQueue) + 1
      BY <3>1, EnqueueTypes
    <3>5. /\ pEmptyBufferQueue' \in Seq(Frames)
          /\ nEmptyBufferNum' \in Nat
          /\ Len(pEmptyBufferQueue') <= nEmptyBufferNum'
      BY <3>0, <3>3 DEF TypeOK
    <3> QED
      BY <3>1, <3>2, <3>3, <3>4, <3>5
         DEF TypeOK, AfterFlush, Locked, binding, clients
  <2> QED
    BY <2>1, <2>2
<1>9. ASSUME NEW b \in BOOLEAN, FbmSetFbmBufAddress(b)
      PROVE  TypeOK' /\ CountsCover'
  <2>1. nValidBufNum \in Frames /\ nValidBufNum' \in 0 .. nMaxFrameNum
    BY <1>9, FbmAssumption DEF FbmSetFbmBufAddress, TypeOK, Frames
  <2>2. /\ Len(pEmptyBufferQueue) \in Nat
        /\ FbmEnqueue(pEmptyBufferQueue, nValidBufNum) \in Seq(Frames)
        /\ Len(FbmEnqueue(pEmptyBufferQueue, nValidBufNum)) \in Nat
        /\ Len(FbmEnqueue(pEmptyBufferQueue, nValidBufNum))
               <= Len(pEmptyBufferQueue) + 1
    BY <2>1, EnqueueTypes
  <2>3. /\ pEmptyBufferQueue' \in Seq(Frames)
        /\ nEmptyBufferNum' \in Nat
        /\ Len(pEmptyBufferQueue') <= nEmptyBufferNum'
    BY <1>9, <2>2 DEF FbmSetFbmBufAddress, TypeOK
  <2>4. /\ nID' \in [Frames -> {"index", "forbid", "release"}]
        /\ renHolds' \subseteq Frames
    BY <1>9, <2>1 DEF FbmSetFbmBufAddress, TypeOK
  <2> QED
    BY <1>9, <2>1, <2>3, <2>4 DEF FbmSetFbmBufAddress, TypeOK, display
<1>10. CASE FbmSetNewDispRelease
  <2>1. nReleaseCalls' \in 0 .. MaxRelease
    BY <1>10, FbmAssumption DEF FbmSetNewDispRelease, TypeOK
  <2> QED
    BY <1>10, <2>1
       DEF FbmSetNewDispRelease, TypeOK, queues, nums, display, clients
<1>11. CASE FbmNewDispReleaseEnter
  BY <1>11 DEF FbmNewDispReleaseEnter, TypeOK, Locked, queues, nums, display,
     binding, clients
<1>12. CASE FbmNewDispRelease
  <2>1. CASE pEmptyBufferQueue = <<>>
    BY <1>12, <2>1 DEF FbmNewDispRelease, TypeOK, display, binding, clients
  <2>2. CASE pEmptyBufferQueue # <<>>
    <3> DEFINE f == Head(pEmptyBufferQueue)
    <3>1. /\ f \in Frames
          /\ Tail(pEmptyBufferQueue) \in Seq(Frames)
          /\ Len(pEmptyBufferQueue) \in Nat \ {0}
          /\ Len(Tail(pEmptyBufferQueue)) = Len(pEmptyBufferQueue) - 1
      BY <2>2, DequeueAny DEF TypeOK
    <3>2. invalidStatus' \in BOOLEAN
      BY <1>12, Zenon DEF FbmNewDispRelease, TypeOK
    <3>0. /\ FbmEnqueue(pReleaseBufferQueue, f) \in Seq(Frames)
      BY <3>1, EnqueueTypes
    <3>3. /\ pEmptyBufferQueue' = Tail(pEmptyBufferQueue)
          /\ ctl' \in {ctl, "idle"}
          /\ nEmptyBufferNum' \in {nEmptyBufferNum, nEmptyBufferNum - 1}
          /\ pReleaseBufferQueue' \in
                 {pReleaseBufferQueue, FbmEnqueue(pReleaseBufferQueue, f)}
      BY <1>12, <2>2 DEF FbmNewDispRelease
    <3>4. UNCHANGED <<pValidPictureQueue, nValidPictureNum,
                      nRenderHoldingNum, bUsedByDecoder, display, binding,
                      clients>>
      BY <1>12 DEF FbmNewDispRelease
    <3> HIDE DEF f
    <3> QED
      BY <3>0, <3>1, <3>2, <3>3, <3>4
         DEF TypeOK, display, binding, clients
  <2> QED
    BY <2>1, <2>2
<1>13. CASE FbmRequestReleasePicture
  <2>1. /\ Head(pReleaseBufferQueue) \in Frames
        /\ Tail(pReleaseBufferQueue) \in Seq(Frames)
    BY <1>13, DequeueAny DEF FbmRequestReleasePicture, TypeOK
  <2> QED
    BY <1>13, <2>1
       DEF FbmRequestReleasePicture, TypeOK, nums, display, clients
<1>14. ASSUME NEW b \in BOOLEAN, FbmReturnReleasePicture(b)
       PROVE  TypeOK' /\ CountsCover'
  <2>1. PICK f \in Released :
           /\ bNeedRelease' = bNeedRelease \ {f}
           /\ \/ /\ nID' = [nID EXCEPT ![f] = "forbid"]
                 /\ renHolds' = renHolds \cup {f}
                 /\ UNCHANGED <<pEmptyBufferQueue, nEmptyBufferNum>>
              \/ /\ nID' = [nID EXCEPT ![f] = "index"]
                 /\ pEmptyBufferQueue' = FbmEnqueue(pEmptyBufferQueue, f)
                 /\ nEmptyBufferNum' = nEmptyBufferNum + 1
                 /\ UNCHANGED renHolds
    BY <1>14 DEF FbmReturnReleasePicture
  <2>2. f \in Frames
    BY DEF Released, TypeOK
  <2>3. /\ Len(pEmptyBufferQueue) \in Nat
        /\ FbmEnqueue(pEmptyBufferQueue, f) \in Seq(Frames)
        /\ Len(FbmEnqueue(pEmptyBufferQueue, f)) \in Nat
        /\ Len(FbmEnqueue(pEmptyBufferQueue, f))
               <= Len(pEmptyBufferQueue) + 1
    BY <2>2, EnqueueTypes
  <2> QED
    BY SMTT(20), <1>14, <2>1, <2>2, <2>3
       DEF FbmReturnReleasePicture, TypeOK, display
<1>15. CASE UNCHANGED vars
  BY <1>15 DEF vars, queues, nums, display, binding, clients, TypeOK
<1> QED
  BY <1>1, <1>2, <1>3, <1>4, <1>5, <1>6, <1>7, <1>8, <1>9, <1>10, <1>11,
     <1>12, <1>13, <1>14, <1>15
     DEF Next, Decoder, Render, Flusher, Rebinder

\* Every variable keeps its type, whoever owns the buffers and however often
\* they are released.
THEOREM TypesStay == Spec => [](TypeOK /\ CountsCover)
<1>1. Init => TypeOK /\ CountsCover
  BY InitTypes
<1>2. TypeOK /\ CountsCover /\ [Next]_vars => TypeOK' /\ CountsCover'
  BY StepTypes
<1> QED
  BY <1>1, <1>2, PTL DEF Spec

\* The decoder never reads that no buffer is empty while one is.
THEOREM EmptyNumNeverLow == Spec => []EmptyNumCovers
<1>1. TypeOK /\ CountsCover => EmptyNumCovers
  BY DEF CountsCover
<1> QED
  BY <1>1, TypesStay, PTL

-----------------------------------------------------------------------------
(* Where a frame is, with buffers of the window system. *)

\* The frames linked into each queue.
Empty == Members(pEmptyBufferQueue)
Waiting == Members(pValidPictureQueue)
Releasing == Members(pReleaseBufferQueue)

\* The frames whose nID is no index.
Tagged == {f \in Frames : nID[f] # "index"}

\* The frames that no buffer has been bound to.
Unbound == {f \in Frames : bUseGpuBuf /\ nValidBufNum <= f}

\* A frame is linked into one queue, once, and into none while it is tagged.
LinkedOnce ==
    /\ NoDuplicates(pEmptyBufferQueue)
    /\ NoDuplicates(pValidPictureQueue)
    /\ NoDuplicates(pReleaseBufferQueue)
    /\ Empty \cap Waiting = {}
    /\ Empty \cap Releasing = {}
    /\ Waiting \cap Releasing = {}
    /\ Tagged \cap (Empty \cup Waiting \cup Releasing) = {}

\* What the decoder holds is marked as its own, and is neither free nor on
\* its way to the window system.
DecoderKnown ==
    /\ decHolds = bUsedByDecoder
    /\ bUsedByDecoder \cap (Empty \cup Releasing \cup Tagged) = {}

\* The other flags agree with the queue and with each other.  The render may
\* have lost a frame that is marked as its own, never the other way round.
FlagsAgree ==
    /\ Waiting = bInValidPictureQueue
    /\ bInValidPictureQueue \cap bUsedByRender = {}
    /\ bAlreadyDisplayed \subseteq
           bUsedByDecoder \ (bInValidPictureQueue \cup bUsedByRender)
    /\ \A f \in renHolds : nID[f] # "forbid" => f \in bUsedByRender

\* Only marked frames are released; while FbmSetNewDispRelease is at work,
\* all that are bound are marked; and a marked frame is not free while the
\* render shows it.
ReleaseMarked ==
    /\ Releasing \subseteq bNeedRelease
    /\ \A f \in Frames : nID[f] = "release" => f \in bNeedRelease
    /\ bNeedRelease \cap bUsedByRender \cap Empty = {}
    /\ ctl \notin {"idle", "flush"} =>
           bUseGpuBuf /\ Frames \ Unbound \subseteq bNeedRelease

\* Nothing is known of a frame without a buffer.
UnboundUnused ==
    Unbound \cap (Empty \cup Waiting \cup Releasing \cup Tagged
                     \cup bNeedRelease \cup bUsedByDecoder
                     \cup bUsedByRender) = {}

\* What every step keeps, but the beginning of a release.
Sound ==
    /\ LinkedOnce
    /\ DecoderKnown
    /\ SharedOnce
    /\ FlagsAgree
    /\ ReleaseMarked
    /\ UnboundUnused

\* No frame the render shows is free, released or on its way there.
Untangled == bUsedByRender \cap (Empty \cup Releasing \cup Tagged) = {}

\* The decoder does not return a marked frame that the render shows: the
\* step after which FbmReturnBuffer releases it under the render.
NoShownReturned ==
    \A f \in bNeedRelease \cap bUsedByRender :
        f \in bUsedByDecoder => f \in bUsedByDecoder'

\* What a step does to all of this.
StepSafe ==
    /\ Sound'
    /\ Untangled /\ NoShownReturned => Untangled'
    /\ Untangled /\ StatusValid => StatusValid'
    /\ Untangled /\ Counted => Counted'

\* The decoder takes the head of the empty queue, unless the render is
\* marked as using it.
LEMMA RequestBufferSafe ==
    ASSUME TypeOK, CountsCover, TypeOK', CountsCover', Sound,
           FbmRequestBuffer
    PROVE  StepSafe
<1> USE DEF Sound, Empty, Waiting, Releasing
<1> DEFINE f == Head(pEmptyBufferQueue)
<1>1. /\ f \in Frames
      /\ f \in Empty
      /\ Len(Tail(pEmptyBufferQueue)) = Len(pEmptyBufferQueue) - 1
      /\ Members(Tail(pEmptyBufferQueue)) = Empty \ {f}
      /\ NoDuplicates(Tail(pEmptyBufferQueue))
  BY DequeueFacts DEF FbmRequestBuffer, TypeOK, LinkedOnce
<1>2. f \notin bUsedByDecoder \cup bInValidPictureQueue
               \cup bAlreadyDisplayed
  BY <1>1 DEF LinkedOnce, DecoderKnown, FlagsAgree
<1>3. /\ pEmptyBufferQueue' = Tail(pEmptyBufferQueue)
      /\ UNCHANGED <<pValidPictureQueue, pReleaseBufferQueue,
                     nValidPictureNum, nRenderHoldingNum, display, binding,
                     decShared, sharing, renHolds, ctl>>
      /\ f \in bUsedByRender => UNCHANGED <<bUsedByDecoder, decHolds>>
      /\ f \notin bUsedByRender =>
             /\ nEmptyBufferNum' = nEmptyBufferNum - 1
             /\ bUsedByDecoder' = bUsedByDecoder \cup {f}
             /\ decHolds' = decHolds \cup {f}
             /\ invalidStatus' = invalidStatus
  BY <1>2 DEF FbmRequestBuffer
<1> HIDE DEF f
<1>4. Empty' = Empty \ {f} /\ Waiting' = Waiting /\ Releasing' = Releasing
  BY <1>1, <1>3
<1>5. Tagged' = Tagged /\ Unbound' = Unbound
  BY <1>3 DEF Tagged, Unbound, binding
<1> HIDE DEF Empty, Waiting, Releasing
<1>6. LinkedOnce'
  BY <1>1, <1>3, <1>4, <1>5 DEF LinkedOnce
<1>7. DecoderKnown'
  <2>1. f \notin Releasing \cup Tagged
    BY <1>1 DEF LinkedOnce
  <2>2. CASE f \in bUsedByRender
    BY <1>3, <1>4, <1>5, <2>2 DEF DecoderKnown
  <2>3. CASE f \notin bUsedByRender
    <3>1. /\ bUsedByDecoder' = bUsedByDecoder \cup {f}
          /\ decHolds' = decHolds \cup {f}
      BY <1>3, <2>3
    <3> QED
      BY <1>4, <1>5, <2>1, <3>1 DEF DecoderKnown
  <2> QED
    BY <2>2, <2>3
<1>8. SharedOnce'
  BY <1>1, <1>2, <1>3 DEF SharedOnce, Published, display
<1>9. FlagsAgree'
  BY <1>1, <1>2, <1>3, <1>4 DEF FlagsAgree, display, binding
<1>10. ReleaseMarked'
  BY <1>1, <1>3, <1>4, <1>5 DEF ReleaseMarked, display, binding
<1>11. UnboundUnused'
  BY <1>1, <1>3, <1>4, <1>5 DEF UnboundUnused, display, binding
<1>12. Untangled => Untangled'
  BY <1>3, <1>4, <1>5 DEF Untangled, display
<1>13. Untangled => f \notin bUsedByRender
  BY <1>1 DEF Untangled
<1>14. Untangled /\ StatusValid => StatusValid'
  BY <1>3, <1>13 DEF StatusValid
<1>15. Untangled /\ Counted => Counted'
  BY <1>1, <1>3, <1>13 DEF Counted, display
<1> QED
  BY <1>6, <1>7, <1>8, <1>9, <1>10, <1>11, <1>12, <1>14, <1>15 DEF StepSafe

\* The decoder gives a buffer back: to the release queue if it is marked, or
\* where its flags say.
LEMMA ReturnBufferSafe ==
    ASSUME TypeOK, CountsCover, TypeOK', CountsCover', Sound,
           NEW f \in Frames, NEW v \in BOOLEAN, FbmReturnBuffer(f, v)
    PROVE  StepSafe
<1> USE DEF Sound
<1>1. /\ f \in decHolds
      /\ f \in bUsedByDecoder
      /\ f \notin Empty \cup Releasing \cup Tagged
      /\ nID[f] = "index"
      /\ sharing = NULL
  BY DEF FbmReturnBuffer, DecoderReady, DecoderKnown, Tagged
<1>2. /\ ReturnToQueue(f, v)
      /\ decHolds' = decHolds \ {f}
      /\ decShared' = decShared \ {f}
      /\ bUsedByDecoder' = bUsedByDecoder \ {f}
      /\ UNCHANGED <<nRenderHoldingNum, bUsedByRender, binding, sharing,
                     renHolds, ctl>>
  BY <1>1 DEF FbmReturnBuffer, ReturnToQueue
<1>3. Tagged' = Tagged /\ Unbound' = Unbound
  BY <1>2 DEF Tagged, Unbound, binding
<1>4. StatusValid => StatusValid'
  BY <1>1, <1>2 DEF ReturnToQueue, FlagsAgree, StatusValid
<1>5. /\ \/ bAlreadyDisplayed' = bAlreadyDisplayed
         \/ bAlreadyDisplayed' = bAlreadyDisplayed \ {f}
      /\ f \notin bAlreadyDisplayed'
  BY <1>1, <1>2 DEF ReturnToQueue, FlagsAgree
<1>6. CASE /\ f \in bNeedRelease
           /\ f \notin bInValidPictureQueue
  <2>1. /\ pReleaseBufferQueue' = FbmEnqueue(pReleaseBufferQueue, f)
        /\ UNCHANGED <<pEmptyBufferQueue, pValidPictureQueue,
                       nEmptyBufferNum, nValidPictureNum,
                       bInValidPictureQueue>>
    BY <1>2, <1>6 DEF ReturnToQueue
  <2>2. /\ Empty' = Empty /\ Waiting' = Waiting
        /\ Releasing' = Releasing \cup {f}
        /\ NoDuplicates(pReleaseBufferQueue')
    BY <1>1, <2>1, EnqueueFacts
       DEF TypeOK, LinkedOnce, Empty, Waiting, Releasing
  <2>3. f \notin Waiting
    BY <1>6 DEF FlagsAgree
  <2>4. LinkedOnce'
    BY <1>1, <1>3, <2>1, <2>2, <2>3 DEF LinkedOnce
  <2>5. DecoderKnown'
    BY <1>1, <1>2, <1>3, <2>2 DEF DecoderKnown
  <2>6. SharedOnce'
    BY <1>2, <1>5, <2>1 DEF SharedOnce, Published
  <2>7. FlagsAgree'
    BY <1>2, <1>5, <2>1, <2>2 DEF FlagsAgree, binding
  <2>8. ReleaseMarked'
    BY <1>2, <1>3, <1>6, <2>2 DEF ReleaseMarked, binding
  <2>9. UnboundUnused'
    BY <1>1, <1>2, <1>3, <2>2 DEF UnboundUnused, binding
  <2>10. Untangled /\ NoShownReturned => Untangled'
    BY <1>1, <1>2, <1>3, <1>6, <2>2 DEF Untangled, NoShownReturned
  <2>11. Counted => Counted'
    BY <1>2, <2>1 DEF Counted
  <2> QED
    BY <1>4, <2>4, <2>5, <2>6, <2>7, <2>8, <2>9, <2>10, <2>11 DEF StepSafe
<1>7. CASE /\ f \notin bNeedRelease \/ f \in bInValidPictureQueue
           /\ f \in bInValidPictureQueue \cup bUsedByRender
  <2>1. UNCHANGED <<queues, nEmptyBufferNum, nValidPictureNum,
                    bInValidPictureQueue>>
    BY <1>2, <1>7 DEF ReturnToQueue, queues
  <2>2. Empty' = Empty /\ Waiting' = Waiting /\ Releasing' = Releasing
    BY <2>1 DEF Empty, Waiting, Releasing, queues
  <2>4. LinkedOnce'
    BY <1>3, <2>1, <2>2 DEF LinkedOnce, queues
  <2>5. DecoderKnown'
    BY <1>1, <1>2, <1>3, <2>2 DEF DecoderKnown
  <2>6. SharedOnce'
    BY <1>2, <1>5, <2>1 DEF SharedOnce, Published
  <2>7. FlagsAgree'
    BY <1>2, <1>5, <2>1, <2>2 DEF FlagsAgree, binding
  <2>8. ReleaseMarked'
    BY <1>2, <1>3, <2>2 DEF ReleaseMarked, binding
  <2>9. UnboundUnused'
    BY <1>1, <1>2, <1>3, <2>2 DEF UnboundUnused, binding
  <2>10. Untangled => Untangled'
    BY <1>2, <1>3, <2>2 DEF Untangled
  <2>11. Counted => Counted'
    BY <1>2, <2>1 DEF Counted, queues
  <2> QED
    BY <1>4, <2>4, <2>5, <2>6, <2>7, <2>8, <2>9, <2>10, <2>11 DEF StepSafe
<1>8. CASE /\ f \notin bNeedRelease
           /\ f \notin bInValidPictureQueue \cup bUsedByRender
           /\ f \notin bAlreadyDisplayed /\ v
  <2>1. /\ pValidPictureQueue' = FbmEnqueue(pValidPictureQueue, f)
        /\ nValidPictureNum' = nValidPictureNum + 1
        /\ bInValidPictureQueue' = bInValidPictureQueue \cup {f}
        /\ UNCHANGED <<pEmptyBufferQueue, pReleaseBufferQueue,
                       nEmptyBufferNum, bAlreadyDisplayed>>
    BY <1>2, <1>8 DEF ReturnToQueue
  <2>3. f \notin Waiting
    BY <1>8 DEF FlagsAgree
  <2>2. /\ Empty' = Empty /\ Releasing' = Releasing
        /\ Waiting' = Waiting \cup {f}
        /\ NoDuplicates(pValidPictureQueue')
        /\ Len(pValidPictureQueue') = Len(pValidPictureQueue) + 1
    BY <2>1, <2>3, EnqueueFacts
       DEF TypeOK, LinkedOnce, Empty, Waiting, Releasing
  <2>4. LinkedOnce'
    BY <1>1, <1>3, <2>1, <2>2 DEF LinkedOnce
  <2>5. DecoderKnown'
    BY <1>1, <1>2, <1>3, <2>2 DEF DecoderKnown
  <2>6. SharedOnce'
    BY <1>2, <1>8, <2>1 DEF SharedOnce, Published
  <2>7. FlagsAgree'
    BY <1>2, <1>8, <2>1, <2>2 DEF FlagsAgree, binding
  <2>8. ReleaseMarked'
    BY <1>2, <1>3, <2>2 DEF ReleaseMarked, binding
  <2>9. UnboundUnused'
    BY <1>1, <1>2, <1>3, <2>2 DEF UnboundUnused, binding
  <2>10. Untangled => Untangled'
    BY <1>2, <1>3, <2>2 DEF Untangled
  <2>11. Counted => Counted'
    BY <1>2, <2>1, <2>2 DEF Counted
  <2> QED
    BY <1>4, <2>4, <2>5, <2>6, <2>7, <2>8, <2>9, <2>10, <2>11 DEF StepSafe
<1>9. CASE /\ f \notin bNeedRelease
           /\ f \notin bInValidPictureQueue \cup bUsedByRender
           /\ f \in bAlreadyDisplayed \/ ~v
  <2>1. /\ pEmptyBufferQueue' = FbmEnqueue(pEmptyBufferQueue, f)
        /\ nEmptyBufferNum' = nEmptyBufferNum + 1
        /\ UNCHANGED <<pValidPictureQueue, pReleaseBufferQueue,
                       nValidPictureNum, bInValidPictureQueue>>
    BY <1>2, <1>9 DEF ReturnToQueue
  <2>2. /\ Waiting' = Waiting /\ Releasing' = Releasing
        /\ Empty' = Empty \cup {f}
        /\ NoDuplicates(pEmptyBufferQueue')
        /\ Len(pEmptyBufferQueue') = Len(pEmptyBufferQueue) + 1
    BY <1>1, <2>1, EnqueueFacts
       DEF TypeOK, LinkedOnce, Empty, Waiting, Releasing
  <2>3. f \notin Waiting
    BY <1>9 DEF FlagsAgree
  <2>4. LinkedOnce'
    BY <1>1, <1>3, <2>1, <2>2, <2>3 DEF LinkedOnce
  <2>5. DecoderKnown'
    BY <1>1, <1>2, <1>3, <2>2 DEF DecoderKnown
  <2>6. SharedOnce'
    BY <1>2, <1>5, <2>1 DEF SharedOnce, Published
  <2>7. FlagsAgree'
    BY <1>2, <1>5, <2>1, <2>2 DEF FlagsAgree, binding
  <2>8. ReleaseMarked'
    BY <1>2, <1>3, <1>9, <2>2 DEF ReleaseMarked, binding
  <2>9. UnboundUnused'
    BY <1>1, <1>2, <1>3, <2>2 DEF UnboundUnused, binding
  <2>10. Untangled => Untangled'
    BY <1>2, <1>3, <1>9, <2>2 DEF Untangled
  <2>11. Counted => Counted'
    BY <1>2, <2>1, <2>2 DEF Counted
  <2> QED
    BY <1>4, <2>4, <2>5, <2>6, <2>7, <2>8, <2>9, <2>10, <2>11 DEF StepSafe
<1> QED
  BY <1>6, <1>7, <1>8, <1>9

\* The unlocked half of FbmShareBuffer: nothing of this is written there.
LEMMA ShareBufferCheckSafe ==
    ASSUME TypeOK, Sound, NEW f \in Frames, FbmShareBufferCheck(f)
    PROVE  StepSafe
<1> USE DEF Sound
<1>1. /\ f \in decHolds \ decShared
      /\ decShared' = decShared \cup {f}
      /\ sharing' \in {f, NULL}
      /\ UNCHANGED <<queues, nums, bUsedByDecoder, display, binding,
                     invalidStatus, decHolds, renHolds, ctl>>
  BY DEF FbmShareBufferCheck
<1>2. /\ Empty' = Empty /\ Waiting' = Waiting /\ Releasing' = Releasing
      /\ Tagged' = Tagged /\ Unbound' = Unbound
  BY <1>1 DEF Empty, Waiting, Releasing, Tagged, Unbound, queues, binding
<1>3. LinkedOnce' /\ DecoderKnown' /\ FlagsAgree' /\ ReleaseMarked'
      /\ UnboundUnused' /\ (Untangled => Untangled')
  BY <1>1, <1>2 DEF LinkedOnce, DecoderKnown, FlagsAgree, ReleaseMarked,
     UnboundUnused, Untangled, queues, display, binding
<1>4. SharedOnce'
  <2>1. Published' = Published
    BY <1>1 DEF Published, display
  <2> QED
    BY <1>1, <2>1, NullIsNoFrame DEF SharedOnce, Published, TypeOK
<1>5. /\ StatusValid => StatusValid'
      /\ Counted => Counted'
  BY <1>1 DEF StatusValid, Counted, queues, nums, display
<1> QED
  BY <1>3, <1>4, <1>5 DEF StepSafe

\* The locked half publishes the frame: no check of it can fail, and it
\* makes no difference that the frame may have been marked in between.
LEMMA ShareBufferSafe ==
    ASSUME TypeOK, Sound, FbmShareBuffer
    PROVE  StepSafe
<1> USE DEF Sound
<1>1. /\ sharing \in Frames
      /\ sharing \in bUsedByDecoder
      /\ sharing \notin bInValidPictureQueue \cup bUsedByRender
                            \cup bAlreadyDisplayed
      /\ sharing \in decShared
      /\ sharing \notin Waiting
  BY DEF FbmShareBuffer, TypeOK, DecoderKnown, SharedOnce, Published,
     FlagsAgree
<1>2. /\ sharing' = NULL
      /\ bInValidPictureQueue' = bInValidPictureQueue \cup {sharing}
      /\ pValidPictureQueue' = FbmEnqueue(pValidPictureQueue, sharing)
      /\ nValidPictureNum' = nValidPictureNum + 1
      /\ UNCHANGED <<invalidStatus, pEmptyBufferQueue, pReleaseBufferQueue,
                     nEmptyBufferNum, nRenderHoldingNum, bUsedByDecoder,
                     bUsedByRender, bAlreadyDisplayed, binding, decHolds,
                     decShared, renHolds, ctl>>
  BY <1>1 DEF FbmShareBuffer
<1>3. /\ Empty' = Empty /\ Releasing' = Releasing
      /\ Waiting' = Waiting \cup {sharing}
      /\ NoDuplicates(pValidPictureQueue')
      /\ Len(pValidPictureQueue') = Len(pValidPictureQueue) + 1
  BY <1>1, <1>2, EnqueueFacts
     DEF TypeOK, LinkedOnce, Empty, Waiting, Releasing
<1>4. Tagged' = Tagged /\ Unbound' = Unbound
  BY <1>2 DEF Tagged, Unbound, binding
<1>5. sharing \notin Empty \cup Releasing \cup Tagged
  BY <1>1 DEF DecoderKnown
<1>6. LinkedOnce'
  BY <1>2, <1>3, <1>4, <1>5 DEF LinkedOnce
<1>7. DecoderKnown'
  BY <1>2, <1>3, <1>4 DEF DecoderKnown
<1>8. SharedOnce'
  BY <1>1, <1>2, NullIsNoFrame DEF SharedOnce, Published, TypeOK
<1>9. FlagsAgree'
  BY <1>1, <1>2, <1>3 DEF FlagsAgree, binding
<1>10. ReleaseMarked'
  BY <1>2, <1>3, <1>4 DEF ReleaseMarked, binding
<1>11. UnboundUnused'
  BY <1>1, <1>2, <1>3, <1>4 DEF UnboundUnused, binding
<1>12. Untangled => Untangled'
  BY <1>2, <1>3, <1>4 DEF Untangled
<1>13. /\ StatusValid => StatusValid'
       /\ Counted => Counted'
  BY <1>2, <1>3 DEF StatusValid, Counted
<1> QED
  BY <1>6, <1>7, <1>8, <1>9, <1>10, <1>11, <1>12, <1>13 DEF StepSafe

\* The render takes the oldest picture that waits.
LEMMA RequestPictureSafe ==
    ASSUME TypeOK, CountsCover, TypeOK', CountsCover', Sound,
           FbmRequestPicture
    PROVE  StepSafe
<1> USE DEF Sound
<1> DEFINE f == Head(pValidPictureQueue)
<1>1. /\ f \in Frames
      /\ f \in Waiting
      /\ Len(Tail(pValidPictureQueue)) = Len(pValidPictureQueue) - 1
      /\ Members(Tail(pValidPictureQueue)) = Waiting \ {f}
      /\ NoDuplicates(Tail(pValidPictureQueue))
  BY DequeueFacts DEF FbmRequestPicture, TypeOK, LinkedOnce, Waiting
<1>2. /\ f \in bInValidPictureQueue
      /\ f \notin bUsedByRender \cup bAlreadyDisplayed
      /\ f \notin Empty \cup Releasing \cup Tagged \cup Unbound
  BY <1>1 DEF FlagsAgree, LinkedOnce, UnboundUnused
<1>3. /\ pValidPictureQueue' = Tail(pValidPictureQueue)
      /\ nValidPictureNum' = nValidPictureNum - 1
      /\ nRenderHoldingNum' = nRenderHoldingNum + 1
      /\ bInValidPictureQueue' = bInValidPictureQueue \ {f}
      /\ bUsedByRender' = bUsedByRender \cup {f}
      /\ renHolds' = renHolds \cup {f}
      /\ UNCHANGED <<invalidStatus, pEmptyBufferQueue, pReleaseBufferQueue,
                     nEmptyBufferNum, bUsedByDecoder, bAlreadyDisplayed,
                     binding, decHolds, decShared, sharing, ctl>>
  BY <1>2 DEF FbmRequestPicture
<1> HIDE DEF f
<1>4. /\ Empty' = Empty /\ Releasing' = Releasing
      /\ Waiting' = Waiting \ {f}
  BY <1>1, <1>3 DEF Empty, Waiting, Releasing
<1>5. Tagged' = Tagged /\ Unbound' = Unbound
  BY <1>3 DEF Tagged, Unbound, binding
<1>6. LinkedOnce'
  BY <1>1, <1>3, <1>4, <1>5 DEF LinkedOnce
<1>7. DecoderKnown'
  BY <1>3, <1>4, <1>5 DEF DecoderKnown
<1>8. SharedOnce'
  BY <1>2, <1>3 DEF SharedOnce, Published
<1>9. FlagsAgree'
  BY <1>1, <1>2, <1>3, <1>4 DEF FlagsAgree, binding
<1>10. ReleaseMarked'
  BY <1>2, <1>3, <1>4, <1>5 DEF ReleaseMarked, binding
<1>11. UnboundUnused'
  BY <1>2, <1>3, <1>4, <1>5 DEF UnboundUnused, binding
<1>12. Untangled => Untangled'
  BY <1>2, <1>3, <1>4, <1>5 DEF Untangled
<1>13. /\ StatusValid => StatusValid'
       /\ Counted => Counted'
  BY <1>1, <1>3 DEF StatusValid, Counted, CountsCover
<1> QED
  BY <1>6, <1>7, <1>8, <1>9, <1>10, <1>11, <1>12, <1>13 DEF StepSafe

\* The render gives a frame back that the display was to leave alone.
LEMMA ReturnForbiddenSafe ==
    ASSUME TypeOK, CountsCover, TypeOK', CountsCover', Sound,
           NEW f \in Frames, FbmReturnPicture(f), nID[f] = "forbid"
    PROVE  StepSafe
<1> USE DEF Sound
<1>1. /\ ReturnForbidden(f)
      /\ renHolds' = renHolds \ {f}
      /\ UNCHANGED <<pValidPictureQueue, nValidPictureNum, bUsedByDecoder,
                     bInValidPictureQueue, bUseGpuBuf, bNeedRelease,
                     nValidBufNum,
                     nReleaseCalls, decHolds, decShared, sharing, ctl,
                     pReleaseBufferQueue, nRenderHoldingNum, bUsedByRender,
                     bAlreadyDisplayed>>
  BY DEF FbmReturnPicture, ReturnForbidden
<1>2. /\ f \in Tagged
      /\ f \notin Empty \cup Waiting \cup Releasing
      /\ f \notin bInValidPictureQueue \cup bUsedByDecoder
                      \cup bAlreadyDisplayed \cup Unbound
  BY DEF Tagged, LinkedOnce, DecoderKnown, FlagsAgree, UnboundUnused
<1>3. Unbound' = Unbound /\ Published' = Published
  BY <1>1 DEF Unbound, Published
<1>4. SharedOnce'
  BY <1>1, <1>3 DEF SharedOnce
<1>5. CASE f \in bUsedByRender
  <2>1. UNCHANGED <<pEmptyBufferQueue, nEmptyBufferNum, nID>>
    BY <1>1, <1>5 DEF ReturnForbidden
  <2>2. /\ Empty' = Empty /\ Waiting' = Waiting /\ Releasing' = Releasing
        /\ Tagged' = Tagged
    BY <1>1, <2>1 DEF Empty, Waiting, Releasing, Tagged
  <2>3. LinkedOnce' /\ DecoderKnown' /\ FlagsAgree' /\ ReleaseMarked'
        /\ UnboundUnused'
    BY <1>1, <1>3, <2>1, <2>2 DEF LinkedOnce, DecoderKnown, FlagsAgree,
       ReleaseMarked, UnboundUnused
  <2>4. ~Untangled
    BY <1>2, <1>5 DEF Untangled
  <2> QED
    BY <1>4, <2>3, <2>4 DEF StepSafe
<1>6. CASE f \notin bUsedByRender
  <2>1. /\ pEmptyBufferQueue' = FbmEnqueue(pEmptyBufferQueue, f)
        /\ nEmptyBufferNum' = nEmptyBufferNum + 1
        /\ nID' = [nID EXCEPT ![f] = "index"]
        /\ invalidStatus' = invalidStatus
    BY <1>1, <1>2, <1>6 DEF ReturnForbidden
  <2>2. /\ Empty' = Empty \cup {f}
        /\ Waiting' = Waiting /\ Releasing' = Releasing
        /\ NoDuplicates(pEmptyBufferQueue')
        /\ Len(pEmptyBufferQueue') = Len(pEmptyBufferQueue) + 1
    BY <1>1, <1>2, <2>1, EnqueueFacts
       DEF TypeOK, LinkedOnce, Empty, Waiting, Releasing
  <2>3. /\ Tagged' = Tagged \ {f}
        /\ \A g \in Frames : g # f => nID'[g] = nID[g]
        /\ nID'[f] = "index"
    BY <2>1 DEF Tagged, TypeOK
  <2>4. LinkedOnce'
    BY <1>1, <1>2, <2>2, <2>3 DEF LinkedOnce
  <2>5. DecoderKnown'
    BY <1>1, <1>2, <2>2, <2>3 DEF DecoderKnown
  <2>6. FlagsAgree'
    BY <1>1, <1>2, <2>2, <2>3 DEF FlagsAgree, TypeOK
  <2>7. ReleaseMarked'
    BY <1>1, <1>3, <1>6, <2>2, <2>3 DEF ReleaseMarked
  <2>8. UnboundUnused'
    BY <1>1, <1>2, <1>3, <2>2, <2>3 DEF UnboundUnused
  <2>9. Untangled => Untangled'
    BY <1>1, <1>6, <2>2, <2>3 DEF Untangled
  <2>10. /\ StatusValid => StatusValid'
         /\ Counted => Counted'
    BY <1>1, <2>1, <2>2 DEF StatusValid, Counted
  <2> QED
    BY <1>4, <2>4, <2>5, <2>6, <2>7, <2>8, <2>9, <2>10 DEF StepSafe
<1> QED
  BY <1>5, <1>6

\* The render gives a picture back: to the release queue if the frame is
\* marked, also when it was put there before.
LEMMA ReturnDisplayedSafe ==
    ASSUME TypeOK, CountsCover, TypeOK', CountsCover', Sound,
           NEW f \in Frames, FbmReturnPicture(f), nID[f] = "index"
    PROVE  StepSafe
<1> USE DEF Sound
<1>1. /\ f \in renHolds
      /\ f \in bUsedByRender
      /\ f \notin bInValidPictureQueue \cup bAlreadyDisplayed
      /\ f \notin Waiting \cup Tagged
  BY DEF FbmReturnPicture, FlagsAgree, Tagged
<1>2. /\ ReturnDisplayed(f)
      /\ renHolds' = renHolds \ {f}
      /\ UNCHANGED <<pValidPictureQueue, nValidPictureNum, bUsedByDecoder,
                     bInValidPictureQueue, bUseGpuBuf, bNeedRelease,
                     nValidBufNum, nReleaseCalls, decHolds, decShared,
                     sharing, ctl>>
  BY <1>1 DEF FbmReturnPicture
<1>3. /\ bUsedByRender' = bUsedByRender \ {f}
      /\ nRenderHoldingNum' = nRenderHoldingNum - 1
      /\ UNCHANGED <<nID, invalidStatus>>
  BY <1>1, <1>2 DEF ReturnDisplayed
<1>4. Tagged' = Tagged /\ Unbound' = Unbound /\ Waiting' = Waiting
  BY <1>2, <1>3 DEF Tagged, Unbound, Waiting
<1>5. CASE f \in bUsedByDecoder
  <2>1. /\ bAlreadyDisplayed' = bAlreadyDisplayed \cup {f}
        /\ UNCHANGED <<pEmptyBufferQueue, nEmptyBufferNum,
                       pReleaseBufferQueue>>
    BY <1>2, <1>5 DEF ReturnDisplayed, DecoderDone
  <2>2. Empty' = Empty /\ Releasing' = Releasing
    BY <2>1 DEF Empty, Releasing
  <2>3. LinkedOnce' /\ DecoderKnown'
    BY <1>2, <1>4, <2>1, <2>2 DEF LinkedOnce, DecoderKnown
  <2>4. SharedOnce'
    BY <1>1, <1>2, <1>3, <1>5, <2>1 DEF SharedOnce, Published
  <2>5. FlagsAgree'
    BY <1>1, <1>2, <1>3, <1>4, <1>5, <2>1 DEF FlagsAgree
  <2>6. ReleaseMarked'
    BY <1>2, <1>3, <1>4, <2>2 DEF ReleaseMarked
  <2>7. UnboundUnused'
    BY <1>2, <1>3, <1>4, <2>2 DEF UnboundUnused
  <2>8. Untangled => Untangled'
    BY <1>3, <1>4, <2>2 DEF Untangled
  <2>9. /\ StatusValid => StatusValid'
        /\ Counted => Counted'
    BY <1>2, <1>3, <2>1 DEF StatusValid, Counted, CountsCover
  <2> QED
    BY <2>3, <2>4, <2>5, <2>6, <2>7, <2>8, <2>9 DEF StepSafe
<1>6. CASE f \notin bUsedByDecoder /\ f \notin bNeedRelease
  <2>1. /\ pEmptyBufferQueue' = FbmEnqueue(pEmptyBufferQueue, f)
        /\ nEmptyBufferNum' = nEmptyBufferNum + 1
        /\ UNCHANGED <<bAlreadyDisplayed, pReleaseBufferQueue>>
    BY <1>2, <1>6 DEF ReturnDisplayed, DecoderDone
  <2>2. /\ Empty' \subseteq Empty \cup {f}
        /\ Releasing' = Releasing
        /\ NoDuplicates(pEmptyBufferQueue')
    BY <2>1, EnqueueAny DEF TypeOK, LinkedOnce, Empty, Releasing
  <2>3. f \notin Releasing
    BY <1>6 DEF ReleaseMarked
  <2>4. LinkedOnce'
    BY <1>1, <1>2, <1>4, <2>1, <2>2, <2>3 DEF LinkedOnce
  <2>5. DecoderKnown'
    BY <1>2, <1>4, <1>6, <2>2 DEF DecoderKnown
  <2>6. SharedOnce'
    BY <1>2, <1>3, <2>1 DEF SharedOnce, Published
  <2>7. FlagsAgree'
    BY <1>1, <1>2, <1>3, <1>4, <2>1 DEF FlagsAgree
  <2>8. ReleaseMarked'
    BY <1>2, <1>3, <1>4, <1>6, <2>2 DEF ReleaseMarked
  <2>9. UnboundUnused'
    BY <1>1, <1>2, <1>3, <1>4, <2>2 DEF UnboundUnused
  <2>10. Untangled => Untangled'
    BY <1>1, <1>3, <1>4, <2>2 DEF Untangled
  <2>11. Untangled => Len(pEmptyBufferQueue') = Len(pEmptyBufferQueue) + 1
    BY <1>1, <2>1, EnqueueFacts DEF TypeOK, LinkedOnce, Untangled, Empty
  <2>12. /\ StatusValid => StatusValid'
         /\ Untangled /\ Counted => Counted'
    BY <1>2, <1>3, <2>1, <2>11
       DEF StatusValid, Counted, CountsCover
  <2> QED
    BY <2>4, <2>5, <2>6, <2>7, <2>8, <2>9, <2>10, <2>12 DEF StepSafe
<1>7. CASE f \notin bUsedByDecoder /\ f \in bNeedRelease
  <2>1. /\ pReleaseBufferQueue' = FbmEnqueue(pReleaseBufferQueue, f)
        /\ UNCHANGED <<bAlreadyDisplayed, pEmptyBufferQueue,
                       nEmptyBufferNum>>
    BY <1>2, <1>7 DEF ReturnDisplayed, DecoderDone
  <2>2. /\ Releasing' \subseteq Releasing \cup {f}
        /\ Empty' = Empty
        /\ NoDuplicates(pReleaseBufferQueue')
    BY <2>1, EnqueueAny DEF TypeOK, LinkedOnce, Empty, Releasing
  <2>3. f \notin Empty
    BY <1>1, <1>7 DEF ReleaseMarked
  <2>4. LinkedOnce'
    BY <1>1, <1>2, <1>4, <2>1, <2>2, <2>3 DEF LinkedOnce
  <2>5. DecoderKnown'
    BY <1>2, <1>4, <1>7, <2>2 DEF DecoderKnown
  <2>6. SharedOnce'
    BY <1>2, <1>3, <2>1 DEF SharedOnce, Published
  <2>7. FlagsAgree'
    BY <1>1, <1>2, <1>3, <1>4, <2>1 DEF FlagsAgree
  <2>8. ReleaseMarked'
    BY <1>2, <1>3, <1>4, <1>7, <2>2 DEF ReleaseMarked
  <2>9. UnboundUnused'
    BY <1>1, <1>2, <1>3, <1>4, <2>2 DEF UnboundUnused
  <2>10. Untangled => Untangled'
    BY <1>1, <1>3, <1>4, <2>2 DEF Untangled
  <2>11. /\ StatusValid => StatusValid'
         /\ Counted => Counted'
    BY <1>2, <1>3, <2>1 DEF StatusValid, Counted, CountsCover
  <2> QED
    BY <2>4, <2>5, <2>6, <2>7, <2>8, <2>9, <2>10, <2>11 DEF StepSafe
<1> QED
  BY <1>5, <1>6, <1>7

\* The render gives back a frame that has been released in the meantime.
LEMMA ReturnReleasedSafe ==
    ASSUME TypeOK, Sound, NEW f \in Frames, FbmReturnPicture(f),
           nID[f] = "release"
    PROVE  StepSafe
<1>1. /\ renHolds' = renHolds \ {f}
      /\ UNCHANGED <<queues, nums, display, binding, bUsedByDecoder,
                     decHolds, decShared, sharing, ctl, invalidStatus>>
  BY DEF FbmReturnPicture, queues, nums, display, binding
<1>2. /\ Empty' = Empty /\ Waiting' = Waiting /\ Releasing' = Releasing
      /\ Tagged' = Tagged /\ Unbound' = Unbound /\ Published' = Published
  BY <1>1 DEF Empty, Waiting, Releasing, Tagged, Unbound, Published, queues,
     binding, display
<1>3. Sound' /\ (Untangled => Untangled')
  BY <1>1, <1>2 DEF Sound, LinkedOnce, DecoderKnown, SharedOnce, FlagsAgree,
     ReleaseMarked, UnboundUnused, Untangled, queues, display, binding
<1>4. /\ StatusValid => StatusValid'
      /\ Counted => Counted'
  BY <1>1 DEF StatusValid, Counted, queues, nums, display
<1> QED
  BY <1>3, <1>4 DEF StepSafe

\* The steps that only take the mutex.
LEMMA EnterSafe ==
    ASSUME TypeOK, Sound, FbmFlushEnter \/ FbmNewDispReleaseEnter
    PROVE  StepSafe
<1>1. /\ UNCHANGED <<queues, nums, bUsedByDecoder, display, binding,
                     invalidStatus, clients>>
      /\ ctl = "idle" => ctl' = "flush"
  BY DEF FbmFlushEnter, FbmNewDispReleaseEnter
<1>2. ctl = "flush" => FALSE
  BY DEF FbmFlushEnter, FbmNewDispReleaseEnter
<1>3. /\ Empty' = Empty /\ Waiting' = Waiting /\ Releasing' = Releasing
      /\ Tagged' = Tagged /\ Unbound' = Unbound /\ Published' = Published
  BY <1>1 DEF Empty, Waiting, Releasing, Tagged, Unbound, Published, queues,
     binding, display
<1>4. Sound' /\ (Untangled => Untangled')
  BY <1>1, <1>2, <1>3 DEF Sound, LinkedOnce, DecoderKnown, SharedOnce,
     FlagsAgree, ReleaseMarked, UnboundUnused, Untangled, queues, display,
     binding, clients
<1>5. /\ StatusValid => StatusValid'
      /\ Counted => Counted'
  BY <1>1 DEF StatusValid, Counted, queues, nums, display
<1> QED
  BY <1>4, <1>5 DEF StepSafe

\* One iteration of a flush moves one frame out of the valid queue.
LEMMA FlushSafe ==
    ASSUME TypeOK, CountsCover, TypeOK', CountsCover', Sound, FbmFlush
    PROVE  StepSafe
<1> USE DEF Sound
<1>1. /\ ctl \in {"flush", "relFlush"}
      /\ UNCHANGED <<pReleaseBufferQueue, nRenderHoldingNum, bUsedByDecoder,
                     bUsedByRender, binding, clients>>
  BY DEF FbmFlush
<1>2. Tagged' = Tagged /\ Unbound' = Unbound /\ Releasing' = Releasing
  BY <1>1 DEF Tagged, Unbound, Releasing, binding
<1>3. CASE pValidPictureQueue = <<>>
  <2>1. /\ ctl' = AfterFlush
        /\ UNCHANGED <<pEmptyBufferQueue, pValidPictureQueue,
                       nEmptyBufferNum, nValidPictureNum,
                       bInValidPictureQueue, bAlreadyDisplayed,
                       invalidStatus>>
    BY <1>3 DEF FbmFlush
  <2>2. Empty' = Empty /\ Waiting' = Waiting /\ Published' = Published
    BY <1>1, <2>1 DEF Empty, Waiting, Published
  <2>3. Sound' /\ (Untangled => Untangled')
    BY <1>1, <1>2, <2>1, <2>2 DEF AfterFlush, LinkedOnce, DecoderKnown,
       SharedOnce, FlagsAgree, ReleaseMarked, UnboundUnused, Untangled,
       binding, clients
  <2>4. /\ StatusValid => StatusValid'
        /\ Counted => Counted'
    BY <1>1, <2>1 DEF StatusValid, Counted
  <2> QED
    BY <2>3, <2>4 DEF StepSafe
<1>4. CASE pValidPictureQueue # <<>>
  <2> DEFINE f == Head(pValidPictureQueue)
  <2>1. /\ f \in Frames
        /\ f \in Waiting
        /\ Len(Tail(pValidPictureQueue)) = Len(pValidPictureQueue) - 1
        /\ Members(Tail(pValidPictureQueue)) = Waiting \ {f}
        /\ NoDuplicates(Tail(pValidPictureQueue))
    BY <1>4, DequeueFacts DEF TypeOK, LinkedOnce, Waiting
  <2>2. /\ f \in bInValidPictureQueue
        /\ f \notin bUsedByRender \cup bAlreadyDisplayed
        /\ f \notin Empty \cup Releasing \cup Tagged \cup Unbound
    BY <2>1 DEF FlagsAgree, LinkedOnce, UnboundUnused
  <2>3. /\ pValidPictureQueue' = Tail(pValidPictureQueue)
        /\ nValidPictureNum' = nValidPictureNum - 1
        /\ bInValidPictureQueue' = bInValidPictureQueue \ {f}
        /\ UNCHANGED <<invalidStatus, ctl>>
    BY <1>4, <2>2 DEF FbmFlush, FlushedNum
  <2>4. f \notin bUsedByDecoder =>
            /\ pEmptyBufferQueue' = FbmEnqueue(pEmptyBufferQueue, f)
            /\ nEmptyBufferNum' = nEmptyBufferNum + 1
            /\ bAlreadyDisplayed' = bAlreadyDisplayed
    BY <1>4, <2>2 DEF FbmFlush, FlushedIsFree
  <2>5. f \in bUsedByDecoder =>
            /\ bAlreadyDisplayed' = bAlreadyDisplayed \cup {f}
            /\ UNCHANGED <<pEmptyBufferQueue, nEmptyBufferNum>>
    BY <1>4, <2>2 DEF FbmFlush, FlushedIsFree
  <2> HIDE DEF f
  <2>6. Waiting' = Waiting \ {f} /\ NoDuplicates(pValidPictureQueue')
    BY <2>1, <2>3 DEF Waiting
  <2>7. StatusValid => StatusValid'
    BY <2>3 DEF StatusValid
  <2>8. CASE f \in bUsedByDecoder
    <3>1. Empty' = Empty
      BY <2>5, <2>8 DEF Empty
    <3>2. LinkedOnce'
      BY <1>1, <1>2, <2>5, <2>6, <2>8, <3>1 DEF LinkedOnce
    <3>3. DecoderKnown'
      BY <1>1, <1>2, <3>1 DEF DecoderKnown, clients
    <3>4. SharedOnce'
      BY <1>1, <2>2, <2>3, <2>5, <2>8 DEF SharedOnce, Published, clients
    <3>5. FlagsAgree'
      BY <1>1, <2>2, <2>3, <2>5, <2>6, <2>8 DEF FlagsAgree, binding, clients
    <3>6. ReleaseMarked' /\ UnboundUnused'
      BY <1>1, <1>2, <2>3, <2>6, <3>1
         DEF ReleaseMarked, UnboundUnused, binding
    <3>7. Untangled => Untangled'
      BY <1>1, <1>2, <3>1 DEF Untangled
    <3>8. Counted => Counted'
      BY <1>1, <2>1, <2>3, <2>5, <2>8 DEF Counted
    <3> QED
      BY <2>7, <3>2, <3>3, <3>4, <3>5, <3>6, <3>7, <3>8 DEF StepSafe
  <2>9. CASE f \notin bUsedByDecoder
    <3>1. /\ Empty' = Empty \cup {f}
          /\ NoDuplicates(pEmptyBufferQueue')
          /\ Len(pEmptyBufferQueue') = Len(pEmptyBufferQueue) + 1
      BY <2>1, <2>2, <2>4, <2>9, EnqueueFacts DEF TypeOK, LinkedOnce, Empty
    <3>2. LinkedOnce'
      BY <1>1, <1>2, <2>2, <2>6, <3>1 DEF LinkedOnce
    <3>3. DecoderKnown'
      BY <1>1, <1>2, <2>9, <3>1 DEF DecoderKnown, clients
    <3>4. SharedOnce'
      BY <1>1, <2>3, <2>4, <2>9 DEF SharedOnce, Published, clients
    <3>5. FlagsAgree'
      BY <1>1, <2>2, <2>3, <2>4, <2>6, <2>9 DEF FlagsAgree, binding, clients
    <3>6. ReleaseMarked'
      BY <1>1, <1>2, <2>2, <2>3, <3>1 DEF ReleaseMarked, binding
    <3>7. UnboundUnused'
      BY <1>1, <1>2, <2>2, <2>6, <3>1 DEF UnboundUnused, binding
    <3>8. Untangled => Untangled'
      BY <1>1, <1>2, <2>2, <3>1 DEF Untangled
    <3>9. Counted => Counted'
      BY <1>1, <2>1, <2>3, <2>4, <2>9, <3>1 DEF Counted
    <3> QED
      BY <2>7, <3>2, <3>3, <3>4, <3>5, <3>6, <3>7, <3>8, <3>9 DEF StepSafe
  <2> QED
    BY <2>8, <2>9
<1> QED
  BY <1>3, <1>4

\* The next frame node gets its buffer: free, or with the display.
LEMMA SetFbmBufAddressSafe ==
    ASSUME TypeOK, CountsCover, TypeOK', CountsCover', Sound,
           NEW b \in BOOLEAN, FbmSetFbmBufAddress(b)
    PROVE  StepSafe
<1> USE DEF Sound
<1> DEFINE f == nValidBufNum
<1>1. /\ bUseGpuBuf /\ ctl = "idle"
      /\ f \in Frames
      /\ f \in Unbound
      /\ Unbound' = Unbound \ {f}
      /\ UNCHANGED <<pValidPictureQueue, pReleaseBufferQueue,
                     nValidPictureNum, nRenderHoldingNum, bUsedByDecoder,
                     display, bUseGpuBuf, bNeedRelease, nReleaseCalls,
                     invalidStatus, decHolds, decShared, sharing, ctl>>
  BY FbmAssumption
     DEF FbmSetFbmBufAddress, TypeOK, Frames, Unbound
<1>2. \/ /\ nID' = [nID EXCEPT ![f] = "forbid"]
         /\ renHolds' = renHolds \cup {f}
         /\ UNCHANGED <<pEmptyBufferQueue, nEmptyBufferNum>>
      \/ /\ pEmptyBufferQueue' = FbmEnqueue(pEmptyBufferQueue, f)
         /\ nEmptyBufferNum' = nEmptyBufferNum + 1
         /\ UNCHANGED <<nID, renHolds>>
  BY DEF FbmSetFbmBufAddress
<1> HIDE DEF f
<1>3. f \notin Empty \cup Waiting \cup Releasing \cup Tagged
          \cup bNeedRelease \cup bUsedByDecoder \cup bUsedByRender
  BY <1>1 DEF UnboundUnused
<1>4. Waiting' = Waiting /\ Releasing' = Releasing /\ Published' = Published
  BY <1>1 DEF Waiting, Releasing, Published, display
<1>5. SharedOnce' /\ (StatusValid => StatusValid')
  BY <1>1, <1>4 DEF SharedOnce, StatusValid
<1>6. CASE /\ nID' = [nID EXCEPT ![f] = "forbid"]
           /\ renHolds' = renHolds \cup {f}
           /\ UNCHANGED <<pEmptyBufferQueue, nEmptyBufferNum>>
  <2>1. /\ Empty' = Empty
        /\ Tagged' = Tagged \cup {f}
        /\ \A g \in Frames : g # f => nID'[g] = nID[g]
        /\ nID'[f] = "forbid"
    BY <1>1, <1>6 DEF Empty, Tagged, TypeOK
  <2>2. LinkedOnce' /\ DecoderKnown'
    BY <1>1, <1>3, <1>4, <1>6, <2>1 DEF LinkedOnce, DecoderKnown
  <2>3. FlagsAgree'
    BY <1>1, <1>3, <1>4, <1>6, <2>1 DEF FlagsAgree, display, TypeOK
  <2>4. ReleaseMarked'
    BY <1>1, <1>4, <2>1 DEF ReleaseMarked, display
  <2>5. UnboundUnused'
    BY <1>1, <1>4, <2>1 DEF UnboundUnused, display
  <2>6. Untangled => Untangled'
    BY <1>1, <1>3, <1>4, <2>1 DEF Untangled, display
  <2>7. Counted => Counted'
    BY <1>1, <1>6 DEF Counted, display
  <2> QED
    BY <1>5, <2>2, <2>3, <2>4, <2>5, <2>6, <2>7 DEF StepSafe
<1>7. CASE /\ pEmptyBufferQueue' = FbmEnqueue(pEmptyBufferQueue, f)
           /\ nEmptyBufferNum' = nEmptyBufferNum + 1
           /\ UNCHANGED <<nID, renHolds>>
  <2>1. /\ Empty' = Empty \cup {f}
        /\ NoDuplicates(pEmptyBufferQueue')
        /\ Len(pEmptyBufferQueue') = Len(pEmptyBufferQueue) + 1
        /\ Tagged' = Tagged
    BY <1>1, <1>3, <1>7, EnqueueFacts
       DEF TypeOK, LinkedOnce, Empty, Tagged
  <2>2. LinkedOnce' /\ DecoderKnown'
    BY <1>1, <1>3, <1>4, <2>1 DEF LinkedOnce, DecoderKnown
  <2>3. FlagsAgree'
    BY <1>1, <1>4, <1>7 DEF FlagsAgree, display
  <2>4. ReleaseMarked'
    BY <1>1, <1>3, <1>4, <1>7, <2>1 DEF ReleaseMarked, display
  <2>5. UnboundUnused'
    BY <1>1, <1>4, <2>1 DEF UnboundUnused, display
  <2>6. Untangled => Untangled'
    BY <1>1, <1>3, <1>4, <2>1 DEF Untangled, display
  <2>7. Counted => Counted'
    BY <1>1, <1>7, <2>1 DEF Counted, display
  <2> QED
    BY <1>5, <2>2, <2>3, <2>4, <2>5, <2>6, <2>7 DEF StepSafe
<1> QED
  BY <1>2, <1>6, <1>7

\* A release begins: all frames with a buffer are marked.  None of them may
\* be free while the render shows it.
LEMMA SetNewDispReleaseSafe ==
    ASSUME TypeOK, Sound, Untangled, FbmSetNewDispRelease
    PROVE  StepSafe
<1> USE DEF Sound
<1>1. /\ bUseGpuBuf /\ ctl = "idle"
      /\ bNeedRelease' = bNeedRelease \cup {f \in Frames : f < nValidBufNum}
      /\ UNCHANGED <<queues, nums, bUsedByDecoder, display, bUseGpuBuf,
                     nID, nValidBufNum, invalidStatus, clients>>
  BY DEF FbmSetNewDispRelease
<1>2. bNeedRelease' = bNeedRelease \cup (Frames \ Unbound)
  BY <1>1, FbmAssumption DEF Unbound, TypeOK, Frames
<1>3. /\ Empty' = Empty /\ Waiting' = Waiting /\ Releasing' = Releasing
      /\ Tagged' = Tagged /\ Unbound' = Unbound /\ Published' = Published
  BY <1>1 DEF Empty, Waiting, Releasing, Tagged, Unbound, Published, queues,
     display
<1>4. LinkedOnce' /\ DecoderKnown' /\ SharedOnce' /\ FlagsAgree'
      /\ Untangled'
  BY <1>1, <1>3 DEF LinkedOnce, DecoderKnown, SharedOnce, FlagsAgree,
     Untangled, queues, display, clients
<1>5. ReleaseMarked' /\ UnboundUnused'
  BY <1>1, <1>2, <1>3
     DEF ReleaseMarked, UnboundUnused, Untangled, display
<1>6. /\ StatusValid => StatusValid'
      /\ Counted => Counted'
  BY <1>1 DEF StatusValid, Counted, queues, nums, display
<1> QED
  BY <1>4, <1>5, <1>6 DEF StepSafe

\* One iteration of FbmNewDispRelease: a free frame is released.  All its
\* flags are clear.
LEMMA NewDispReleaseSafe ==
    ASSUME TypeOK, CountsCover, TypeOK', CountsCover', Sound,
           FbmNewDispRelease
    PROVE  StepSafe
<1> USE DEF Sound
<1>1. /\ ctl = "relDrain"
      /\ UNCHANGED <<pValidPictureQueue, nValidPictureNum, nRenderHoldingNum,
                     bUsedByDecoder, display, binding, clients>>
  BY DEF FbmNewDispRelease
<1>2. /\ Tagged' = Tagged /\ Unbound' = Unbound /\ Waiting' = Waiting
      /\ Published' = Published
  BY <1>1 DEF Tagged, Unbound, Waiting, Published, display, binding
<1>3. CASE pEmptyBufferQueue = <<>>
  <2>1. /\ ctl' = "idle"
        /\ UNCHANGED <<pEmptyBufferQueue, pReleaseBufferQueue,
                       nEmptyBufferNum, invalidStatus>>
    BY <1>3 DEF FbmNewDispRelease
  <2>2. Empty' = Empty /\ Releasing' = Releasing
    BY <2>1 DEF Empty, Releasing
  <2>3. Sound' /\ (Untangled => Untangled')
    BY <1>1, <1>2, <2>1, <2>2 DEF LinkedOnce, DecoderKnown, SharedOnce,
       FlagsAgree, ReleaseMarked, UnboundUnused, Untangled, binding,
       clients, display
  <2>4. /\ StatusValid => StatusValid'
        /\ Counted => Counted'
    BY <1>1, <2>1 DEF StatusValid, Counted, display
  <2> QED
    BY <2>3, <2>4 DEF StepSafe
<1>4. CASE pEmptyBufferQueue # <<>>
  <2> DEFINE f == Head(pEmptyBufferQueue)
  <2>1. /\ f \in Frames
        /\ f \in Empty
        /\ Len(Tail(pEmptyBufferQueue)) = Len(pEmptyBufferQueue) - 1
        /\ Members(Tail(pEmptyBufferQueue)) = Empty \ {f}
        /\ NoDuplicates(Tail(pEmptyBufferQueue))
    BY <1>4, DequeueFacts DEF TypeOK, LinkedOnce, Empty
  <2>2. /\ f \notin Waiting \cup Releasing \cup Tagged \cup Unbound
                        \cup bUsedByDecoder \cup bInValidPictureQueue
                        \cup bAlreadyDisplayed
    BY <2>1 DEF LinkedOnce, DecoderKnown, FlagsAgree, UnboundUnused
  <2>3. f \in bNeedRelease /\ f \notin bUsedByRender
    BY <1>1, <2>1, <2>2 DEF ReleaseMarked
  <2>4. /\ pEmptyBufferQueue' = Tail(pEmptyBufferQueue)
        /\ nEmptyBufferNum' = nEmptyBufferNum - 1
        /\ pReleaseBufferQueue' = FbmEnqueue(pReleaseBufferQueue, f)
        /\ UNCHANGED <<invalidStatus, ctl>>
    BY <1>4, <2>2, <2>3 DEF FbmNewDispRelease
  <2> HIDE DEF f
  <2>5. /\ Empty' = Empty \ {f}
        /\ Releasing' = Releasing \cup {f}
        /\ NoDuplicates(pReleaseBufferQueue')
    BY <2>1, <2>2, <2>4, EnqueueFacts
       DEF TypeOK, LinkedOnce, Empty, Releasing
  <2>6. LinkedOnce'
    BY <1>1, <1>2, <2>1, <2>2, <2>4, <2>5 DEF LinkedOnce
  <2>7. DecoderKnown' /\ SharedOnce'
    BY <1>1, <1>2, <2>2, <2>5 DEF DecoderKnown, SharedOnce, clients
  <2>8. FlagsAgree'
    BY <1>1, <1>2 DEF FlagsAgree, display, binding, clients
  <2>9. ReleaseMarked'
    BY <1>1, <1>2, <2>3, <2>4, <2>5 DEF ReleaseMarked, display, binding
  <2>10. UnboundUnused'
    BY <1>1, <1>2, <2>2, <2>5 DEF UnboundUnused, display, binding
  <2>11. Untangled => Untangled'
    BY <1>1, <1>2, <2>3, <2>5 DEF Untangled, display
  <2>12. /\ StatusValid => StatusValid'
         /\ Counted => Counted'
    BY <1>1, <2>1, <2>4 DEF StatusValid, Counted, display
  <2> QED
    BY <2>6, <2>7, <2>8, <2>9, <2>10, <2>11, <2>12 DEF StepSafe
<1> QED
  BY <1>3, <1>4

\* The window system takes the next released frame.
LEMMA RequestReleasePictureSafe ==
    ASSUME TypeOK, Sound, FbmRequestReleasePicture
    PROVE  StepSafe
<1> USE DEF Sound
<1> DEFINE f == Head(pReleaseBufferQueue)
<1>1. /\ f \in Frames
      /\ f \in Releasing
      /\ Members(Tail(pReleaseBufferQueue)) = Releasing \ {f}
      /\ NoDuplicates(Tail(pReleaseBufferQueue))
  BY DequeueFacts DEF FbmRequestReleasePicture, TypeOK, LinkedOnce,
     Releasing
<1>2. /\ pReleaseBufferQueue' = Tail(pReleaseBufferQueue)
      /\ nID' = [nID EXCEPT ![f] = "release"]
      /\ UNCHANGED <<pEmptyBufferQueue, pValidPictureQueue, nums,
                     bUsedByDecoder, display, bUseGpuBuf, bNeedRelease,
                     nValidBufNum, nReleaseCalls, invalidStatus, clients, ctl>>
  BY DEF FbmRequestReleasePicture
<1> HIDE DEF f
<1>3. /\ f \notin Empty \cup Waiting \cup Tagged \cup bUsedByDecoder
              \cup bInValidPictureQueue \cup bAlreadyDisplayed \cup Unbound
      /\ f \in bNeedRelease
  BY <1>1 DEF LinkedOnce, DecoderKnown, FlagsAgree, ReleaseMarked,
     UnboundUnused
<1>4. /\ Tagged' = Tagged \cup {f}
      /\ \A g \in Frames : g # f => nID'[g] = nID[g]
      /\ nID[f] = "index" /\ nID'[f] = "release"
  BY <1>1, <1>2, <1>3 DEF Tagged, TypeOK
<1>5. /\ Empty' = Empty /\ Waiting' = Waiting
      /\ Releasing' = Releasing \ {f}
      /\ Unbound' = Unbound /\ Published' = Published
  BY <1>1, <1>2
     DEF Empty, Waiting, Releasing, Unbound, Published, display
<1>6. LinkedOnce'
  BY <1>1, <1>2, <1>3, <1>4, <1>5 DEF LinkedOnce
<1>7. DecoderKnown' /\ SharedOnce'
  BY <1>2, <1>3, <1>4, <1>5 DEF DecoderKnown, SharedOnce, clients
<1>8. FlagsAgree'
  BY <1>2, <1>4, <1>5 DEF FlagsAgree, display, clients, TypeOK
<1>9. ReleaseMarked'
  BY <1>1, <1>2, <1>3, <1>4, <1>5 DEF ReleaseMarked, display
<1>10. UnboundUnused'
  BY <1>2, <1>3, <1>4, <1>5 DEF UnboundUnused, display
<1>11. Untangled => Untangled'
  BY <1>1, <1>2, <1>4, <1>5 DEF Untangled, display
<1>12. /\ StatusValid => StatusValid'
       /\ Counted => Counted'
  BY <1>2 DEF StatusValid, Counted, nums, display
<1> QED
  BY <1>6, <1>7, <1>8, <1>9, <1>10, <1>11, <1>12 DEF StepSafe

\* A released frame gets a new buffer: free, or with the display.
LEMMA ReturnReleasePictureSafe ==
    ASSUME TypeOK, CountsCover, TypeOK', CountsCover', Sound,
           NEW b \in BOOLEAN, FbmReturnReleasePicture(b)
    PROVE  StepSafe
<1> USE DEF Sound
<1>1. PICK f \in Released :
         /\ bNeedRelease' = bNeedRelease \ {f}
         /\ \/ /\ nID' = [nID EXCEPT ![f] = "forbid"]
               /\ renHolds' = renHolds \cup {f}
               /\ UNCHANGED <<pEmptyBufferQueue, nEmptyBufferNum>>
            \/ /\ nID' = [nID EXCEPT ![f] = "index"]
               /\ pEmptyBufferQueue' = FbmEnqueue(pEmptyBufferQueue, f)
               /\ nEmptyBufferNum' = nEmptyBufferNum + 1
               /\ UNCHANGED renHolds
  BY DEF FbmReturnReleasePicture
<1>2. /\ f \in Frames
      /\ f \in Tagged
      /\ f \in bNeedRelease
      /\ nID[f] = "release"
      /\ f \notin Empty \cup Waiting \cup Releasing \cup bUsedByDecoder
              \cup bInValidPictureQueue \cup bAlreadyDisplayed \cup Unbound
  BY DEF Released, TypeOK, Tagged, LinkedOnce, DecoderKnown, FlagsAgree,
     UnboundUnused
<1>3. /\ ctl = "idle"
      /\ UNCHANGED <<pValidPictureQueue, pReleaseBufferQueue,
                     nValidPictureNum, nRenderHoldingNum, bUsedByDecoder,
                     display, bUseGpuBuf, nValidBufNum, nReleaseCalls,
                     invalidStatus, decHolds, decShared, sharing, ctl>>
  BY DEF FbmReturnReleasePicture
<1>4. /\ Waiting' = Waiting /\ Releasing' = Releasing
      /\ Unbound' = Unbound /\ Published' = Published
  BY <1>3 DEF Waiting, Releasing, Unbound, Published, display
<1>5. SharedOnce' /\ (StatusValid => StatusValid')
  BY <1>3, <1>4 DEF SharedOnce, StatusValid
<1>6. CASE /\ nID' = [nID EXCEPT ![f] = "forbid"]
           /\ renHolds' = renHolds \cup {f}
           /\ UNCHANGED <<pEmptyBufferQueue, nEmptyBufferNum>>
  <2>1. /\ Empty' = Empty
        /\ Tagged' = Tagged
        /\ \A g \in Frames : g # f => nID'[g] = nID[g]
        /\ nID'[f] = "forbid"
    BY <1>2, <1>6 DEF Empty, Tagged, TypeOK
  <2>2. LinkedOnce' /\ DecoderKnown'
    BY <1>3, <1>4, <1>6, <2>1 DEF LinkedOnce, DecoderKnown
  <2>3. FlagsAgree'
    BY <1>3, <1>4, <1>6, <2>1 DEF FlagsAgree, display, TypeOK
  <2>4. ReleaseMarked'
    BY <1>1, <1>2, <1>3, <1>4, <2>1 DEF ReleaseMarked, display
  <2>5. UnboundUnused'
    BY <1>1, <1>3, <1>4, <2>1 DEF UnboundUnused, display
  <2>6. Untangled => Untangled'
    BY <1>3, <1>4, <2>1 DEF Untangled, display
  <2>7. Counted => Counted'
    BY <1>3, <1>6 DEF Counted, display
  <2> QED
    BY <1>5, <2>2, <2>3, <2>4, <2>5, <2>6, <2>7 DEF StepSafe
<1>7. CASE /\ nID' = [nID EXCEPT ![f] = "index"]
           /\ pEmptyBufferQueue' = FbmEnqueue(pEmptyBufferQueue, f)
           /\ nEmptyBufferNum' = nEmptyBufferNum + 1
           /\ UNCHANGED renHolds
  <2>1. /\ Empty' = Empty \cup {f}
        /\ NoDuplicates(pEmptyBufferQueue')
        /\ Len(pEmptyBufferQueue') = Len(pEmptyBufferQueue) + 1
    BY <1>2, <1>7, EnqueueFacts DEF TypeOK, LinkedOnce, Empty
  <2>2. /\ Tagged' = Tagged \ {f}
        /\ \A g \in Frames : g # f => nID'[g] = nID[g]
        /\ nID'[f] = "index"
    BY <1>2, <1>7 DEF Tagged, TypeOK
  <2>3. LinkedOnce' /\ DecoderKnown'
    BY <1>2, <1>3, <1>4, <2>1, <2>2 DEF LinkedOnce, DecoderKnown
  <2>4. FlagsAgree'
    BY <1>2, <1>3, <1>4, <1>7, <2>2 DEF FlagsAgree, display, TypeOK
  <2>5. ReleaseMarked'
    BY <1>1, <1>2, <1>3, <1>4, <2>1, <2>2 DEF ReleaseMarked, display
  <2>6. UnboundUnused'
    BY <1>1, <1>2, <1>3, <1>4, <2>1, <2>2 DEF UnboundUnused, display
  <2>7. Untangled => Untangled'
    BY <1>2, <1>3, <1>4, <2>1, <2>2 DEF Untangled, display
  <2>8. Counted => Counted'
    BY <1>3, <1>7, <2>1 DEF Counted, display
  <2> QED
    BY <1>5, <2>3, <2>4, <2>5, <2>6, <2>7, <2>8 DEF StepSafe
<1> QED
  BY <1>1, <1>6, <1>7

\* A step that changes nothing.
LEMMA StutterSafe == ASSUME Sound, UNCHANGED vars PROVE StepSafe
BY DEF vars, queues, nums, display, binding, clients, StepSafe, Sound,
   LinkedOnce, DecoderKnown, SharedOnce, FlagsAgree, ReleaseMarked,
   UnboundUnused, Untangled, StatusValid, Counted, Empty, Waiting,
   Releasing, Tagged, Unbound, Published

\* Every step of every thread; a release may only begin untangled.
LEMMA NextSafe ==
    ASSUME TypeOK, CountsCover, Sound, [Next]_vars,
           FbmSetNewDispRelease => Untangled
    PROVE  TypeOK' /\ CountsCover' /\ StepSafe
<1>1. TypeOK' /\ CountsCover'
  BY StepTypes
<1>2. CASE Decoder
  BY <1>1, <1>2, RequestBufferSafe, ReturnBufferSafe, ShareBufferCheckSafe,
     ShareBufferSafe DEF Decoder
<1>3. CASE Render
  <2>1. CASE FbmRequestPicture
    BY <1>1, <2>1, RequestPictureSafe
  <2>2. ASSUME NEW f \in Frames, FbmReturnPicture(f) PROVE StepSafe
    <3>1. nID[f] \in {"index", "forbid", "release"}
      BY DEF TypeOK
    <3> QED
      BY <1>1, <2>2, <3>1, ReturnForbiddenSafe, ReturnDisplayedSafe,
         ReturnReleasedSafe
  <2> QED
    BY <1>1, <1>3, <2>1, <2>2 DEF Render
<1>4. CASE Flusher
  BY <1>1, <1>4, EnterSafe, FlushSafe DEF Flusher
<1>5. CASE Rebinder
  BY <1>1, <1>5, EnterSafe, SetFbmBufAddressSafe, SetNewDispReleaseSafe,
     NewDispReleaseSafe, RequestReleasePictureSafe,
     ReturnReleasePictureSafe DEF Rebinder
<1>6. CASE UNCHANGED vars
  BY <1>1, <1>6, StutterSafe
<1> QED
  BY <1>2, <1>3, <1>4, <1>5, <1>6 DEF Next

\* FbmCreateBuffer: all frames are free or none has a buffer yet.
LEMMA InitSound ==
    ASSUME Init
    PROVE  Sound /\ Untangled /\ StatusValid /\ Counted
<1> DEFINE q == [i \in 1 .. nMaxFrameNum |-> i - 1]
<1>1. q \in Seq(Frames) /\ Len(q) = nMaxFrameNum
  <2>1. \A i \in 1 .. nMaxFrameNum : i - 1 \in Frames
    BY FbmAssumption DEF Frames
  <2> QED
    BY <2>1, FbmAssumption, IsASeq
<1>2. NoDuplicates(q)
  BY <1>1, FbmAssumption DEF NoDuplicates
<1>3. /\ Len(<<>>) = 0
      /\ Members(<<>>) = {}
      /\ NoDuplicates(<<>>)
  BY EmptySeq DEF Members, NoDuplicates
<1> HIDE DEF q
<1>4. /\ NoDuplicates(pEmptyBufferQueue)
      /\ Len(pEmptyBufferQueue) = nEmptyBufferNum
      /\ bUseGpuBuf => Empty = {}
  <2>1. CASE bUseGpuBuf
    BY <1>3, <2>1 DEF Init, InitialEmptyNum, Empty
  <2>2. CASE ~bUseGpuBuf
    BY <1>1, <1>2, <2>2, FbmAssumption DEF Init, InitialEmptyNum, q
  <2> QED
    BY <2>1, <2>2, FbmAssumption
<1>5. /\ Waiting = {} /\ Releasing = {}
      /\ NoDuplicates(pValidPictureQueue)
      /\ NoDuplicates(pReleaseBufferQueue)
      /\ Len(pValidPictureQueue) = 0
  BY <1>3 DEF Init, Waiting, Releasing
<1>6. /\ bUsedByDecoder = {} /\ bUsedByRender = {}
      /\ bInValidPictureQueue = {} /\ bAlreadyDisplayed = {}
      /\ bNeedRelease = {}
      /\ decHolds = {} /\ renHolds = {}
      /\ nValidPictureNum = 0 /\ nRenderHoldingNum = 0
      /\ ctl = "idle"
      /\ ~invalidStatus
      /\ \A f \in Frames : nID[f] = "index"
  BY DEF Init
<1>7. Tagged = {} /\ Published = {}
  BY <1>6 DEF Tagged, Published
<1>8. Unbound # {} => bUseGpuBuf
  BY DEF Unbound
<1>9. LinkedOnce /\ DecoderKnown /\ SharedOnce /\ FlagsAgree
  BY <1>4, <1>5, <1>6, <1>7
     DEF LinkedOnce, DecoderKnown, SharedOnce, FlagsAgree
<1>10. ReleaseMarked
  BY <1>5, <1>6 DEF ReleaseMarked
<1>11. UnboundUnused
  BY <1>4, <1>5, <1>6, <1>7, <1>8 DEF UnboundUnused
<1>12. Untangled /\ StatusValid
  BY <1>6 DEF Untangled, StatusValid
<1>13. Counted
  <2>1. Cardinality(bUsedByRender) = 0
    BY <1>6, FS_EmptySet
  <2> QED
    BY <1>4, <1>5, <1>6, <2>1 DEF Counted
<1> QED
  BY <1>9, <1>10, <1>11, <1>12, <1>13 DEF Sound

\* ReleaseSafe follows from where every frame is.
LEMMA SoundIsSafe == ASSUME TypeOK, Sound PROVE ReleaseSafe
BY DEF Sound, LinkedOnce, DecoderKnown, ReleaseSafe, QueuesDisjoint,
   ReleasedNotDecoded, Empty, Waiting, Releasing, Tagged

-----------------------------------------------------------------------------
(* The first release. *)

\* Until it begins, nothing is marked and nothing tangled.
FirstInv ==
    /\ TypeOK
    /\ CountsCover
    /\ Sound
    /\ nReleaseCalls = 0 => Untangled /\ bNeedRelease = {}

\* One release at most: every step keeps the invariant.
LEMMA FirstStep ==
    ASSUME MaxRelease \in {0, 1}, FirstInv, [Next]_vars
    PROVE  FirstInv'
<1>1. FbmSetNewDispRelease => nReleaseCalls = 0
  BY DEF FbmSetNewDispRelease, FirstInv, TypeOK
<1>2. TypeOK' /\ CountsCover' /\ StepSafe
  BY <1>1, NextSafe DEF FirstInv
<1>3. ASSUME nReleaseCalls' = 0
      PROVE  Untangled' /\ bNeedRelease' = {}
  <2>1. nReleaseCalls = 0 /\ bNeedRelease' \subseteq bNeedRelease
    BY <1>3 DEF Next, Decoder, Render, Flusher, Rebinder, FbmRequestBuffer,
       FbmReturnBuffer, FbmShareBufferCheck, FbmShareBuffer,
       FbmRequestPicture, FbmReturnPicture, FbmFlushEnter, FbmFlush,
       FbmSetFbmBufAddress, FbmSetNewDispRelease, FbmNewDispReleaseEnter,
       FbmNewDispRelease, FbmRequestReleasePicture, FbmReturnReleasePicture,
       binding, vars, FirstInv, TypeOK
  <2>2. NoShownReturned
    BY <2>1 DEF FirstInv, NoShownReturned
  <2> QED
    BY <1>2, <2>1, <2>2 DEF FirstInv, StepSafe
<1> QED
  BY <1>2, <1>3 DEF FirstInv, StepSafe

\* The invariant of every behaviour with at most one release.
THEOREM FirstInvariant ==
    ASSUME MaxRelease \in {0, 1} PROVE Spec => []FirstInv
<1>1. Init => FirstInv
  BY InitTypes, InitSound DEF FirstInv, Init
<1>2. FirstInv /\ [Next]_vars => FirstInv'
  BY FirstStep
<1> QED
  BY <1>1, <1>2, PTL DEF Spec

\* Through the first release every buffer is in one place and none leaves
\* under the decoder, although the render may be left with one.
THEOREM FirstReleaseSafe ==
    ASSUME MaxRelease \in {0, 1} PROVE Spec => []ReleaseSafe
<1>1. FirstInv => ReleaseSafe
  BY SoundIsSafe DEF FirstInv
<1> QED
  BY <1>1, FirstInvariant, PTL

-----------------------------------------------------------------------------
(* Any number of releases. *)

\* Fbm with a decoder that waits for the render before it returns a marked
\* frame.
TidySpec == Init /\ [][Next /\ NoShownReturned]_vars

TidyInv ==
    /\ TypeOK
    /\ CountsCover
    /\ Sound
    /\ Untangled
    /\ StatusValid
    /\ Counted

\* The invariant of every behaviour without that one step.
THEOREM TidyInvariant == TidySpec => []TidyInv
<1>1. Init => TidyInv
  BY InitTypes, InitSound DEF TidyInv
<1>2. TidyInv /\ [Next /\ NoShownReturned]_vars => TidyInv'
  <2> SUFFICES ASSUME TidyInv, [Next /\ NoShownReturned]_vars
               PROVE  TidyInv'
    OBVIOUS
  <2>1. [Next]_vars /\ NoShownReturned
    BY DEF NoShownReturned, vars
  <2>2. TypeOK' /\ CountsCover' /\ StepSafe
    BY <2>1, NextSafe DEF TidyInv
  <2> QED
    BY <2>1, <2>2 DEF TidyInv, StepSafe
<1> QED
  BY <1>1, <1>2, PTL DEF TidySpec

\* Without it, any number of releases leaves every buffer in one place and
\* none under the decoder, the counters exact and every status check passed.
THEOREM TidyReleases ==
    TidySpec => [](ReleaseSafe /\ StatusValid /\ Counted)
<1>1. TidyInv => ReleaseSafe /\ StatusValid /\ Counted
  BY SoundIsSafe DEF TidyInv
<1> QED
  BY <1>1, TidyInvariant, PTL

-----------------------------------------------------------------------------
(* The picture queue, with buffers of the window system. *)

\* Every step is a step of PictureQueue or leaves its state alone; the
\* release queue is no part of it.
LEMMA SoundRefines ==
    ASSUME TypeOK, Sound, [Next]_vars
    PROVE  [PQ!PQNext]_(PQ!pqVars)
<1> USE DEF PQ!PQNext, PQ!pqVars
<1>1. CASE FbmRequestBuffer
  <2> DEFINE f == Head(pEmptyBufferQueue)
  <2>1. f \in Frames /\ f \in Empty
    BY <1>1, DequeueFacts
       DEF FbmRequestBuffer, TypeOK, Sound, LinkedOnce, Empty
  <2>2. f \notin bUsedByDecoder \cup bInValidPictureQueue
                 \cup bAlreadyDisplayed \cup Waiting
    BY <2>1 DEF Sound, LinkedOnce, DecoderKnown, FlagsAgree
  <2>3. CASE f \in bUsedByRender
    BY <1>1, <2>3 DEF FbmRequestBuffer, display, Published
  <2>4. CASE f \notin bUsedByRender
    <3>1. /\ bUsedByDecoder' = bUsedByDecoder \cup {f}
          /\ UNCHANGED <<pValidPictureQueue, display>>
      BY <1>1, <2>2, <2>4 DEF FbmRequestBuffer
    <3>2. Published' = Published
      BY <2>2, <2>4, <3>1 DEF Published, display
    <3>3. f \notin PQ!InUse
      BY <2>2, <2>4 DEF PQ!InUse, Waiting, Members
    <3>4. PQ!Acquire(f)
      BY <2>1, <3>1, <3>2, <3>3 DEF PQ!Acquire, display
    <3> QED
      BY <2>1, <3>4
  <2> QED
    BY <2>3, <2>4
<1>2. ASSUME NEW f \in Frames, NEW v \in BOOLEAN, FbmReturnBuffer(f, v)
      PROVE  PQ!PQNext
  <2>1. /\ f \in bUsedByDecoder
        /\ ReturnToQueue(f, v)
        /\ UNCHANGED bUsedByRender
        /\ bUsedByDecoder' = bUsedByDecoder \ {f}
    BY <1>2 DEF FbmReturnBuffer, ReturnToQueue, Sound, DecoderKnown, Tagged
  <2>2. CASE \/ f \in Published
             \/ f \in bNeedRelease
             \/ ~v
    <3>1. UNCHANGED <<pValidPictureQueue, bInValidPictureQueue>>
      BY <2>1, <2>2 DEF ReturnToQueue, Published
    <3>2. bAlreadyDisplayed' = bAlreadyDisplayed
              \/ bAlreadyDisplayed' = bAlreadyDisplayed \ {f}
      BY <2>1 DEF ReturnToQueue
    <3>3. Published' = Published \ {f}
      BY <2>1, <3>1, <3>2 DEF Published
    <3>4. PQ!Finish(f)
      BY <2>1, <3>1, <3>3 DEF PQ!Finish
    <3> QED
      BY <3>4
  <2>3. CASE f \notin Published /\ f \notin bNeedRelease /\ v
    <3>1. f \notin bInValidPictureQueue \cup bUsedByRender
                       \cup bAlreadyDisplayed \cup Waiting
      BY <2>1, <2>3 DEF Published, Sound, FlagsAgree
    <3>2. /\ pValidPictureQueue' = FbmEnqueue(pValidPictureQueue, f)
          /\ bInValidPictureQueue' = bInValidPictureQueue \cup {f}
          /\ bAlreadyDisplayed' = bAlreadyDisplayed
      BY <2>1, <2>3, <3>1 DEF ReturnToQueue
    <3>3. pValidPictureQueue' = Append(pValidPictureQueue, f)
      BY <3>1, <3>2 DEF FbmEnqueue, Waiting
    <3>4. Published' = Published
      BY <2>1, <2>3, <3>2 DEF Published
    <3>5. PQ!PublishLast(f)
      BY <2>1, <2>3, <3>3, <3>4 DEF PQ!PublishLast
    <3> QED
      BY <3>5
  <2> QED
    BY <2>2, <2>3
<1>3. ASSUME NEW f \in Frames, FbmShareBufferCheck(f)
      PROVE  UNCHANGED PQ!pqVars
  BY <1>3 DEF FbmShareBufferCheck, queues, display, Published
<1>4. CASE FbmShareBuffer
  <2>1. /\ sharing \in Frames
        /\ sharing \in bUsedByDecoder
        /\ sharing \notin Published
        /\ sharing \notin bInValidPictureQueue \cup bAlreadyDisplayed
        /\ sharing \notin Waiting
    BY <1>4 DEF FbmShareBuffer, TypeOK, Sound, DecoderKnown, SharedOnce,
       Published, FlagsAgree
  <2>2. /\ bInValidPictureQueue' = bInValidPictureQueue \cup {sharing}
        /\ pValidPictureQueue' = FbmEnqueue(pValidPictureQueue, sharing)
        /\ UNCHANGED <<bUsedByDecoder, bUsedByRender, bAlreadyDisplayed>>
    BY <1>4, <2>1 DEF FbmShareBuffer
  <2>3. pValidPictureQueue' = Append(pValidPictureQueue, sharing)
    BY <2>1, <2>2 DEF FbmEnqueue, Waiting
  <2>4. Published' = Published \cup {sharing}
    BY <2>1, <2>2 DEF Published
  <2>5. PQ!Publish(sharing)
    BY <2>1, <2>2, <2>3, <2>4 DEF PQ!Publish
  <2> QED
    BY <2>1, <2>5
<1>5. CASE FbmRequestPicture
  <2> DEFINE f == Head(pValidPictureQueue)
  <2>1. f \in Waiting /\ pValidPictureQueue # <<>>
    BY <1>5, DequeueFacts
       DEF FbmRequestPicture, TypeOK, Sound, LinkedOnce, Waiting
  <2>2. /\ f \in bInValidPictureQueue
        /\ f \notin bUsedByRender \cup bAlreadyDisplayed
    BY <2>1 DEF Sound, FlagsAgree
  <2>3. /\ pValidPictureQueue' = Tail(pValidPictureQueue)
        /\ bInValidPictureQueue' = bInValidPictureQueue \ {f}
        /\ bUsedByRender' = bUsedByRender \cup {f}
        /\ UNCHANGED <<bUsedByDecoder, bAlreadyDisplayed>>
    BY <1>5, <2>2 DEF FbmRequestPicture
  <2>4. Published' = Published
    BY <2>2, <2>3 DEF Published
  <2>5. PQ!Show
    BY <2>1, <2>3, <2>4 DEF PQ!Show
  <2> QED
    BY <2>5
<1>6. ASSUME NEW f \in Frames, FbmReturnPicture(f)
      PROVE  PQ!PQNext \/ UNCHANGED PQ!pqVars
  <2>1. UNCHANGED <<pValidPictureQueue, bUsedByDecoder,
                    bInValidPictureQueue>>
    BY <1>6 DEF FbmReturnPicture
  <2>2. CASE nID[f] # "index"
    BY <1>6, <2>1, <2>2
       DEF FbmReturnPicture, ReturnForbidden, Published, TypeOK
  <2>3. CASE nID[f] = "index"
    <3>1. f \in bUsedByRender
          /\ f \notin bInValidPictureQueue \cup bAlreadyDisplayed
      BY <1>6, <2>3 DEF FbmReturnPicture, Sound, FlagsAgree
    <3>2. ReturnDisplayed(f)
      BY <1>6, <2>3, <3>1 DEF FbmReturnPicture
    <3>3. /\ bUsedByRender' = bUsedByRender \ {f}
          /\ bAlreadyDisplayed' = IF f \notin bUsedByDecoder
                                  THEN bAlreadyDisplayed
                                  ELSE bAlreadyDisplayed \cup {f}
      BY <3>2 DEF ReturnDisplayed, DecoderDone
    <3>4. Published' = Published
      BY <2>1, <3>1, <3>3 DEF Published
    <3>5. PQ!EndShow(f)
      BY <2>1, <3>1, <3>3, <3>4 DEF PQ!EndShow
    <3> QED
      BY <3>5
  <2> QED
    BY <2>2, <2>3
<1>7. CASE FbmFlushEnter
  BY <1>7 DEF FbmFlushEnter, queues, display, Published
<1>8. CASE FbmFlush
  <2>1. CASE pValidPictureQueue = <<>>
    BY <1>8, <2>1 DEF FbmFlush, Published
  <2>2. CASE pValidPictureQueue # <<>>
    <3> DEFINE f == Head(pValidPictureQueue)
    <3>1. f \in Waiting
      BY <2>2, DequeueFacts DEF TypeOK, Sound, LinkedOnce, Waiting
    <3>2. /\ f \in bInValidPictureQueue
          /\ f \notin bUsedByRender \cup bAlreadyDisplayed
      BY <3>1 DEF Sound, FlagsAgree
    <3>3. /\ pValidPictureQueue' = Tail(pValidPictureQueue)
          /\ bInValidPictureQueue' = bInValidPictureQueue \ {f}
          /\ bAlreadyDisplayed' = IF f \notin bUsedByDecoder
                                  THEN bAlreadyDisplayed
                                  ELSE bAlreadyDisplayed \cup {f}
          /\ UNCHANGED <<bUsedByDecoder, bUsedByRender>>
      BY <1>8, <2>2, <3>2 DEF FbmFlush, FlushedIsFree, FlushedNum
    <3>4. Published' = Published
      BY <3>2, <3>3 DEF Published
    <3>5. PQ!Drop
      BY <2>2, <3>3, <3>4 DEF PQ!Drop
    <3> QED
      BY <3>5
  <2> QED
    BY <2>1, <2>2
<1>9. CASE Rebinder
  BY <1>9 DEF Rebinder, FbmSetFbmBufAddress, FbmSetNewDispRelease,
     FbmNewDispReleaseEnter, FbmNewDispRelease, FbmRequestReleasePicture,
     FbmReturnReleasePicture, queues, display, Published
<1>10. CASE UNCHANGED vars
  BY <1>10 DEF vars, queues, display, Published
<1> QED
  BY <1>1, <1>2, <1>3, <1>4, <1>5, <1>6, <1>7, <1>8, <1>9, <1>10
     DEF Next, Decoder, Render, Flusher

\* With buffers of the window system too the frame buffer manager implements
\* PictureQueue, through the first release.
THEOREM FirstReleaseRefines ==
    ASSUME MaxRelease \in {0, 1} PROVE Spec => RefinesPictureQueue
<1>1. Init => PQ!PQInit
  BY InitRefines
<1>2. FirstInv /\ [Next]_vars => [PQ!PQNext]_(PQ!pqVars)
  BY SoundRefines DEF FirstInv
<1> QED
  BY <1>1, <1>2, FirstInvariant, PTL
     DEF Spec, RefinesPictureQueue, PQ!PQSpec

\* And through any number of them, if no marked frame is returned while the
\* render shows it.
THEOREM TidyRefines == TidySpec => RefinesPictureQueue
<1>1. Init => PQ!PQInit
  BY InitRefines
<1>2. TidyInv /\ [Next /\ NoShownReturned]_vars => [PQ!PQNext]_(PQ!pqVars)
  <2>1. [Next /\ NoShownReturned]_vars => [Next]_vars
    OBVIOUS
  <2> QED
    BY <2>1, SoundRefines DEF TidyInv
<1> QED
  BY <1>1, <1>2, TidyInvariant, PTL
     DEF TidySpec, RefinesPictureQueue, PQ!PQSpec

(***************************************************************************)
(* The memory of the pictures, for every size of picture and pool.  Sizes  *)
(* are numbers without a bound: what is proved holds in the code as long   *)
(* as they fit its int.                                                    *)
(*                                                                         *)
(* The arithmetic comes down to one fact: a padded luma is a multiple of   *)
(* four, so that the quarter that FbmAllocatePictureBuffer gives a chroma  *)
(* plane, and the three halves behind which the other computation of the   *)
(* layout looks for the lower two bits, are exact.                         *)
(***************************************************************************)
\* Division with a remainder.
LEMMA Quotient ==
    ASSUME NEW n \in Nat, NEW a \in Nat \ {0}
    PROVE  /\ n \div a \in Nat /\ n % a \in 0 .. a - 1
           /\ n = (n \div a) * a + (n % a)
<1>1. n \div a \in Nat /\ n % a \in 0 .. a - 1
  OBVIOUS
<1>2. n = a * (n \div a) + (n % a)
  OBVIOUS
<1>3. \A k \in Nat : a * k = k * a
  OBVIOUS
<1> QED
  BY <1>1, <1>2, <1>3

\* A size is rounded up to whole macroblocks, at least.
LEMMA AlignUpIs ==
    ASSUME NEW n \in Nat \ {0}, NEW a \in Nat \ {0}, a % 16 = 0
    PROVE  \E t \in Nat : /\ AlignUp(n, a) = 16 * t /\ n <= 16 * t
                          /\ AlignUp(n, 16) <= 16 * t
<1>1. PICK k : k = (n + a - 1) \div a
  OBVIOUS
<1>2. n + a - 1 \in Nat
  OBVIOUS
<1>3. k \in Nat /\ n + a - 1 = k * a + ((n + a - 1) % a)
      /\ (n + a - 1) % a \in 0 .. a - 1
  BY <1>1, <1>2, Quotient
<1>4. PICK m : m = a \div 16
  OBVIOUS
<1>5. m \in Nat /\ a = m * 16
  BY <1>4, Quotient
<1>6. k * m \in Nat /\ k * a = 16 * (k * m)
  BY <1>3, <1>5
<1>7. PICK t \in Nat : t = k * m
  BY <1>6
<1>8. k * a = 16 * t /\ n <= 16 * t
  <2>1. k * a \in Nat
    BY <1>3
  <2> QED
    BY <1>3, <1>6, <1>7, <2>1
<1>9. AlignUp(n, a) = 16 * t
  BY <1>1, <1>8 DEF AlignUp
<1>10. PICK j : j = (n + 15) \div 16
  OBVIOUS
<1>11. j \in Nat /\ 16 * j <= n + 15
  BY <1>10
<1>12. AlignUp(n, 16) = 16 * j
  BY <1>10, <1>11 DEF AlignUp
<1> QED
  BY <1>8, <1>9, <1>11, <1>12

\* Products grow with their factors.
LEMMA Grow ==
    \A x, y, u, v \in Nat : x <= u /\ y <= v => x * y <= u * v
<1> SUFFICES ASSUME NEW x \in Nat, NEW y \in Nat, NEW u \in Nat,
                    NEW v \in Nat, x <= u, y <= v
             PROVE  x * y <= u * v
  OBVIOUS
<1>1. PICK c \in Nat : u = x + c
  <2>1. u - x \in Nat /\ u = x + (u - x)
    OBVIOUS
  <2> QED
    BY <2>1
<1>2. PICK d \in Nat : v = y + d
  <2>1. v - y \in Nat /\ v = y + (v - y)
    OBVIOUS
  <2> QED
    BY <2>1
<1>3. (x + c) * (y + d) = x * y + (x * d + c * (y + d))
  OBVIOUS
<1>4. x * d + c * (y + d) \in Nat /\ x * y \in Nat
  OBVIOUS
<1> HIDE <1>1, <1>2
<1>5. (x + c) * (y + d) >= x * y
  BY <1>3, <1>4
<1> QED
  BY <1>1, <1>2, <1>5

\* A plane of such lines and columns.
LEMMA Plane ==
    ASSUME NEW w \in Nat \ {0}, NEW h \in Nat \ {0},
           NEW a \in Nat \ {0}, NEW b \in Nat \ {0}, a % 16 = 0, b % 16 = 0
    PROVE  \E k \in Nat :
               /\ AlignUp(w, a) * AlignUp(h, b) = 4 * k
               /\ AlignUp(w, 16) * AlignUp(h, 16) <= 4 * k
<1>1. PICK s \in Nat : AlignUp(w, a) = 16 * s /\ AlignUp(w, 16) <= 16 * s
  BY AlignUpIs
<1>2. PICK t \in Nat : AlignUp(h, b) = 16 * t /\ AlignUp(h, 16) <= 16 * t
  BY AlignUpIs
<1>3. s * t \in Nat /\ (16 * s) * (16 * t) = 4 * (64 * (s * t))
  OBVIOUS
<1>4. AlignUp(w, 16) \in Nat /\ AlignUp(h, 16) \in Nat
  <2>1. \A n \in Nat : (n + 16 - 1) \div 16 \in Nat
    OBVIOUS
  <2> QED
    BY <2>1 DEF AlignUp
<1>6. 16 * s \in Nat /\ 16 * t \in Nat
  OBVIOUS
<1>7. AlignUp(w, 16) * AlignUp(h, 16) <= (16 * s) * (16 * t)
  BY <1>1, <1>2, <1>4, <1>6, Grow
<1>8. PICK k \in Nat : k = 64 * (s * t)
  BY <1>3
<1> QED
  BY <1>1, <1>2, <1>3, <1>7, <1>8

\* The blocks of the first frame.
Mem == <<0, "mem">>
MemC == <<0, "memC">>
Meta == <<0, "meta">>

\* They are different, and no plane is absent that has an address.
LEMMA Names ==
    /\ Mem # MemC /\ Mem # Meta /\ MemC # Meta
    /\ \A b, o : <<b, o>> # NoPlane
<1>1. Mem[2] = "mem" /\ MemC[2] = "memC" /\ Meta[2] = "meta"
  BY DEF Mem, MemC, Meta
<1>2. \A b, o : Len(<<b, o>>) = 2 /\ Len(NoPlane) = 0
  BY DEF NoPlane
<1> QED
  BY <1>1, <1>2

\* The size of a block in a layout of one.
LEMMA OneBlockSize ==
    ASSUME NEW layout, NEW b, NEW s, layout.blocks = <<<<b, s>>>>
    PROVE  SizeOfBlock(layout, b) = s
<1>1. DOMAIN layout.blocks = {1} /\ layout.blocks[1][1] = b
      /\ layout.blocks[1][2] = s
  OBVIOUS
<1>2. (CHOOSE j \in DOMAIN layout.blocks : layout.blocks[j][1] = b) = 1
  BY <1>1
<1> QED
  BY <1>1, <1>2 DEF SizeOfBlock

\* And in a layout of two.
LEMMA TwoBlockSizes ==
    ASSUME NEW layout, NEW b, NEW s, NEW c, NEW t, b # c,
           layout.blocks = <<<<b, s>>, <<c, t>>>>
    PROVE  SizeOfBlock(layout, b) = s /\ SizeOfBlock(layout, c) = t
<1>1. /\ DOMAIN layout.blocks = {1, 2}
      /\ layout.blocks[1][1] = b /\ layout.blocks[1][2] = s
      /\ layout.blocks[2][1] = c /\ layout.blocks[2][2] = t
  OBVIOUS
<1>2. (CHOOSE j \in DOMAIN layout.blocks : layout.blocks[j][1] = b) = 1
  BY <1>1
<1>3. (CHOOSE j \in DOMAIN layout.blocks : layout.blocks[j][1] = c) = 2
  BY <1>1
<1> QED
  BY <1>1, <1>2, <1>3 DEF SizeOfBlock

\* Three parts of one block, one after the other.
LEMMA InARow ==
    ASSUME NEW layout, NEW m, NEW parts,
           NEW x \in Nat, NEW y \in Nat, NEW z \in Nat,
           NEW u \in Nat, NEW v \in Nat, NEW w \in Nat,
           u <= x, x + v <= y, y + w <= z,
           SizeOfBlock(layout, m) = z,
           parts \subseteq {<<m, 0, u>>, <<m, x, v>>, <<m, y, w>>}
    PROVE  Fit(layout, parts) /\ Apart(parts)
<1>1. Fit(layout, parts)
  BY DEF Fit
<1>2. Apart(parts)
  BY DEF Apart
<1> QED
  BY <1>1, <1>2

\* What the code computes before it lays a picture out.
LEMMA PaddedIs ==
    ASSUME NEW pic \in PictureKinds, NEW w \in Nat \ {0}, NEW h \in Nat \ {0}
    PROVE  LET size == Padded(pic, w, h)
           IN  \E k \in Nat :
                   /\ size[1] * size[2] = 4 * k
                   /\ AlignUp(w, 16) * AlignUp(h, 16) <= 4 * k
<1> DEFINE a == IF pic.align = 0 THEN 16 ELSE pic.align
<1>1. pic.align \in Nat /\ pic.align % 16 = 0
  BY PictureAssumption DEF PictureKinds
<1>2. a \in Nat \ {0} /\ a % 16 = 0
  BY <1>1
<1>3. /\ Padded(pic, w, h)[1] = AlignUp(w, a)
      /\ Padded(pic, w, h)[2] = AlignUp(h, a)
  BY DEF Padded
<1> HIDE DEF a
<1> QED
  BY <1>2, <1>3, Plane

\* A compressed picture takes room.
LEMMA AfbcIs ==
    ASSUME NEW w \in Nat \ {0}, NEW h \in Nat \ {0}, NEW b10Bit \in BOOLEAN
    PROVE  AfbcSize(w, h, b10Bit) \in Nat \ {0}
<1> DEFINE x == (w + 15) \div 16
           y == (h + 19) \div 16
           z == (IF b10Bit THEN 512 ELSE 384) + 16
<1>1. x \in Nat /\ y \in Nat /\ z \in Nat
  OBVIOUS
<1>2. AfbcSize(w, h, b10Bit) = (x * y) * z + 32 + 1024
  BY DEF AfbcSize
<1> HIDE DEF x, y, z
<1>3. x * y \in Nat
  BY <1>1
<1>4. (x * y) * z \in Nat
  BY <1>1, <1>3
<1> QED
  BY <1>2, <1>4

\* The lower two bits take no negative room.
LEMMA LowerIs ==
    ASSUME NEW w \in Nat \ {0}, NEW h \in Nat \ {0}
    PROVE  Lower2BitSize(w, h) \in Nat
<1> DEFINE s == Lower2BitStride(w)
<1>1. s \in Nat
  BY DEF Lower2BitStride, AlignUp
<1>2. Lower2BitSize(w, h) = (s * h * 3) \div 2
  BY DEF Lower2BitSize
<1> HIDE DEF s
<1>3. s * h \in Nat
  BY <1>1
<1>4. s * h * 3 \in Nat
  BY <1>3
<1> QED
  BY <1>2, <1>4

\* Planes one after the other in one block; the compressed body instead of
\* them; the lower two bits behind either.
LEMMA PlanarFits ==
    ASSUME NEW pic \in PictureKinds, pic.ePixelFormat \in Planar,
           NEW w \in Nat \ {0}, NEW h \in Nat \ {0}
    PROVE  LET layout == PlanarLayout(0, pic, w, h)
           IN  /\ Fit(layout, Parts(pic, layout)) /\ Apart(Parts(pic, layout))
               /\ layout.luma >= AlignUp(w, 16) * AlignUp(h, 16)
<1> DEFINE layout == PlanarLayout(0, pic, w, h)
           size == Padded(pic, w, h)
           Y == size[1] * size[2]
           C == ChromaOf(pic.ePixelFormat, Y)
           A == AfbcSize(w, h, pic.b10Bit)
           yuv == IF pic.afbc THEN A ELSE Y + 2 * C
           L == IF pic.b10Bit THEN Lower2BitSize(w, h) ELSE 0
<1>1. PICK k \in Nat : Y = 4 * k /\ AlignUp(w, 16) * AlignUp(h, 16) <= 4 * k
  BY PaddedIs
<1>2. Y \in Nat /\ C \in Nat
  BY <1>1 DEF ChromaOf
<1>3. pic.b10Bit \in BOOLEAN /\ pic.afbc \in BOOLEAN
  BY DEF PictureKinds
<1>4. A \in Nat \ {0} /\ L \in Nat /\ (~pic.b10Bit => L = 0)
  BY <1>3, AfbcIs, LowerIs
<1> DEFINE Laid == /\ Fit(layout, Parts(pic, layout))
                   /\ Apart(Parts(pic, layout))
                   /\ layout.luma >= AlignUp(w, 16) * AlignUp(h, 16)
<1>5. layout = [blocks |-> <<<<Mem, yuv + L>>, <<Meta, 4096>>>>,
         pData0 |-> <<Mem, 0>>,
         pData1 |-> IF pic.afbc THEN NoPlane ELSE <<Mem, Y>>,
         pData2 |-> IF pic.afbc \/ pic.b10Bit \/ pic.ePixelFormat = NV21
                    THEN NoPlane ELSE <<Mem, Y + C>>,
         nLower2BitBufOffset |-> IF pic.b10Bit THEN yuv ELSE 0,
         nLower2BitBufSize |-> L,
         nAfbcSize |-> IF pic.afbc THEN A ELSE 0,
         luma |-> Y, chroma |-> C]
  BY DEF PlanarLayout, Mem, Meta
<1> HIDE DEF layout, size, Y, C, A, L
<1>6. /\ layout.pData0 = <<Mem, 0>>
      /\ layout.pData1 = IF pic.afbc THEN NoPlane ELSE <<Mem, Y>>
      /\ layout.pData2 = IF pic.afbc \/ pic.b10Bit \/ pic.ePixelFormat = NV21
                         THEN NoPlane ELSE <<Mem, Y + C>>
      /\ layout.nLower2BitBufOffset = (IF pic.b10Bit THEN yuv ELSE 0)
      /\ layout.nLower2BitBufSize = L
      /\ layout.nAfbcSize = (IF pic.afbc THEN A ELSE 0)
      /\ layout.luma = Y /\ layout.chroma = C
      /\ layout.blocks = <<<<Mem, yuv + L>>, <<Meta, 4096>>>>
  BY <1>5
<1>7. SizeOfBlock(layout, Mem) = yuv + L
  BY <1>6, Names, TwoBlockSizes
<1>8. <<Mem, 0>> # NoPlane /\ <<Mem, Y>> # NoPlane /\ <<Mem, Y + C>> # NoPlane
      /\ <<Mem, 0>>[1] = Mem /\ <<Mem, 0>>[2] = 0
      /\ <<Mem, Y>>[1] = Mem /\ <<Mem, Y>>[2] = Y
      /\ <<Mem, Y + C>>[1] = Mem /\ <<Mem, Y + C>>[2] = Y + C
  BY Names
<1>12. layout.luma >= AlignUp(w, 16) * AlignUp(h, 16)
  BY <1>1, <1>2, <1>6
<1>9. ASSUME pic.afbc PROVE Laid
  <2>1. Parts(pic, layout)
            \subseteq {<<Mem, 0, A>>, <<Mem, A, 0>>, <<Mem, A, L>>}
    BY <1>3, <1>4, <1>6, <1>8, <1>9 DEF Parts
  <2>2. SizeOfBlock(layout, Mem) = A + L /\ A + L \in Nat
    BY <1>4, <1>7, <1>9
  <2>3. Fit(layout, Parts(pic, layout)) /\ Apart(Parts(pic, layout))
    BY <1>4, <2>1, <2>2, InARow
  <2> QED
    BY <1>12, <2>3
<1>10. ASSUME ~pic.afbc, pic.ePixelFormat \in {NV21, NV12} \/ pic.b10Bit
       PROVE  Laid
  <2>1. PICK n \in Nat :
            /\ n <= 2 * C
            /\ n = IF pic.ePixelFormat # NV12 THEN 2 * C ELSE C
    BY <1>2
  <2>2. Parts(pic, layout)
            \subseteq {<<Mem, 0, Y>>, <<Mem, Y, n>>, <<Mem, Y + 2 * C, L>>}
    BY <1>3, <1>4, <1>6, <1>8, <1>10, <2>1 DEF Parts
  <2>3. PICK e \in Nat : e = Y + 2 * C /\ Y + n <= e
    BY <1>2, <2>1
  <2>4. SizeOfBlock(layout, Mem) = e + L /\ e + L \in Nat
    BY <1>2, <1>4, <1>7, <1>10, <2>3
  <2>5. Parts(pic, layout)
            \subseteq {<<Mem, 0, Y>>, <<Mem, Y, n>>, <<Mem, e, L>>}
    BY <2>2, <2>3
  <2>7. Y <= Y /\ Y + n <= e /\ e + L <= e + L
    BY <1>2, <1>4, <2>3, <2>4
  <2>6. Fit(layout, Parts(pic, layout)) /\ Apart(Parts(pic, layout))
    BY <1>2, <1>4, <2>1, <2>3, <2>4, <2>5, <2>7, InARow, Zenon
  <2> QED
    BY <1>12, <2>6
<1>11. ASSUME ~pic.afbc, pic.ePixelFormat \notin {NV21, NV12}, ~pic.b10Bit
       PROVE  Laid
  <2>1. pic.ePixelFormat \notin {NV21, NV12, P010_UV} \cup Tiled /\ L = 0
    BY <1>11 DEF Planar, Tiled, L, PLANER_420, PLANER_422, PLANER_444, YV12,
       NV21, NV12, MB32_420, MB32_422, MB32_444, P010_UV
  <2>2. Parts(pic, layout)
            \subseteq {<<Mem, 0, Y>>, <<Mem, Y, C>>, <<Mem, Y + C, C>>}
    BY <1>3, <1>4, <1>6, <1>8, <1>11, <2>1 DEF Parts
  <2>3. PICK e \in Nat : e = Y + C /\ e + C = yuv + L
    BY <1>2, <1>11, <2>1
  <2>4. SizeOfBlock(layout, Mem) = e + C /\ e + C \in Nat
    BY <1>2, <1>7, <2>3
  <2>6. Parts(pic, layout)
            \subseteq {<<Mem, 0, Y>>, <<Mem, Y, C>>, <<Mem, e, C>>}
    BY <2>2, <2>3
  <2>7. Y <= Y /\ Y + C <= e /\ e + C <= e + C
    BY <1>2, <2>3, <2>4
  <2>5. Fit(layout, Parts(pic, layout)) /\ Apart(Parts(pic, layout))
    BY <1>2, <2>3, <2>4, <2>6, <2>7, InARow, Zenon
  <2> QED
    BY <1>12, <2>5
<1> QED
  BY <1>3, <1>9, <1>10, <1>11 DEF layout

\* Two bytes a sample, the chroma behind the luma.
LEMMA P010Fits ==
    ASSUME NEW pic \in PictureKinds, pic.ePixelFormat = P010_UV,
           NEW w \in Nat \ {0}, NEW h \in Nat \ {0}
    PROVE  LET layout == P010Layout(0, pic, w, h)
           IN  /\ Fit(layout, Parts(pic, layout)) /\ Apart(Parts(pic, layout))
               /\ layout.luma >= AlignUp(w, 16) * AlignUp(h, 16)
<1> DEFINE layout == P010Layout(0, pic, w, h)
           size == Padded(pic, w, h)
           Y == size[1] * size[2] * 2
           C == Y \div 4
<1>1. PICK k \in Nat : size[1] * size[2] = 4 * k
                       /\ AlignUp(w, 16) * AlignUp(h, 16) <= 4 * k
  BY PaddedIs
<1>2. Y = 8 * k /\ C = 2 * k
  BY <1>1
<1>3. layout = [blocks |-> <<<<Mem, Y + 2 * C>>>>, pData0 |-> <<Mem, 0>>,
                pData1 |-> <<Mem, Y>>, pData2 |-> NoPlane,
                nLower2BitBufOffset |-> 0, nLower2BitBufSize |-> 0,
                nAfbcSize |-> 0, luma |-> Y, chroma |-> C]
  BY DEF P010Layout, OtherLayout, Mem
<1> HIDE DEF layout, size, Y, C
<1>4. /\ layout.pData0 = <<Mem, 0>> /\ layout.pData1 = <<Mem, Y>>
      /\ layout.nLower2BitBufSize = 0 /\ layout.nAfbcSize = 0
      /\ layout.luma = Y /\ layout.chroma = C
      /\ layout.blocks = <<<<Mem, Y + 2 * C>>>>
  BY <1>3
<1>5. <<Mem, 0>> # NoPlane /\ <<Mem, Y>> # NoPlane
      /\ <<Mem, 0>>[1] = Mem /\ <<Mem, 0>>[2] = 0
      /\ <<Mem, Y>>[1] = Mem /\ <<Mem, Y>>[2] = Y
  BY Names
<1>6. PICK n \in Nat : n = 2 * C
  BY <1>2
<1>7. PICK e \in Nat : e = Y + n
  BY <1>2, <1>6
<1>8. Parts(pic, layout)
          \subseteq {<<Mem, 0, Y>>, <<Mem, Y, n>>, <<Mem, e, 0>>}
  BY <1>4, <1>5, <1>6 DEF Parts, P010_UV, NV12
<1>9. SizeOfBlock(layout, Mem) = e
  BY <1>4, <1>6, <1>7, OneBlockSize
<1>10. Y \in Nat /\ 0 \in Nat /\ Y <= Y /\ Y + n <= e /\ e + 0 <= e
  BY <1>2, <1>7
<1>11. Fit(layout, Parts(pic, layout)) /\ Apart(Parts(pic, layout))
  BY <1>8, <1>9, <1>10, InARow, Zenon
<1>12. layout.luma >= AlignUp(w, 16) * AlignUp(h, 16)
  <2> DEFINE p == AlignUp(w, 16)
             q == AlignUp(h, 16)
  <2>1. p \in Nat /\ q \in Nat
    BY DEF AlignUp
  <2> HIDE DEF p, q
  <2>2. p * q \in Nat
    BY <2>1
  <2>3. PICK r \in Nat : r = p * q
    BY <2>2
  <2>4. r <= 4 * k
    BY <1>1, <2>3 DEF p, q
  <2>5. r <= 8 * k
    BY <2>4
  <2> QED
    BY <1>2, <1>4, <2>3, <2>5 DEF p, q
<1> QED
  BY <1>11, <1>12 DEF layout

\* The luma of a tiled picture.
LEMMA TiledIs ==
    ASSUME NEW w \in Nat \ {0}, NEW h \in Nat \ {0}
    PROVE  \E k \in Nat :
               /\ AlignUp(w, 64) * AlignUp(h, 64) = 4 * k
               /\ AlignUp(w, 16) * AlignUp(h, 16) <= 4 * k
<1> DEFINE a == 64
<1>1. a \in Nat \ {0} /\ a % 16 = 0
  OBVIOUS
<1> HIDE DEF a
<1>2. PICK x, y : x = AlignUp(w, a) /\ y = AlignUp(h, a)
  OBVIOUS
<1>3. \E k \in Nat : /\ x * y = 4 * k
                    /\ AlignUp(w, 16) * AlignUp(h, 16) <= 4 * k
  BY <1>1, <1>2, Plane
<1> QED
  BY <1>2, <1>3 DEF a

\* Luma and chroma have a block each.
LEMMA TiledFits ==
    ASSUME NEW pic \in PictureKinds, pic.ePixelFormat \in Tiled,
           NEW w \in Nat \ {0}, NEW h \in Nat \ {0}
    PROVE  LET layout == TiledLayout(0, pic, w, h)
           IN  /\ Fit(layout, Parts(pic, layout)) /\ Apart(Parts(pic, layout))
               /\ layout.luma >= AlignUp(w, 16) * AlignUp(h, 16)
<1> DEFINE layout == TiledLayout(0, pic, w, h)
           s == AlignUp(AlignUp(w, 32), 64)
           Y == s * AlignUp(h, 64)
           C == TiledChromaOf(pic.ePixelFormat, s, AlignUp(h, 64))
<1>1. PICK k \in Nat : Y = 4 * k /\ AlignUp(w, 16) * AlignUp(h, 16) <= 4 * k
  <2>1. s = AlignUp(w, 64)
    BY DEF AlignUp
  <2> QED
    BY <2>1, TiledIs
<1>2. Y \in Nat /\ C \in Nat
  <2>1. C = Y \div (CASE pic.ePixelFormat = MB32_420 -> 4
                      [] pic.ePixelFormat = MB32_422 -> 2
                      [] OTHER -> 1)
    BY DEF TiledChromaOf
  <2> HIDE DEF Y, C
  <2> QED
    BY <1>1, <2>1
<1>3. layout = [blocks |-> <<<<Mem, Y>>, <<MemC, 2 * C>>>>,
                pData0 |-> <<Mem, 0>>, pData1 |-> <<MemC, 0>>,
                pData2 |-> NoPlane,
                nLower2BitBufOffset |-> 0, nLower2BitBufSize |-> 0,
                nAfbcSize |-> 0, luma |-> Y, chroma |-> C]
  BY DEF TiledLayout, OtherLayout, Mem, MemC
<1> HIDE DEF layout, s, Y, C
<1>4. /\ layout.pData0 = <<Mem, 0>> /\ layout.pData1 = <<MemC, 0>>
      /\ layout.nLower2BitBufSize = 0 /\ layout.nAfbcSize = 0
      /\ layout.luma = Y /\ layout.chroma = C
      /\ layout.blocks = <<<<Mem, Y>>, <<MemC, 2 * C>>>>
  BY <1>3
<1>5. /\ <<Mem, 0>> # NoPlane /\ <<MemC, 0>> # NoPlane
      /\ <<Mem, 0>>[1] = Mem /\ <<Mem, 0>>[2] = 0
      /\ <<MemC, 0>>[1] = MemC /\ <<MemC, 0>>[2] = 0
  BY Names
<1>6. Parts(pic, layout) \subseteq {<<Mem, 0, Y>>, <<MemC, 0, 2 * C>>}
  <2>1. pic.ePixelFormat \in {NV21, NV12, P010_UV} \cup Tiled
    OBVIOUS
  <2>2. pic.ePixelFormat # NV12
    BY DEF Tiled, MB32_420, MB32_422, MB32_444, NV12
  <2> QED
    BY <1>4, <1>5, <2>1, <2>2 DEF Parts
<1>7. SizeOfBlock(layout, Mem) = Y /\ SizeOfBlock(layout, MemC) = 2 * C
  BY <1>4, Names, TwoBlockSizes
<1>8. 2 * C \in Nat
  BY <1>2
<1>9. Fit(layout, Parts(pic, layout))
  BY <1>2, <1>6, <1>7, <1>8 DEF Fit
<1>10. Apart(Parts(pic, layout))
  BY <1>6, Names DEF Apart
<1>11. layout.luma >= AlignUp(w, 16) * AlignUp(h, 16)
  BY <1>1, <1>2, <1>4
<1> QED
  BY <1>9, <1>10, <1>11 DEF layout

\* The width of a picture whose lines are padded, or not.
LEMMA FrameWidthIs ==
    ASSUME NEW pic \in PictureKinds, NEW w \in Nat \ {0}
    PROVE  FrameWidth(pic, w) \in Nat /\ w <= FrameWidth(pic, w)
<1>1. pic.align \in Nat /\ pic.align % 16 = 0
  BY PictureAssumption DEF PictureKinds
<1>2. ASSUME pic.align # 0
      PROVE  FrameWidth(pic, w) \in Nat /\ w <= FrameWidth(pic, w)
  <2>1. PICK t \in Nat : AlignUp(w, pic.align) = 16 * t /\ w <= 16 * t
    BY <1>1, <1>2, AlignUpIs
  <2> QED
    BY <1>2, <2>1 DEF FrameWidth
<1> QED
  BY <1>2 DEF FrameWidth

\* One block without planes.
LEMMA OneBlockFits ==
    ASSUME NEW pic \in PictureKinds, NEW w \in Nat \ {0}, NEW h \in Nat \ {0}
    PROVE  LET layout == OneBlock(0, pic, w, h)
           IN  Fit(layout, Parts(pic, layout)) /\ Apart(Parts(pic, layout))
<1> DEFINE layout == OneBlock(0, pic, w, h)
           f == FrameWidth(pic, w)
           Y == 4 * f * h
<1>1. Y \in Nat
  <2>1. f \in Nat
    BY FrameWidthIs
  <2> HIDE DEF f
  <2> QED
    BY <2>1
<1>2. layout = [blocks |-> <<<<Mem, Y>>>>, pData0 |-> <<Mem, 0>>,
                pData1 |-> NoPlane, pData2 |-> NoPlane,
                nLower2BitBufOffset |-> 0, nLower2BitBufSize |-> 0,
                nAfbcSize |-> 0, luma |-> Y, chroma |-> 0]
  BY DEF OneBlock, OtherLayout, Mem
<1> HIDE DEF layout, f, Y
<1>3. /\ layout.pData0 = <<Mem, 0>> /\ layout.pData1 = NoPlane
      /\ layout.pData2 = NoPlane
      /\ layout.nLower2BitBufSize = 0 /\ layout.nAfbcSize = 0
      /\ layout.luma = Y /\ layout.chroma = 0
      /\ layout.blocks = <<<<Mem, Y>>>>
  BY <1>2
<1>4. /\ <<Mem, 0>> # NoPlane /\ <<Mem, 0>>[1] = Mem /\ <<Mem, 0>>[2] = 0
  BY Names
<1>5. Parts(pic, layout) \subseteq {<<Mem, 0, Y>>}
  BY <1>3, <1>4 DEF Parts
<1>6. SizeOfBlock(layout, Mem) = Y
  BY <1>3, OneBlockSize
<1>7. Fit(layout, Parts(pic, layout))
  BY <1>1, <1>5, <1>6 DEF Fit
<1>8. Apart(Parts(pic, layout))
  BY <1>5 DEF Apart
<1> QED
  BY <1>7, <1>8 DEF layout

\* FbmAllocatePictureBuffer: whatever the format, the size and the alignment,
\* the parts of a picture lie inside its blocks and apart from each other,
\* and the luma has room for all macroblocks.
THEOREM PlanesStayApart == PlanesApart
<1> SUFFICES ASSUME NEW pic \in PictureKinds, NEW size \in PictureSizes
             PROVE  LET layout == FbmAllocatePictureBuffer(0, pic, size[1],
                                                           size[2])
                        parts == Parts(pic, layout)
                    IN  /\ Fit(layout, parts) /\ Apart(parts)
                        /\ pic.ePixelFormat # RGBA =>
                              layout.luma >= AlignUp(size[1], 16)
                                                 * AlignUp(size[2], 16)
  BY DEF PlanesApart
<1>1. size[1] \in Nat \ {0} /\ size[2] \in Nat \ {0}
  BY PictureAssumption
<1>2. PICK w \in Nat \ {0} : w = size[1]
  BY <1>1
<1>3. PICK h \in Nat \ {0} : h = size[2]
  BY <1>1
<1> USE DEF PLANER_420, PLANER_422, PLANER_444, YV12, NV21, NV12, MB32_420,
        MB32_422, MB32_444, RGBA, P010_UV, Planar, Tiled
<1>4. CASE pic.ePixelFormat = P010_UV
  <2>1. FbmAllocatePictureBuffer(0, pic, w, h) = P010Layout(0, pic, w, h)
    BY <1>4 DEF FbmAllocatePictureBuffer
  <2> QED
    BY <1>2, <1>3, <1>4, <2>1, P010Fits
<1>5. CASE pic.ePixelFormat \in Planar
  <2>1. FbmAllocatePictureBuffer(0, pic, w, h) = PlanarLayout(0, pic, w, h)
    BY <1>5 DEF FbmAllocatePictureBuffer
  <2> QED
    BY <1>2, <1>3, <1>5, <2>1, PlanarFits
<1>6. CASE pic.ePixelFormat \in Tiled
  <2>1. FbmAllocatePictureBuffer(0, pic, w, h) = TiledLayout(0, pic, w, h)
    BY <1>6 DEF FbmAllocatePictureBuffer
  <2> QED
    BY <1>2, <1>3, <1>6, <2>1, TiledFits
<1>7. CASE pic.ePixelFormat = RGBA
  <2>1. FbmAllocatePictureBuffer(0, pic, w, h) = OneBlock(0, pic, w, h)
    BY <1>7 DEF FbmAllocatePictureBuffer
  <2> QED
    BY <1>2, <1>3, <1>7, <2>1, OneBlockFits
<1> QED
  BY <1>4, <1>5, <1>6, <1>7 DEF PictureKinds

\* Which layout a picture has.
LEMMA LayoutIs ==
    ASSUME NEW pic \in PictureKinds, NEW i, NEW w, NEW h
    PROVE  LET layout == FbmAllocatePictureBuffer(i, pic, w, h)
           IN  /\ pic.ePixelFormat = P010_UV =>
                      layout = P010Layout(i, pic, w, h)
               /\ pic.ePixelFormat \in Planar =>
                      layout = PlanarLayout(i, pic, w, h)
               /\ pic.ePixelFormat \in Tiled =>
                      layout = TiledLayout(i, pic, w, h)
               /\ pic.ePixelFormat = RGBA => layout = OneBlock(i, pic, w, h)
BY DEF FbmAllocatePictureBuffer, Planar, Tiled, PLANER_420, PLANER_422,
       PLANER_444, YV12, NV21, NV12, MB32_420, MB32_422, MB32_444, RGBA,
       P010_UV

\* A product is the same only if its factor is.
LEMMA SameProduct ==
    ASSUME NEW x \in Nat \ {0}, NEW p \in Nat, NEW q \in Nat, p <= q
    PROVE  x * p <= x * q /\ (x * p = x * q <=> p = q)
<1>1. PICK c \in Nat : q = p + c
  <2>1. q - p \in Nat /\ q = p + (q - p)
    OBVIOUS
  <2> QED
    BY <2>1
<1>2. x * (p + c) = x * p + x * c /\ x * p \in Nat /\ x * c \in Nat
  OBVIOUS
<1>3. x * c = 0 <=> c = 0
  OBVIOUS
<1> HIDE <1>1
<1>4. x * p <= x * (p + c) /\ (x * p = x * (p + c) <=> c = 0)
  BY <1>2, <1>3
<1> QED
  BY <1>1, <1>4

\* Tiles of 32 lines do not take more room than tiles of 64.
LEMMA TiledCovered ==
    ASSUME NEW pic \in PictureKinds, pic.ePixelFormat \in Tiled,
           NEW w \in Nat \ {0}, NEW h \in Nat \ {0}
    PROVE  LET layout == TiledLayout(0, pic, w, h)
               sizes == GetBufferSize(pic.ePixelFormat, w, h, pic.align)
           IN  /\ sizes[2] = layout.chroma /\ sizes[1] <= layout.luma
               /\ sizes[1] = layout.luma <=> PaddedAlike(pic, w, h)
<1> DEFINE s == AlignUp(w, 64)
           p == AlignUp(h, 32)
           q == AlignUp(h, 64)
<1>1. AlignUp(AlignUp(w, 32), 64) = s
  BY DEF AlignUp
<1>2. s \in Nat \ {0} /\ p \in Nat /\ q \in Nat /\ p <= q
  BY DEF AlignUp
<1>3. /\ TiledLayout(0, pic, w, h).luma = s * q
      /\ TiledLayout(0, pic, w, h).chroma
             = TiledChromaOf(pic.ePixelFormat, s, q)
  BY <1>1 DEF TiledLayout, OtherLayout
<1>4. GetBufferSize(pic.ePixelFormat, w, h, pic.align)
          = <<s * p, TiledChromaOf(pic.ePixelFormat, s, q)>>
  BY DEF GetBufferSize, Planar, Tiled, PLANER_420, PLANER_422, PLANER_444,
         YV12, NV21, NV12, MB32_420, MB32_422, MB32_444
<1>5. PaddedAlike(pic, w, h) <=> p = q
  BY DEF PaddedAlike, Tiled, MB32_420, MB32_422, MB32_444, RGBA
<1> HIDE DEF s, p, q
<1>6. s * p <= s * q /\ (s * p = s * q <=> p = q)
  BY <1>2, SameProduct
<1> QED
  BY <1>3, <1>4, <1>5, <1>6

\* Lines that are not padded do not take more room than those that are.
LEMMA OneBlockCovered ==
    ASSUME NEW pic \in PictureKinds, pic.ePixelFormat = RGBA,
           NEW w \in Nat \ {0}, NEW h \in Nat \ {0}
    PROVE  LET layout == OneBlock(0, pic, w, h)
               sizes == GetBufferSize(pic.ePixelFormat, w, h, pic.align)
           IN  /\ sizes[2] = layout.chroma /\ sizes[1] <= layout.luma
               /\ sizes[1] = layout.luma <=> PaddedAlike(pic, w, h)
<1> DEFINE f == FrameWidth(pic, w)
<1>1. f \in Nat /\ w <= f
  BY FrameWidthIs
<1>2. /\ OneBlock(0, pic, w, h).luma = 4 * f * h
      /\ OneBlock(0, pic, w, h).chroma = 0
  BY DEF OneBlock, OtherLayout
<1>3. GetBufferSize(pic.ePixelFormat, w, h, pic.align) = <<4 * w * h, 0>>
  BY DEF GetBufferSize, Planar, Tiled, PLANER_420, PLANER_422, PLANER_444,
         YV12, NV21, NV12, MB32_420, MB32_422, MB32_444, RGBA
<1>4. PaddedAlike(pic, w, h) <=> f = w
  BY DEF PaddedAlike, Tiled, MB32_420, MB32_422, MB32_444, RGBA
<1> HIDE DEF f
<1>5. h * w <= h * f /\ (h * w = h * f <=> w = f)
  BY <1>1, SameProduct
<1>6. 4 * w * h = 4 * (h * w) /\ 4 * f * h = 4 * (h * f)
  BY <1>1
<1>7. h * w \in Nat /\ h * f \in Nat
  BY <1>1
<1>8. 4 * w * h <= 4 * f * h /\ (4 * w * h = 4 * f * h <=> w = f)
  <2> DEFINE m == h * w
             n == h * f
  <2>1. m \in Nat /\ n \in Nat /\ m <= n /\ (m = n <=> w = f)
    BY <1>5, <1>7
  <2>2. 4 * w * h = 4 * m /\ 4 * f * h = 4 * n
    BY <1>6
  <2> HIDE DEF m, n
  <2>3. 4 * m <= 4 * n /\ (4 * m = 4 * n <=> m = n)
    BY <2>1
  <2> QED
    BY <2>1, <2>2, <2>3
<1> QED
  BY <1>2, <1>3, <1>4, <1>8

\* Both computations pad planes alike, a width or a height that is a number.
LEMMA PlanarCovered ==
    ASSUME NEW pic \in PictureKinds, pic.ePixelFormat \in Planar \ {NV12},
           NEW w \in Nat \ {0}, NEW h \in Nat \ {0}
    PROVE  LET layout == PlanarLayout(0, pic, w, h)
               sizes == GetBufferSize(pic.ePixelFormat, w, h, pic.align)
           IN  /\ sizes[2] = layout.chroma /\ sizes[1] <= layout.luma
               /\ sizes[1] = layout.luma <=> PaddedAlike(pic, w, h)
<1> DEFINE Y == Padded(pic, w, h)[1] * Padded(pic, w, h)[2]
<1>1. Y \in Nat
  BY PaddedIs
<1>2. /\ PlanarLayout(0, pic, w, h).luma = Y
      /\ PlanarLayout(0, pic, w, h).chroma = ChromaOf(pic.ePixelFormat, Y)
  BY DEF PlanarLayout
<1>3. GetBufferSize(pic.ePixelFormat, w, h, pic.align)
          = <<Y, ChromaOf(pic.ePixelFormat, Y)>>
  BY DEF GetBufferSize, Padded
<1>4. PaddedAlike(pic, w, h)
  BY DEF PaddedAlike, Planar, Tiled, PLANER_420, PLANER_422, PLANER_444,
         YV12, NV21, NV12, MB32_420, MB32_422, MB32_444, RGBA
<1> HIDE DEF Y
<1> QED
  BY <1>1, <1>2, <1>3, <1>4

\* GetBufferSize: for every size and alignment its sizes stay inside what
\* FbmAllocatePictureBuffer lays out, and are the same but where tiles and
\* lines of four bytes a pixel are padded otherwise.
THEOREM SizesStayCovered == SizesCovered
<1> SUFFICES ASSUME NEW pic \in PictureKinds, NEW size \in PictureSizes
             PROVE  LET layout == FbmAllocatePictureBuffer(0, pic, size[1],
                                                           size[2])
                        sizes == GetBufferSize(pic.ePixelFormat, size[1],
                                               size[2], pic.align)
                    IN  IF pic.ePixelFormat \in {NV12, P010_UV}
                        THEN sizes = NoSize
                        ELSE /\ sizes[2] = layout.chroma
                             /\ sizes[1] <= layout.luma
                             /\ sizes[1] = layout.luma <=>
                                    PaddedAlike(pic, size[1], size[2])
  BY DEF SizesCovered
<1>1. PICK w \in Nat \ {0} : w = size[1]
  BY PictureAssumption
<1>2. PICK h \in Nat \ {0} : h = size[2]
  BY PictureAssumption
<1>3. CASE pic.ePixelFormat \in {NV12, P010_UV}
  BY <1>3 DEF GetBufferSize, Planar, Tiled, PLANER_420, PLANER_422,
     PLANER_444, YV12, NV21, NV12, MB32_420, MB32_422, MB32_444, RGBA, P010_UV
<1>4. /\ NV12 \in Planar /\ NV12 \notin Tiled /\ NV12 # RGBA
      /\ P010_UV \notin Planar /\ P010_UV \notin Tiled /\ P010_UV # RGBA
  BY DEF Planar, Tiled, PLANER_420, PLANER_422, PLANER_444, YV12, NV21, NV12,
         MB32_420, MB32_422, MB32_444, RGBA, P010_UV
<1>5. CASE pic.ePixelFormat \in Planar \ {NV12}
  BY <1>1, <1>2, <1>4, <1>5, LayoutIs, PlanarCovered
<1>6. CASE pic.ePixelFormat \in Tiled
  BY <1>1, <1>2, <1>4, <1>6, LayoutIs, TiledCovered
<1>7. CASE pic.ePixelFormat = RGBA
  BY <1>1, <1>2, <1>4, <1>7, LayoutIs, OneBlockCovered
<1> QED
  BY <1>3, <1>5, <1>6, <1>7 DEF PictureKinds, Planar, Tiled

\* The lower two bits in a buffer of the window system: lines that are not
\* padded do not take more room, and a chroma plane is at least a quarter.
LEMMA LowerBitsAt ==
    ASSUME NEW pic \in PictureKinds, pic.ePixelFormat \in Planar,
           NEW w \in Nat \ {0}, NEW h \in Nat \ {0}
    PROVE  LET laid == PlanarLayout(0, pic, w, h).nLower2BitBufOffset
               gpu == GpuLower2BitOffset(pic, w, h)
           IN  /\ gpu <= laid
               /\ pic.afbc \/ (/\ pic.ePixelFormat
                                     \in {PLANER_420, YV12, NV21}
                               /\ pic.align # 0) => gpu = laid
<1> DEFINE a == IF pic.align = 0 THEN 1 ELSE pic.align
           Y == Padded(pic, w, h)[1] * Padded(pic, w, h)[2]
           C == ChromaOf(pic.ePixelFormat, Y)
           G == AlignUp(w, a) * AlignUp(h, a)
           A == AfbcSize(w, h, pic.b10Bit)
           B == AfbcSize(w, h, TRUE)
           fair == pic.ePixelFormat \in {PLANER_420, YV12, NV21}
           laid == PlanarLayout(0, pic, w, h).nLower2BitBufOffset
           gpu == GpuLower2BitOffset(pic, w, h)
<1>1. PICK k \in Nat : Y = 4 * k /\ AlignUp(w, 16) * AlignUp(h, 16) <= 4 * k
  BY PaddedIs
<1>2. pic.b10Bit \in BOOLEAN /\ pic.afbc \in BOOLEAN
  BY DEF PictureKinds
<1>3. C \in Nat /\ C >= k /\ (fair => C = k)
  <2>1. /\ Y \div 4 = k /\ Y \div 2 = 2 * k
    <3> HIDE DEF Y
    <3> QED
      BY <1>1
  <2>2. C \in {k, 2 * k, Y} /\ (fair => C = k)
    BY <2>1 DEF ChromaOf
  <2> HIDE DEF Y, C
  <2> QED
    BY <1>1, <2>2
<1>4. pic.align # 0 => G = Y
  BY DEF Padded
<1>5. G \in Nat /\ G <= Y
  <2>1. CASE pic.align # 0
    BY <1>1, <1>4, <2>1
  <2>2. CASE pic.align = 0
    <3>1. AlignUp(w, a) = w /\ AlignUp(h, a) = h
      BY <2>2 DEF AlignUp
    <3>2. PICK x \in Nat : x = AlignUp(w, 16) /\ w <= x
      BY DEF AlignUp
    <3>3. PICK y \in Nat : y = AlignUp(h, 16) /\ h <= y
      BY DEF AlignUp
    <3>4. w * h <= x * y
      BY <3>2, <3>3, Grow
    <3>5. Y = x * y
      BY <2>2, <3>2, <3>3 DEF Padded
    <3>6. w * h \in Nat
      OBVIOUS
    <3>7. G = w * h
      BY <3>1
    <3> HIDE DEF Y, G
    <3> QED
      BY <3>4, <3>5, <3>6, <3>7
  <2> QED
    BY <2>1, <2>2
<1>6. laid = IF pic.b10Bit THEN IF pic.afbc THEN A ELSE Y + 2 * C ELSE 0
  BY DEF PlanarLayout
<1>7. gpu = IF ~pic.b10Bit THEN 0
            ELSE IF pic.afbc THEN B ELSE (G * 3) \div 2
  BY DEF GpuLower2BitOffset
<1>8. pic.b10Bit => B = A /\ A \in Nat
  BY <1>2, AfbcIs
<1> HIDE DEF Y, C, G, A, B, fair, laid, gpu
<1>9. (G * 3) \div 2 <= Y + 2 * C
  BY <1>1, <1>3, <1>5
<1>10. fair /\ G = Y => (G * 3) \div 2 = Y + 2 * C
  BY <1>1, <1>3
<1>11. /\ gpu <= laid
       /\ pic.afbc \/ (fair /\ pic.align # 0) => gpu = laid
  <2>1. CASE ~pic.b10Bit
    BY <1>6, <1>7, <2>1
  <2>2. CASE pic.b10Bit /\ pic.afbc
    BY <1>6, <1>7, <1>8, <2>2
  <2>3. CASE pic.b10Bit /\ ~pic.afbc
    BY <1>4, <1>6, <1>7, <1>9, <1>10, <2>3
  <2> QED
    BY <1>2, <2>1, <2>2, <2>3
<1> QED
  BY <1>11 DEF fair, laid, gpu

\* FbmCreateBuffer: for every size and alignment it looks for the lower two
\* bits no further behind than FbmAllocatePictureBuffer puts them.
THEOREM LowerBitsStayCovered == LowerBitsCovered
<1> SUFFICES ASSUME NEW pic \in PictureKinds, pic.ePixelFormat \in Planar,
                    NEW size \in PictureSizes
             PROVE  LET laid == FbmAllocatePictureBuffer(0, pic, size[1],
                                                         size[2])
                                    .nLower2BitBufOffset
                        gpu == GpuLower2BitOffset(pic, size[1], size[2])
                    IN  /\ gpu <= laid
                        /\ pic.afbc \/ (/\ pic.ePixelFormat
                                              \in {PLANER_420, YV12, NV21}
                                        /\ pic.align # 0) => gpu = laid
  BY DEF LowerBitsCovered
<1>1. PICK w \in Nat \ {0} : w = size[1]
  BY PictureAssumption
<1>2. PICK h \in Nat \ {0} : h = size[2]
  BY PictureAssumption
<1> QED
  BY <1>1, <1>2, LayoutIs, LowerBitsAt

\* FbmFreePictureBuffer gives back the blocks of a picture, of P010 also the
\* address of the chroma inside the block; the blocks bear the frame's name.
LEMMA PictureFreed ==
    ASSUME NEW pic \in PictureKinds, NEW i \in Int, NEW w, NEW h
    PROVE  LET layout == FbmAllocatePictureBuffer(i, pic, w, h)
               L == FbmAllocatePictureBuffer(0, pic, w, h).luma
           IN  /\ FbmFreePictureBuffer(i, pic, layout)
                      = {<<b, 0>> : b \in Blocks(layout)}
                        \cup (IF pic.ePixelFormat # P010_UV THEN {}
                              ELSE {<<b, L>> : b \in Blocks(layout)})
               /\ \A b \in Blocks(layout) : b[1] = i
<1> DEFINE layout == FbmAllocatePictureBuffer(i, pic, w, h)
           mem == <<i, "mem">>
           memC == <<i, "memC">>
           meta == <<i, "meta">>
<1>1. mem # meta /\ memC # meta
  <2>1. mem[2] = "mem" /\ memC[2] = "memC" /\ meta[2] = "meta"
    OBVIOUS
  <2> QED
    BY <2>1
<1>2. \A b, o : <<b, o>> # NoPlane
  <2>1. \A b, o : Len(<<b, o>>) = 2 /\ Len(NoPlane) = 0
    BY DEF NoPlane
  <2> QED
    BY <2>1
<1>3. mem[1] = i /\ memC[1] = i /\ meta[1] = i
  OBVIOUS
<1> USE DEF PLANER_420, PLANER_422, PLANER_444, YV12, NV21, NV12, MB32_420,
        MB32_422, MB32_444, RGBA, P010_UV
<1>4. CASE pic.ePixelFormat \in Planar
  <2>1. PICK s, t : layout.blocks = <<<<mem, s>>, <<meta, t>>>>
    BY <1>4 DEF FbmAllocatePictureBuffer, PlanarLayout, Planar, Tiled
  <2>2. layout.pData0 = <<mem, 0>>
    BY <1>4 DEF FbmAllocatePictureBuffer, PlanarLayout, Planar, Tiled
  <2> HIDE DEF layout
  <2>3. Blocks(layout) = {mem, meta}
    <3>1. DOMAIN layout.blocks = {1, 2} /\ layout.blocks[1][1] = mem
          /\ layout.blocks[2][1] = meta
      BY <2>1
    <3> HIDE DEF mem, meta
    <3> QED
      BY <3>1 DEF Blocks
  <2>4. pic.ePixelFormat < MB32_420 /\ pic.ePixelFormat # P010_UV
    BY <1>4 DEF Planar
  <2>5. \A b \in Blocks(layout) : b[1] = i
    BY <1>3, <2>3
  <2> HIDE DEF mem
  <2>6. FbmFreePictureBuffer(i, pic, layout) = {<<mem, 0>>, <<meta, 0>>}
    BY <2>2, <2>3, <2>4 DEF FbmFreePictureBuffer
  <2> QED
    BY <2>3, <2>4, <2>6, <2>5 DEF layout
<1>5. CASE pic.ePixelFormat \in Tiled
  <2>1. PICK s, t : layout.blocks = <<<<mem, s>>, <<memC, t>>>>
    BY <1>5 DEF FbmAllocatePictureBuffer, TiledLayout, OtherLayout, Tiled,
       Planar
  <2>2. layout.pData0 = <<mem, 0>> /\ layout.pData1 = <<memC, 0>>
        /\ layout.pData2 = NoPlane
    BY <1>5 DEF FbmAllocatePictureBuffer, TiledLayout, OtherLayout, Tiled,
       Planar
  <2> HIDE DEF layout
  <2>3. Blocks(layout) = {mem, memC}
    <3>1. DOMAIN layout.blocks = {1, 2} /\ layout.blocks[1][1] = mem
          /\ layout.blocks[2][1] = memC
      BY <2>1
    <3> HIDE DEF mem, memC
    <3> QED
      BY <3>1 DEF Blocks
  <2>4. ~(pic.ePixelFormat < MB32_420) /\ pic.ePixelFormat # P010_UV
    BY <1>5 DEF Tiled
  <2>5. \A b \in Blocks(layout) : b[1] = i
    BY <1>3, <2>3
  <2> HIDE DEF mem, memC
  <2>6. FbmFreePictureBuffer(i, pic, layout) = {<<mem, 0>>, <<memC, 0>>}
    BY <1>1, <1>2, <2>2, <2>3, <2>4 DEF FbmFreePictureBuffer
  <2> QED
    BY <2>3, <2>4, <2>6, <2>5 DEF layout
<1>6. CASE pic.ePixelFormat \in {RGBA, P010_UV}
  <2> DEFINE L == FbmAllocatePictureBuffer(0, pic, w, h).luma
             more == IF pic.ePixelFormat # P010_UV THEN {} ELSE {<<mem, L>>}
  <2>1. PICK s : layout.blocks = <<<<mem, s>>>>
    BY <1>6 DEF FbmAllocatePictureBuffer, OneBlock, P010Layout, OtherLayout,
       Tiled, Planar
  <2>2. layout.pData0 = <<mem, 0>> /\ layout.pData2 = NoPlane
    BY <1>6 DEF FbmAllocatePictureBuffer, OneBlock, P010Layout, OtherLayout,
       Tiled, Planar
  <2>3. layout.pData1 = IF pic.ePixelFormat # P010_UV THEN NoPlane
                        ELSE <<mem, L>>
    <3>1. CASE pic.ePixelFormat = RGBA
      BY <3>1 DEF FbmAllocatePictureBuffer, OneBlock, OtherLayout, Tiled,
         Planar
    <3>2. CASE pic.ePixelFormat = P010_UV
      <4> DEFINE Y == Padded(pic, w, h)[1] * Padded(pic, w, h)[2] * 2
      <4>1. layout = P010Layout(i, pic, w, h)
            /\ L = P010Layout(0, pic, w, h).luma
        BY <3>2, LayoutIs
      <4> HIDE DEF layout, L
      <4>2. P010Layout(i, pic, w, h).pData1 = <<mem, Y>>
            /\ P010Layout(0, pic, w, h).luma = Y
        BY DEF P010Layout, OtherLayout
      <4> QED
        BY <3>2, <4>1, <4>2
    <3> QED
      BY <1>6, <3>1, <3>2
  <2> HIDE DEF layout
  <2>4. Blocks(layout) = {mem}
    <3>1. DOMAIN layout.blocks = {1} /\ layout.blocks[1][1] = mem
      BY <2>1
    <3> HIDE DEF mem
    <3> QED
      BY <3>1 DEF Blocks
  <2>5. ~(pic.ePixelFormat < MB32_420)
    BY <1>6
  <2>6. \A b \in Blocks(layout) : b[1] = i
    BY <1>3, <2>4
  <2> HIDE DEF mem, L
  <2>7. FbmFreePictureBuffer(i, pic, layout) = {<<mem, 0>>} \cup more
    BY <1>1, <1>2, <2>2, <2>4, <2>5, <2>3 DEF FbmFreePictureBuffer
  <2> QED
    BY <2>4, <2>7, <2>6 DEF layout, L
<1> QED
  BY <1>4, <1>5, <1>6 DEF PictureKinds, Planar, Tiled

\* A pool gives back what it took, whatever is not allocated, but for the
\* luma that is left behind when it is the metadata.
LEMMA PoolFreed ==
    ASSUME NEW n \in Nat, NEW w, NEW h, NEW bThumbnailMode, NEW fails,
           NEW pic \in PictureKinds,
           fails[1] \in Int, fails[2] = "meta" => fails[1] >= 0
    PROVE  LET pool == PoolMemory(n, pic, w, h, bThumbnailMode, fails)
               kept == pool.taken \ Lost(fails)
               L == FbmAllocatePictureBuffer(0, pic, w, h).luma
           IN  pool.freed = {<<block, 0>> : block \in kept}
                   \cup (IF pic.ePixelFormat # P010_UV THEN {}
                         ELSE {<<block, L>> : block \in kept})
<1> DEFINE done == Allocated(n, bThumbnailMode, fails)
           layout(i) == FbmAllocatePictureBuffer(i, pic, w, h)
           laid == UNION {Blocks(layout(i)) : i \in done}
           freed == UNION {FbmFreePictureBuffer(i, pic, layout(i))
                               : i \in done}
           L == FbmAllocatePictureBuffer(0, pic, w, h).luma
<1>1. PoolMemory(n, pic, w, h, bThumbnailMode, fails)
          = [taken |-> LeftBehind(fails) \cup laid, freed |-> freed]
  BY Zenon DEF PoolMemory
<1>3. \A i \in done : i \in Int /\ (fails[1] >= 0 => i # fails[1])
  <2> DEFINE mine == IF bThumbnailMode THEN {0} ELSE 0 .. n - 1
  <2>1. mine \subseteq Int
    OBVIOUS
  <2>2. done = {i \in mine : fails[1] < 0 \/ i < fails[1]}
    BY DEF Allocated
  <2> HIDE DEF mine, done
  <2> QED
    BY <2>1, <2>2
<1>4. LeftBehind(fails) = Lost(fails)
  BY DEF LeftBehind, Lost
<1>5. \A i \in done :
          /\ FbmFreePictureBuffer(i, pic, layout(i))
                 = {<<b, 0>> : b \in Blocks(layout(i))}
                   \cup (IF pic.ePixelFormat # P010_UV THEN {}
                         ELSE {<<b, L>> : b \in Blocks(layout(i))})
          /\ \A b \in Blocks(layout(i)) : b[1] = i
  BY <1>3, PictureFreed
<1> HIDE DEF done, layout, L
<1>6. freed = {<<b, 0>> : b \in laid}
                  \cup (IF pic.ePixelFormat # P010_UV THEN {}
                        ELSE {<<b, L>> : b \in laid})
  <2>1. CASE pic.ePixelFormat # P010_UV
    BY <1>5, <2>1
  <2>2. CASE pic.ePixelFormat = P010_UV
    BY <1>5, <2>2
  <2> QED
    BY <2>1, <2>2
<1>7. (LeftBehind(fails) \cup laid) \ Lost(fails) = laid
  <2>1. \A b \in laid : b \notin Lost(fails)
    <3> SUFFICES ASSUME NEW b \in laid, b \in Lost(fails)
                 PROVE  FALSE
      OBVIOUS
    <3>1. fails[2] = "meta" /\ b = <<fails[1], "mem">>
      BY DEF Lost
    <3>2. b[1] = fails[1] /\ fails[1] >= 0
      BY <3>1
    <3>3. PICK i \in done : b \in Blocks(layout(i))
      OBVIOUS
    <3> QED
      BY <1>3, <1>5, <3>2, <3>3
  <2> QED
    BY <1>4, <2>1
<1> HIDE DEF laid, freed
<1>8. /\ PoolMemory(n, pic, w, h, bThumbnailMode, fails).freed = freed
      /\ PoolMemory(n, pic, w, h, bThumbnailMode, fails).taken
             = LeftBehind(fails) \cup laid
  BY <1>1
<1> QED
  BY <1>6, <1>7, <1>8 DEF L

\* The pair that stands for no failure.
LEMMA NoFailure ==
    ASSUME NEW fails, fails = <<-1, "">>
    PROVE  fails[1] = -1 /\ fails[2] # "meta"
OBVIOUS

\* A pair that stands for the failure of a block.
LEMMA SomeFailure ==
    ASSUME NEW m, NEW names, NEW fails \in (0 .. m) \X names
    PROVE  fails[1] \in Int /\ fails[1] >= 0
<1>1. fails[1] \in 0 .. m
  OBVIOUS
<1> QED
  BY <1>1

\* A frame and a block that cannot be allocated, or none.
LEMMA FailureIs ==
    \A m, names : \A fails \in {<<-1, "">>} \cup ((0 .. m) \X names) :
        fails[1] \in Int /\ (fails[2] = "meta" => fails[1] >= 0)
<1> DEFINE Good(fails) ==
               fails[1] \in Int /\ (fails[2] = "meta" => fails[1] >= 0)
<1>1. \A fails : fails = <<-1, "">> => Good(fails)
  <2>1. \A fails : fails = <<-1, "">> =>
            fails[1] = -1 /\ fails[2] # "meta"
    BY NoFailure, Zenon
  <2>2. \A k : k = -1 => k \in Int
    OBVIOUS
  <2> QED
    BY <2>1, <2>2, Zenon
<1>2. \A m, names : \A fails \in (0 .. m) \X names : Good(fails)
  BY SomeFailure
<1> HIDE DEF Good
<1>3. \A m, names : \A fails \in {<<-1, "">>} \cup ((0 .. m) \X names) :
          Good(fails)
  BY <1>1, <1>2, Zenon
<1> QED
  BY <1>3, Zenon DEF Good

\* FbmCreateBuffer and FbmDestroy: for every number of frames, every format
\* and every block that cannot be allocated, what was taken is freed, but for
\* the luma of the picture whose metadata fails; and nothing else is, but for
\* the address of the chroma inside the block of P010.
THEOREM MemoryStaysFreed == MemoryFreed
<1> DEFINE Failures(n, bThumbnailMode, names) ==
               {<<-1, "">>} \cup ((0 .. (IF bThumbnailMode THEN 0 ELSE n - 1))
                                 \X names)
<1>1. \A n, bThumbnailMode, names :
          \A fails \in Failures(n, bThumbnailMode, names) :
              fails[1] \in Int /\ (fails[2] = "meta" => fails[1] >= 0)
  BY FailureIs, Zenon
<1>2. \A n \in PoolSizes : n \in Nat
  BY PictureAssumption
<1> SUFFICES \A n \in PoolSizes, size \in PictureSizes,
                bThumbnailMode \in BOOLEAN :
             \A pic \in PictureKinds :
                 LET layout == FbmAllocatePictureBuffer(0, pic, size[1],
                                                        size[2])
                 IN  \A fails \in
                         Failures(n, bThumbnailMode,
                                  {block[2] : block \in Blocks(layout)}) :
                     LET pool == PoolMemory(n, pic, size[1], size[2],
                                            bThumbnailMode, fails)
                         kept == pool.taken \ Lost(fails)
                     IN  pool.freed =
                             {<<block, 0>> : block \in kept}
                             \cup (IF pic.ePixelFormat # P010_UV THEN {}
                                   ELSE {<<block, layout.luma>> :
                                             block \in kept})
  BY Zenon DEF MemoryFreed
<1> HIDE DEF Failures
<1> QED
  BY <1>1, <1>2, PoolFreed

\* The memory of the pictures, for every size, alignment and number of frames.
THEOREM PicturesStayLaid == Spec => []PicturesLaid
<1>1. PicturesLaid
  BY PlanesStayApart, SizesStayCovered, LowerBitsStayCovered, MemoryStaysFreed
     DEF PicturesLaid
<1> QED
  BY <1>1, PTL
=============================================================================
