------------------------- MODULE VideoEngineProofs -------------------------
(***************************************************************************)
(* What the decoders of a process share, for any number of them in any     *)
(* mixture of formats: a decoder has its engine to itself while it is in   *)
(* it (EngineMine), the shared counts are exact (CountsExact) and memory   *)
(* is there while it is used (MemoryThere), whatever the threads do in     *)
(* which order and whichever operation fails.                              *)
(*                                                                         *)
(* The inductive invariant says what a thread holds at each of its points. *)
(* A step of one thread leaves what the others hold alone; what they share *)
(* are the locks, the counts and the allocator's list.                     *)
(***************************************************************************)
EXTENDS VideoEngine, FiniteSetTheorems, TLAPS

-----------------------------------------------------------------------------
(* The inductive invariant. *)

\* A thread holds a lock exactly at the points between its lock and unlock.
LocksHeld ==
    \A d \in Decoders :
        /\ lock[DecLock(d)] = d <=> pc[d] \in Section
        /\ lock["vdec"] = d => Format[d] # "VP9"
        /\ lock["VP9"] = d => Format[d] = "VP9"
        /\ lock["Ve"] = d <=> pc[d] = "veFreq"
        /\ pc[d] \in {"memRelease", "ionOpen"} => lock["alloc"] = d
        /\ lock["alloc"] = d =>
               pc[d] \in {"veInit", "veFreq", "veFail", "memRelease",
                          "ionOpen"}

\* The mode stays a decoder's own while it has lock_vdec.
ModeKept ==
    \A d \in Decoders :
        pc[d] \in Section /\ Format[d] # "VP9" => mode = Format[d]

\* The points before VideoEngineCreate has made the codec, and those between
\* the return of VideoEngineCreate and VideoEngineDestroy.
Opening == {"none", "created", "veInit", "veFreq", "veFail", "memRelease",
            "ionOpen", "vp9Release", "vp9Init"}
Making == {"engCreate", "init", "initDone", "initBad", "releaseBad"}
Working == {"sbmInit", "sbmReady", "setSbm", "ready", "decode", "hw", "reset",
            "reopenFree", "reopenInit", "reopenDone", "reopenBad", "dangling"}
Ending == {"destroy", "destroySbm", "destroyDone", "release"}

Own(d) == IF Format[d] = "VP9" THEN "vp9" ELSE "normal"

\* The VE context a thread holds at each point.
ContextAt(d) ==
    /\ pc[d] \in {"none", "created", "veInit", "veFreq", "ionOpen", "vp9Init",
                  "memClose"} => ve[d] = "none"
    /\ pc[d] \in {"memRelease", "vp9Release"} => ve[d] = "normal"
    /\ pc[d] \in {"vp9Release", "vp9Init"} => Format[d] = "VP9"
    /\ pc[d] = "veFail" => ve[d] \in {"none", "vp9"}
    /\ pc[d] \in Making \cup Working \cup Ending => ve[d] = Own(d)
    /\ pc[d] = "failed" => ve[d] = IF engine[d] THEN Own(d) ELSE "none"

\* Whether it has an engine and memops, and what its codec's interface is.
EngineAt(d) ==
    /\ pc[d] \in Opening \cup Making \cup {"memClose"} => ~engine[d]
    /\ pc[d] \in Working \cup Ending => engine[d]
    /\ pc[d] \in {"veInit", "veFreq", "veFail", "memRelease", "ionOpen",
                  "vp9Release", "vp9Init", "failed", "memClose"}
                 \cup Making \cup Working \cup Ending => memops[d]
    /\ pc[d] \in ({"init", "initDone", "destroy"} \cup Working)
                 \ {"reopenBad", "dangling"} => decoder[d] = "live"
    /\ pc[d] = "failed" /\ engine[d] => decoder[d] = "live"

\* The points at which a thread has no block but what h265_drv.c has lost.
Bare == Opening \cup {"engCreate", "init", "initBad", "releaseBad",
                      "destroyDone", "release", "memClose"}

BlocksAt(d) ==
    /\ pc[d] \in Bare => Has(d) \subseteq {"lost"}
    /\ pc[d] = "failed" /\ ~engine[d] => Has(d) \subseteq {"lost"}
    /\ pc[d] = "destroySbm" => Has(d) \subseteq {"lost", "sbm"}

\* The points at which the display may know a pool, and those of them at
\* which nothing has destroyed it.
Pooled == {"ready", "decode", "hw", "reset", "reopenFree"}

PoolAt(d) ==
    /\ pc[d] \in Points \ (Pooled \cup {"reopenInit", "reopenDone",
                                        "reopenBad", "dangling", "destroy",
                                        "crashed"}) => pFbm[d] = "null"
    /\ pc[d] = "reopenBad" => fault = "reopenInit"
    /\ pc[d] \in Pooled /\ pFbm[d] # "null" /\ fault # "reopenInit" =>
           /\ pFbm[d] = "live"
           /\ ~OpenFailed => "frames" \in Has(d)

\* Unless an open has failed: who has the allocator open.
OpenedAt(d) ==
    /\ pc[d] \in {"none", "created", "memRelease", "ionOpen"} => ~opened[d]
    /\ pc[d] \in {"veInit", "veFreq"} => (opened[d] <=> lock["alloc"] # d)
    /\ pc[d] \in {"vp9Release", "vp9Init", "failed", "memClose"}
                 \cup Making \cup Working \cup Ending => opened[d]
    /\ pc[d] \notin {"veFail", "crashed"}

\* ... and the allocator's context.
ContextThere ==
    /\ context <=> (ref_cnt > 0 \/ lock["alloc"] # NoOne)
    /\ lock["alloc"] # NoOne => ref_cnt = 0

AllocatorSound ==
    ~OpenFailed =>
        /\ ReferenceCount /\ ContextThere
        /\ \A d \in Decoders : OpenedAt(d)

PointsInv ==
    \A d \in Decoders : ContextAt(d) /\ EngineAt(d) /\ BlocksAt(d) /\ PoolAt(d)

IInv ==
    /\ TypeOK
    /\ LocksHeld /\ ModeKept
    /\ ContextsCounted
    /\ PointsInv
    /\ AllocatorSound

-----------------------------------------------------------------------------
(* What a step leaves alone, and the types. *)

\* A step of one thread leaves alone what the others hold (every operation of
\* vdecoder.c works on its own VideoDecoderContext).
LEMMA StepOthers ==
    ASSUME TypeOK, NEW d \in Decoders, Thread(d), NEW e \in Decoders, e # d
    PROVE  /\ pc'[e] = pc[e] /\ ve'[e] = ve[e] /\ engine'[e] = engine[e]
           /\ memops'[e] = memops[e] /\ opened'[e] = opened[e]
           /\ decoder'[e] = decoder[e] /\ pFbm'[e] = pFbm[e]
<1> USE DEF TypeOK, At, Goto, Free, Take, Drop, Fault, InMemOpen, DecLock,
     EnableVe, DisableVe, Call, Palloc, Pfree, InitFails, VeRelease,
     Vp9Release, veVars, vp9Vars, memVars, decVars
<1>1. CASE CreateVideoDecoder(d)  BY <1>1 DEF CreateVideoDecoder
<1>2. CASE MemOpen(d)  BY <1>2 DEF MemOpen
<1>3. CASE VeInitialize(d)  BY <1>3 DEF VeInitialize
<1>4. CASE VeSetSpeed(d)  BY <1>4 DEF VeSetSpeed
<1>5. CASE VeInitFailed(d)  BY <1>5 DEF VeInitFailed
<1>6. CASE MemOpenRelease(d)  BY <1>6 DEF MemOpenRelease
<1>7. CASE IonOpen(d)  BY <1>7 DEF IonOpen
<1>8. CASE Vp9Swap(d)  BY <1>8 DEF Vp9Swap
<1>9. CASE Vp9Initialize(d)  BY <1>9 DEF Vp9Initialize
<1>10. CASE EngineCreate(d)  BY <1>10 DEF EngineCreate
<1>11. CASE CodecInit(d)  BY <1>11 DEF CodecInit
<1>12. CASE EngineCreated(d)  BY <1>12 DEF EngineCreated
<1>13. CASE EngineRelease(d)  BY <1>13 DEF EngineRelease
<1>14. CASE SbmInit(d)  BY <1>14 DEF SbmInit
<1>15. CASE SetSbm(d)  BY <1>15 DEF SetSbm
<1>16. CASE StartCall(d)  BY <1>16 DEF StartCall
<1>17. CASE DecodeToHardware(d)  BY <1>17 DEF DecodeToHardware
<1>18. CASE DecodeDone(d)  BY <1>18 DEF DecodeDone
<1>19. CASE GetFbm(d)  BY <1>19 DEF GetFbm
<1>20. CASE ReopenFree(d)  BY <1>20 DEF ReopenFree
<1>21. CASE ReopenInit(d)  BY <1>21 DEF ReopenInit
<1>22. CASE Reopened(d)  BY <1>22 DEF Reopened
<1>23. CASE DestroyVideoDecoder(d)  BY <1>23 DEF DestroyVideoDecoder
<1>24. CASE DestroyCodec(d)  BY <1>24 DEF DestroyCodec
<1>25. CASE DestroySbm(d)  BY <1>25 DEF DestroySbm
<1>26. CASE DestroyDone(d)  BY <1>26 DEF DestroyDone
<1>27. CASE MemClose(d)  BY <1>27 DEF MemClose
<1> QED
  BY <1>1, <1>2, <1>3, <1>4, <1>5, <1>6, <1>7, <1>8, <1>9, <1>10, <1>11,
       <1>12, <1>13, <1>14, <1>15, <1>16, <1>17, <1>18, <1>19, <1>20, <1>21,
       <1>22, <1>23, <1>24, <1>25, <1>26, <1>27 DEF Thread, Continue,
       Initialize, Work, Destroy

\* Every step keeps the types: of the threads and locks,
LEMMA StepThreadTypes ==
    ASSUME TypeOK, NEW d \in Decoders, Thread(d)
    PROVE  /\ pc' \in [Decoders -> Points] /\ calls' \in [Decoders -> Nat]
           /\ lock' \in [Locks -> Decoders \cup {NoOne}]
           /\ fault' \in Faults \cup {"none"}
           /\ mode' \in Codecs \cup {"off"}
<1> USE FormatAssumption DEF TypeOK, Points, Section, Codecs, Locks, At, Goto,
     Free, Take, Drop, Fault, InMemOpen, DecLock, EnableVe, DisableVe, Call,
     Palloc, Pfree, InitFails, VeRelease, Vp9Release, veVars, vp9Vars,
     memVars, decVars
<1>1. CASE CreateVideoDecoder(d)  BY <1>1 DEF CreateVideoDecoder
<1>2. CASE MemOpen(d)  BY <1>2 DEF MemOpen
<1>3. CASE VeInitialize(d)  BY <1>3 DEF VeInitialize
<1>4. CASE VeSetSpeed(d)  BY <1>4 DEF VeSetSpeed
<1>5. CASE VeInitFailed(d)  BY <1>5 DEF VeInitFailed
<1>6. CASE MemOpenRelease(d)  BY <1>6 DEF MemOpenRelease
<1>7. CASE IonOpen(d)  BY <1>7 DEF IonOpen
<1>8. CASE Vp9Swap(d)  BY <1>8 DEF Vp9Swap
<1>9. CASE Vp9Initialize(d)  BY <1>9 DEF Vp9Initialize
<1>10. CASE EngineCreate(d)  BY <1>10 DEF EngineCreate
<1>11. CASE CodecInit(d)  BY <1>11 DEF CodecInit
<1>12. CASE EngineCreated(d)  BY <1>12 DEF EngineCreated
<1>13. CASE EngineRelease(d)  BY <1>13 DEF EngineRelease
<1>14. CASE SbmInit(d)  BY <1>14 DEF SbmInit
<1>15. CASE SetSbm(d)  BY <1>15 DEF SetSbm
<1>16. CASE StartCall(d)  BY <1>16 DEF StartCall
<1>17. CASE DecodeToHardware(d)  BY <1>17 DEF DecodeToHardware
<1>18. CASE DecodeDone(d)  BY <1>18 DEF DecodeDone
<1>19. CASE GetFbm(d)  BY <1>19 DEF GetFbm
<1>20. CASE ReopenFree(d)  BY <1>20 DEF ReopenFree
<1>21. CASE ReopenInit(d)  BY <1>21 DEF ReopenInit
<1>22. CASE Reopened(d)  BY <1>22 DEF Reopened
<1>23. CASE DestroyVideoDecoder(d)  BY <1>23 DEF DestroyVideoDecoder
<1>24. CASE DestroyCodec(d)  BY <1>24 DEF DestroyCodec
<1>25. CASE DestroySbm(d)  BY <1>25 DEF DestroySbm
<1>26. CASE DestroyDone(d)  BY <1>26 DEF DestroyDone
<1>27. CASE MemClose(d)  BY <1>27 DEF MemClose
<1> QED
  BY <1>1, <1>2, <1>3, <1>4, <1>5, <1>6, <1>7, <1>8, <1>9, <1>10, <1>11,
       <1>12, <1>13, <1>14, <1>15, <1>16, <1>17, <1>18, <1>19, <1>20, <1>21,
       <1>22, <1>23, <1>24, <1>25, <1>26, <1>27 DEF Thread, Continue,
       Initialize, Work, Destroy

\* of the counts, which are lowered only from above zero,
LEMMA StepCounts ==
    ASSUME TypeOK, NEW d \in Decoders, Thread(d)
    PROVE  nVeRefCount' \in Nat /\ gVP9RefCount' \in Nat /\ ref_cnt' \in Nat
<1> USE DEF TypeOK, At, Goto, Free, Take, Drop, Fault, InMemOpen, DecLock,
     EnableVe, DisableVe, Call, Palloc, Pfree, InitFails, VeRelease,
     Vp9Release, veVars, vp9Vars, memVars, decVars
<1>1. CASE MemOpen(d)  BY <1>1 DEF MemOpen
<1>2. CASE VeInitialize(d)  BY <1>2 DEF VeInitialize
<1>3. CASE VeSetSpeed(d)  BY <1>3 DEF VeSetSpeed
<1>4. CASE VeInitFailed(d)  BY <1>4 DEF VeInitFailed
<1>5. CASE MemOpenRelease(d)  BY <1>5 DEF MemOpenRelease
<1>6. CASE IonOpen(d)  BY <1>6 DEF IonOpen
<1>7. CASE Vp9Swap(d)  BY <1>7 DEF Vp9Swap
<1>8. CASE Vp9Initialize(d)  BY <1>8 DEF Vp9Initialize
<1>9. CASE EngineRelease(d)  BY <1>9 DEF EngineRelease
<1>10. CASE MemClose(d)  BY <1>10 DEF MemClose
<1> QED
  BY <1>1, <1>2, <1>3, <1>4, <1>5, <1>6, <1>7, <1>8, <1>9, <1>10 DEF Thread,
       Continue, Initialize, Work, Destroy, CreateVideoDecoder, EngineCreate,
       CodecInit, EngineCreated, SbmInit, SetSbm, StartCall, DecodeToHardware,
       DecodeDone, GetFbm, ReopenFree, ReopenInit, Reopened,
       DestroyVideoDecoder, DestroyCodec, DestroySbm, DestroyDone

\* of the drivers,
LEMMA StepDriverTypes ==
    ASSUME TypeOK, NEW d \in Decoders, Thread(d)
    PROVE  /\ veFd' \in BOOLEAN /\ vp9Fd' \in BOOLEAN
           /\ ve' \in [Decoders -> {"none", "normal", "vp9"}]
<1> USE DEF TypeOK, At, Goto, Free, Take, Drop, Fault, InMemOpen, DecLock,
     EnableVe, DisableVe, Call, Palloc, Pfree, InitFails, VeRelease,
     Vp9Release, veVars, vp9Vars, memVars, decVars
<1>1. CASE VeInitialize(d)  BY <1>1 DEF VeInitialize
<1>2. CASE VeSetSpeed(d)  BY <1>2 DEF VeSetSpeed
<1>3. CASE VeInitFailed(d)  BY <1>3 DEF VeInitFailed
<1>4. CASE MemOpenRelease(d)  BY <1>4 DEF MemOpenRelease
<1>5. CASE Vp9Swap(d)  BY <1>5 DEF Vp9Swap
<1>6. CASE Vp9Initialize(d)  BY <1>6 DEF Vp9Initialize
<1>7. CASE EngineRelease(d)  BY <1>7 DEF EngineRelease
<1> QED
  BY <1>1, <1>2, <1>3, <1>4, <1>5, <1>6, <1>7 DEF Thread, Continue,
       Initialize, Work, Destroy, CreateVideoDecoder, MemOpen, IonOpen,
       EngineCreate, CodecInit, EngineCreated, SbmInit, SetSbm, StartCall,
       DecodeToHardware, DecodeDone, GetFbm, ReopenFree, ReopenInit, Reopened,
       DestroyVideoDecoder, DestroyCodec, DestroySbm, DestroyDone, MemClose

\* of the allocator,
LEMMA StepMemoryTypes ==
    ASSUME TypeOK, NEW d \in Decoders, Thread(d)
    PROVE  /\ context' \in BOOLEAN /\ opened' \in [Decoders -> BOOLEAN]
           /\ list' \subseteq Decoders \X Blocks
<1> USE DEF TypeOK, Blocks, At, Goto, Free, Take, Drop, Fault, InMemOpen,
     DecLock, EnableVe, DisableVe, Call, Palloc, Pfree, InitFails, VeRelease,
     Vp9Release, veVars, vp9Vars, memVars, decVars
<1>1. CASE MemOpen(d)  BY <1>1 DEF MemOpen
<1>2. CASE VeInitFailed(d)  BY <1>2 DEF VeInitFailed
<1>3. CASE IonOpen(d)  BY <1>3 DEF IonOpen
<1>4. CASE CodecInit(d)  BY <1>4 DEF CodecInit
<1>5. CASE SbmInit(d)  BY <1>5 DEF SbmInit
<1>6. CASE DecodeToHardware(d)  BY <1>6 DEF DecodeToHardware
<1>7. CASE ReopenFree(d)  BY <1>7 DEF ReopenFree
<1>8. CASE ReopenInit(d)  BY <1>8 DEF ReopenInit
<1>9. CASE DestroyCodec(d)  BY <1>9 DEF DestroyCodec
<1>10. CASE DestroySbm(d)  BY <1>10 DEF DestroySbm
<1>11. CASE MemClose(d)
  <2>1. opened' \in [Decoders -> BOOLEAN]  BY <1>11 DEF MemClose
  <2>2. context' \in BOOLEAN
    <3>1. context' = (ref_cnt > 1) \/ context' = context
      BY <1>11, Zenon DEF MemClose
    <3>2. (ref_cnt > 1) \in BOOLEAN
      OBVIOUS
    <3> QED  BY <3>1, <3>2, Zenon
  <2>3. list' \subseteq Decoders \X Blocks  BY <1>11 DEF MemClose
  <2> QED  BY <2>1, <2>2, <2>3
<1> QED
  BY <1>1, <1>2, <1>3, <1>4, <1>5, <1>6, <1>7, <1>8, <1>9, <1>10, <1>11 DEF
       Thread, Continue, Initialize, Work, Destroy, CreateVideoDecoder,
       VeInitialize, VeSetSpeed, MemOpenRelease, Vp9Swap, Vp9Initialize,
       EngineCreate, EngineCreated, EngineRelease, SetSbm, StartCall,
       DecodeDone, GetFbm, Reopened, DestroyVideoDecoder, DestroyDone

\* and of what a decoder holds.
LEMMA StepCodecTypes ==
    ASSUME TypeOK, NEW d \in Decoders, Thread(d)
    PROVE  /\ memops' \in [Decoders -> BOOLEAN]
           /\ engine' \in [Decoders -> BOOLEAN]
           /\ decoder' \in [Decoders -> {"none", "live", "freed"}]
           /\ pFbm' \in [Decoders -> {"null", "live", "stale"}]
<1> USE DEF TypeOK, At, Goto, Free, Take, Drop, Fault, InMemOpen, DecLock,
     EnableVe, DisableVe, Call, Palloc, Pfree, InitFails, VeRelease,
     Vp9Release, veVars, vp9Vars, memVars, decVars
<1>1. CASE MemOpen(d)  BY <1>1 DEF MemOpen
<1>2. CASE EngineCreate(d)  BY <1>2 DEF EngineCreate
<1>3. CASE CodecInit(d)  BY <1>3 DEF CodecInit
<1>4. CASE EngineCreated(d)  BY <1>4 DEF EngineCreated
<1>5. CASE EngineRelease(d)  BY <1>5 DEF EngineRelease
<1>6. CASE GetFbm(d)  BY <1>6 DEF GetFbm
<1>7. CASE ReopenFree(d)  BY <1>7 DEF ReopenFree
<1>8. CASE ReopenInit(d)  BY <1>8 DEF ReopenInit
<1>9. CASE Reopened(d)  BY <1>9 DEF Reopened
<1>10. CASE DestroyCodec(d)  BY <1>10 DEF DestroyCodec
<1>11. CASE MemClose(d)  BY <1>11 DEF MemClose
<1> QED
  BY <1>1, <1>2, <1>3, <1>4, <1>5, <1>6, <1>7, <1>8, <1>9, <1>10, <1>11 DEF
       Thread, Continue, Initialize, Work, Destroy, CreateVideoDecoder,
       VeInitialize, VeSetSpeed, VeInitFailed, MemOpenRelease, IonOpen,
       Vp9Swap, Vp9Initialize, SbmInit, SetSbm, StartCall, DecodeToHardware,
       DecodeDone, DestroyVideoDecoder, DestroySbm, DestroyDone

\* A step keeps every variable in its type.
LEMMA StepTypes == ASSUME TypeOK, NEW d \in Decoders, Thread(d) PROVE TypeOK'
BY StepThreadTypes, StepCounts, StepDriverTypes, StepMemoryTypes,
   StepCodecTypes DEF TypeOK

-----------------------------------------------------------------------------
(* What the thread that steps holds afterwards. *)

\* The VE context of the thread that steps (VeInitialize, VeRelease,
\* Vp9Initialize and Vp9Release in CdcMemOpen, VideoEngineCreate and
\* VideoEngineDestroy).
LEMMA StepContext ==
    ASSUME TypeOK, LocksHeld, NEW d \in Decoders, ContextAt(d), EngineAt(d),
           Thread(d)
    PROVE  ContextAt(d)'
<1> USE FormatAssumption DEF TypeOK, LocksHeld, ContextAt, EngineAt, Own,
     Opening, Making, Working, Ending, Section, At, Goto, Free, Take, Drop,
     Fault, InMemOpen, DecLock, EnableVe, DisableVe, Call, Palloc, Pfree,
     InitFails, VeRelease, Vp9Release, veVars, vp9Vars, memVars, decVars
<1>1. CASE CreateVideoDecoder(d)  BY <1>1 DEF CreateVideoDecoder
<1>2. CASE MemOpen(d)  BY <1>2 DEF MemOpen
<1>3. CASE VeInitialize(d)  BY <1>3 DEF VeInitialize
<1>4. CASE VeSetSpeed(d)  BY <1>4 DEF VeSetSpeed
<1>5. CASE VeInitFailed(d)  BY <1>5 DEF VeInitFailed
<1>6. CASE MemOpenRelease(d)  BY <1>6 DEF MemOpenRelease
<1>7. CASE IonOpen(d)  BY <1>7 DEF IonOpen
<1>8. CASE Vp9Swap(d)  BY <1>8 DEF Vp9Swap
<1>9. CASE Vp9Initialize(d)  BY <1>9 DEF Vp9Initialize
<1>10. CASE EngineCreate(d)  BY <1>10 DEF EngineCreate
<1>11. CASE CodecInit(d)  BY <1>11 DEF CodecInit
<1>12. CASE EngineCreated(d)  BY <1>12 DEF EngineCreated
<1>13. CASE EngineRelease(d)  BY <1>13 DEF EngineRelease
<1>14. CASE SbmInit(d)  BY <1>14 DEF SbmInit
<1>15. CASE SetSbm(d)  BY <1>15 DEF SetSbm
<1>16. CASE StartCall(d)  BY <1>16 DEF StartCall
<1>17. CASE DecodeToHardware(d)  BY <1>17 DEF DecodeToHardware
<1>18. CASE DecodeDone(d)  BY <1>18 DEF DecodeDone
<1>19. CASE GetFbm(d)  BY <1>19 DEF GetFbm
<1>20. CASE ReopenFree(d)  BY <1>20 DEF ReopenFree
<1>21. CASE ReopenInit(d)  BY <1>21 DEF ReopenInit
<1>22. CASE Reopened(d)  BY <1>22 DEF Reopened
<1>23. CASE DestroyVideoDecoder(d)  BY <1>23 DEF DestroyVideoDecoder
<1>24. CASE DestroyCodec(d)  BY <1>24 DEF DestroyCodec
<1>25. CASE DestroySbm(d)  BY <1>25 DEF DestroySbm
<1>26. CASE DestroyDone(d)  BY <1>26 DEF DestroyDone
<1>27. CASE MemClose(d)  BY <1>27 DEF MemClose
<1> QED
  BY <1>1, <1>2, <1>3, <1>4, <1>5, <1>6, <1>7, <1>8, <1>9, <1>10, <1>11,
       <1>12, <1>13, <1>14, <1>15, <1>16, <1>17, <1>18, <1>19, <1>20, <1>21,
       <1>22, <1>23, <1>24, <1>25, <1>26, <1>27 DEF Thread, Continue,
       Initialize, Work, Destroy

\* Its engine, its memops and the interface of its codec.
LEMMA StepEngine ==
    ASSUME TypeOK, NEW d \in Decoders, EngineAt(d), Thread(d)
    PROVE  EngineAt(d)'
<1> USE DEF TypeOK, EngineAt, Opening, Making, Working, Ending, Section, At,
     Goto, Free, Take, Drop, Fault, InMemOpen, DecLock, EnableVe, DisableVe,
     Call, Palloc, Pfree, InitFails, VeRelease, Vp9Release, veVars, vp9Vars,
     memVars, decVars
<1>1. CASE CreateVideoDecoder(d)  BY <1>1 DEF CreateVideoDecoder
<1>2. CASE MemOpen(d)  BY <1>2 DEF MemOpen
<1>3. CASE VeInitialize(d)  BY <1>3 DEF VeInitialize
<1>4. CASE VeSetSpeed(d)  BY <1>4 DEF VeSetSpeed
<1>5. CASE VeInitFailed(d)  BY <1>5 DEF VeInitFailed
<1>6. CASE MemOpenRelease(d)  BY <1>6 DEF MemOpenRelease
<1>7. CASE IonOpen(d)  BY <1>7 DEF IonOpen
<1>8. CASE Vp9Swap(d)  BY <1>8 DEF Vp9Swap
<1>9. CASE Vp9Initialize(d)  BY <1>9 DEF Vp9Initialize
<1>10. CASE EngineCreate(d)  BY <1>10 DEF EngineCreate
<1>11. CASE CodecInit(d)  BY <1>11 DEF CodecInit
<1>12. CASE EngineCreated(d)  BY <1>12 DEF EngineCreated
<1>13. CASE EngineRelease(d)  BY <1>13 DEF EngineRelease
<1>14. CASE SbmInit(d)  BY <1>14 DEF SbmInit
<1>15. CASE SetSbm(d)  BY <1>15 DEF SetSbm
<1>16. CASE StartCall(d)  BY <1>16 DEF StartCall
<1>17. CASE DecodeToHardware(d)  BY <1>17 DEF DecodeToHardware
<1>18. CASE DecodeDone(d)  BY <1>18 DEF DecodeDone
<1>19. CASE GetFbm(d)  BY <1>19 DEF GetFbm
<1>20. CASE ReopenFree(d)  BY <1>20 DEF ReopenFree
<1>21. CASE ReopenInit(d)  BY <1>21 DEF ReopenInit
<1>22. CASE Reopened(d)  BY <1>22 DEF Reopened
<1>23. CASE DestroyVideoDecoder(d)  BY <1>23 DEF DestroyVideoDecoder
<1>24. CASE DestroyCodec(d)  BY <1>24 DEF DestroyCodec
<1>25. CASE DestroySbm(d)  BY <1>25 DEF DestroySbm
<1>26. CASE DestroyDone(d)  BY <1>26 DEF DestroyDone
<1>27. CASE MemClose(d)  BY <1>27 DEF MemClose
<1> QED
  BY <1>1, <1>2, <1>3, <1>4, <1>5, <1>6, <1>7, <1>8, <1>9, <1>10, <1>11,
       <1>12, <1>13, <1>14, <1>15, <1>16, <1>17, <1>18, <1>19, <1>20, <1>21,
       <1>22, <1>23, <1>24, <1>25, <1>26, <1>27 DEF Thread, Continue,
       Initialize, Work, Destroy

\* Its blocks.
LEMMA StepBlocks ==
    ASSUME TypeOK, NEW d \in Decoders, EngineAt(d), BlocksAt(d), Thread(d)
    PROVE  BlocksAt(d)'
<1> USE DEF TypeOK, EngineAt, BlocksAt, Has, Bare, Blocks, Opening, Making,
     Working, Ending, Section, At, Goto, Free, Take, Drop, Fault, InMemOpen,
     DecLock, EnableVe, DisableVe, Call, Palloc, Pfree, InitFails, VeRelease,
     Vp9Release, veVars, vp9Vars, memVars, decVars
<1>1. CASE CreateVideoDecoder(d)  BY <1>1 DEF CreateVideoDecoder
<1>2. CASE MemOpen(d)  BY <1>2 DEF MemOpen
<1>3. CASE VeInitialize(d)  BY <1>3 DEF VeInitialize
<1>4. CASE VeSetSpeed(d)  BY <1>4 DEF VeSetSpeed
<1>5. CASE VeInitFailed(d)  BY <1>5 DEF VeInitFailed
<1>6. CASE MemOpenRelease(d)  BY <1>6 DEF MemOpenRelease
<1>7. CASE IonOpen(d)  BY <1>7 DEF IonOpen
<1>8. CASE Vp9Swap(d)  BY <1>8 DEF Vp9Swap
<1>9. CASE Vp9Initialize(d)  BY <1>9 DEF Vp9Initialize
<1>10. CASE EngineCreate(d)  BY <1>10 DEF EngineCreate
<1>11. CASE CodecInit(d)  BY <1>11 DEF CodecInit
<1>12. CASE EngineCreated(d)  BY <1>12 DEF EngineCreated
<1>13. CASE EngineRelease(d)  BY <1>13 DEF EngineRelease
<1>14. CASE SbmInit(d)  BY <1>14 DEF SbmInit
<1>15. CASE SetSbm(d)  BY <1>15 DEF SetSbm
<1>16. CASE StartCall(d)  BY <1>16 DEF StartCall
<1>17. CASE DecodeToHardware(d)  BY <1>17 DEF DecodeToHardware
<1>18. CASE DecodeDone(d)  BY <1>18 DEF DecodeDone
<1>19. CASE GetFbm(d)  BY <1>19 DEF GetFbm
<1>20. CASE ReopenFree(d)  BY <1>20 DEF ReopenFree
<1>21. CASE ReopenInit(d)  BY <1>21 DEF ReopenInit
<1>22. CASE Reopened(d)  BY <1>22 DEF Reopened
<1>23. CASE DestroyVideoDecoder(d)  BY <1>23 DEF DestroyVideoDecoder
<1>24. CASE DestroyCodec(d)  BY <1>24 DEF DestroyCodec
<1>25. CASE DestroySbm(d)  BY <1>25 DEF DestroySbm
<1>26. CASE DestroyDone(d)  BY <1>26 DEF DestroyDone
<1>27. CASE MemClose(d)  BY <1>27 DEF MemClose
<1> QED
  BY <1>1, <1>2, <1>3, <1>4, <1>5, <1>6, <1>7, <1>8, <1>9, <1>10, <1>11,
       <1>12, <1>13, <1>14, <1>15, <1>16, <1>17, <1>18, <1>19, <1>20, <1>21,
       <1>22, <1>23, <1>24, <1>25, <1>26, <1>27 DEF Thread, Continue,
       Initialize, Work, Destroy

\* The pool its display knows.
LEMMA StepPool ==
    ASSUME TypeOK, NEW d \in Decoders, EngineAt(d), PoolAt(d), Thread(d)
    PROVE  PoolAt(d)'
<1> USE DEF TypeOK, EngineAt, PoolAt, Pooled, Points, OpenFailed, Has, Blocks,
     Opening, Making, Working, Ending, Section, At, Goto, Free, Take, Drop,
     Fault, InMemOpen, DecLock, EnableVe, DisableVe, Call, Palloc, Pfree,
     InitFails, VeRelease, Vp9Release, veVars, vp9Vars, memVars, decVars
<1>1. CASE CreateVideoDecoder(d)  BY <1>1 DEF CreateVideoDecoder
<1>2. CASE MemOpen(d)  BY <1>2 DEF MemOpen
<1>3. CASE VeInitialize(d)  BY <1>3 DEF VeInitialize
<1>4. CASE VeSetSpeed(d)  BY <1>4 DEF VeSetSpeed
<1>5. CASE VeInitFailed(d)  BY <1>5 DEF VeInitFailed
<1>6. CASE MemOpenRelease(d)  BY <1>6 DEF MemOpenRelease
<1>7. CASE IonOpen(d)  BY <1>7 DEF IonOpen
<1>8. CASE Vp9Swap(d)  BY <1>8 DEF Vp9Swap
<1>9. CASE Vp9Initialize(d)  BY <1>9 DEF Vp9Initialize
<1>10. CASE EngineCreate(d)  BY <1>10 DEF EngineCreate
<1>11. CASE CodecInit(d)  BY <1>11 DEF CodecInit
<1>12. CASE EngineCreated(d)  BY <1>12 DEF EngineCreated
<1>13. CASE EngineRelease(d)  BY <1>13 DEF EngineRelease
<1>14. CASE SbmInit(d)  BY <1>14 DEF SbmInit
<1>15. CASE SetSbm(d)  BY <1>15 DEF SetSbm
<1>16. CASE StartCall(d)  BY <1>16 DEF StartCall
<1>17. CASE DecodeToHardware(d)  BY <1>17 DEF DecodeToHardware
<1>18. CASE DecodeDone(d)  BY <1>18 DEF DecodeDone
<1>19. CASE GetFbm(d)  BY <1>19 DEF GetFbm
<1>20. CASE ReopenFree(d)  BY <1>20 DEF ReopenFree
<1>21. CASE ReopenInit(d)  BY <1>21 DEF ReopenInit
<1>22. CASE Reopened(d)  BY <1>22 DEF Reopened
<1>23. CASE DestroyVideoDecoder(d)  BY <1>23 DEF DestroyVideoDecoder
<1>24. CASE DestroyCodec(d)  BY <1>24 DEF DestroyCodec
<1>25. CASE DestroySbm(d)  BY <1>25 DEF DestroySbm
<1>26. CASE DestroyDone(d)  BY <1>26 DEF DestroyDone
<1>27. CASE MemClose(d)  BY <1>27 DEF MemClose
<1> QED
  BY <1>1, <1>2, <1>3, <1>4, <1>5, <1>6, <1>7, <1>8, <1>9, <1>10, <1>11,
       <1>12, <1>13, <1>14, <1>15, <1>16, <1>17, <1>18, <1>19, <1>20, <1>21,
       <1>22, <1>23, <1>24, <1>25, <1>26, <1>27 DEF Thread, Continue,
       Initialize, Work, Destroy

\* Whether it has the allocator open.
LEMMA StepOpened ==
    ASSUME TypeOK, LocksHeld, NEW d \in Decoders, ContextThere, OpenedAt(d),
           EngineAt(d), opened[d] => context, Thread(d), ~OpenFailed'
    PROVE  OpenedAt(d)'
<1> USE NoOneAssumption DEF TypeOK, Locks, LocksHeld, ContextThere, OpenedAt,
     OpenFailed, EngineAt, Opening, Making, Working, Ending, Section, At,
     Goto, Free, Take, Drop, Fault, InMemOpen, DecLock, EnableVe, DisableVe,
     Call, Palloc, Pfree, InitFails, VeRelease, Vp9Release, veVars, vp9Vars,
     memVars, decVars
<1>1. CASE CreateVideoDecoder(d)  BY <1>1 DEF CreateVideoDecoder
<1>2. CASE MemOpen(d)  BY <1>2 DEF MemOpen
<1>3. CASE VeInitialize(d)  BY <1>3 DEF VeInitialize
<1>4. CASE VeSetSpeed(d)  BY <1>4 DEF VeSetSpeed
<1>5. CASE VeInitFailed(d)  BY <1>5 DEF VeInitFailed
<1>6. CASE MemOpenRelease(d)  BY <1>6 DEF MemOpenRelease
<1>7. CASE IonOpen(d)  BY <1>7 DEF IonOpen
<1>8. CASE Vp9Swap(d)  BY <1>8 DEF Vp9Swap
<1>9. CASE Vp9Initialize(d)  BY <1>9 DEF Vp9Initialize
<1>10. CASE EngineCreate(d)  BY <1>10 DEF EngineCreate
<1>11. CASE CodecInit(d)  BY <1>11 DEF CodecInit
<1>12. CASE EngineCreated(d)  BY <1>12 DEF EngineCreated
<1>13. CASE EngineRelease(d)  BY <1>13 DEF EngineRelease
<1>14. CASE SbmInit(d)  BY <1>14 DEF SbmInit
<1>15. CASE SetSbm(d)  BY <1>15 DEF SetSbm
<1>16. CASE StartCall(d)  BY <1>16 DEF StartCall
<1>17. CASE DecodeToHardware(d)  BY <1>17 DEF DecodeToHardware
<1>18. CASE DecodeDone(d)  BY <1>18 DEF DecodeDone
<1>19. CASE GetFbm(d)  BY <1>19 DEF GetFbm
<1>20. CASE ReopenFree(d)  BY <1>20 DEF ReopenFree
<1>21. CASE ReopenInit(d)  BY <1>21 DEF ReopenInit
<1>22. CASE Reopened(d)  BY <1>22 DEF Reopened
<1>23. CASE DestroyVideoDecoder(d)  BY <1>23 DEF DestroyVideoDecoder
<1>24. CASE DestroyCodec(d)  BY <1>24 DEF DestroyCodec
<1>25. CASE DestroySbm(d)  BY <1>25 DEF DestroySbm
<1>26. CASE DestroyDone(d)  BY <1>26 DEF DestroyDone
<1>27. CASE MemClose(d)  BY <1>27 DEF MemClose
<1> QED
  BY <1>1, <1>2, <1>3, <1>4, <1>5, <1>6, <1>7, <1>8, <1>9, <1>10, <1>11,
       <1>12, <1>13, <1>14, <1>15, <1>16, <1>17, <1>18, <1>19, <1>20, <1>21,
       <1>22, <1>23, <1>24, <1>25, <1>26, <1>27 DEF Thread, Continue,
       Initialize, Work, Destroy

-----------------------------------------------------------------------------
(* What the threads share. *)

\* The locks: a lock is taken when it is free and dropped by its holder
\* (VeMutex, gVP9Mutex, lock_vdec, g_mutex_alloc).
LEMMA StepLocks ==
    ASSUME TypeOK, LocksHeld, NEW d \in Decoders, Thread(d)
    PROVE  LocksHeld'
<1> USE FormatAssumption, NoOneAssumption DEF TypeOK, LocksHeld, Section,
     Locks, At, Goto, Free, Take, Drop, Fault, InMemOpen, DecLock, EnableVe,
     DisableVe, Call, Palloc, Pfree, InitFails, VeRelease, Vp9Release, veVars,
     vp9Vars, memVars, decVars
<1>1. CASE CreateVideoDecoder(d)  BY <1>1 DEF CreateVideoDecoder
<1>2. CASE MemOpen(d)  BY <1>2 DEF MemOpen
<1>3. CASE VeInitialize(d)  BY <1>3 DEF VeInitialize
<1>4. CASE VeSetSpeed(d)  BY <1>4 DEF VeSetSpeed
<1>5. CASE VeInitFailed(d)  BY <1>5 DEF VeInitFailed
<1>6. CASE MemOpenRelease(d)  BY <1>6 DEF MemOpenRelease
<1>7. CASE IonOpen(d)  BY <1>7 DEF IonOpen
<1>8. CASE Vp9Swap(d)  BY <1>8 DEF Vp9Swap
<1>9. CASE Vp9Initialize(d)  BY <1>9 DEF Vp9Initialize
<1>10. CASE EngineCreate(d)  BY <1>10 DEF EngineCreate
<1>11. CASE CodecInit(d)  BY <1>11 DEF CodecInit
<1>12. CASE EngineCreated(d)  BY <1>12 DEF EngineCreated
<1>13. CASE EngineRelease(d)  BY <1>13 DEF EngineRelease
<1>14. CASE SbmInit(d)  BY <1>14 DEF SbmInit
<1>15. CASE SetSbm(d)  BY <1>15 DEF SetSbm
<1>16. CASE StartCall(d)  BY <1>16 DEF StartCall
<1>17. CASE DecodeToHardware(d)  BY <1>17 DEF DecodeToHardware
<1>18. CASE DecodeDone(d)  BY <1>18 DEF DecodeDone
<1>19. CASE GetFbm(d)  BY <1>19 DEF GetFbm
<1>20. CASE ReopenFree(d)  BY <1>20 DEF ReopenFree
<1>21. CASE ReopenInit(d)  BY <1>21 DEF ReopenInit
<1>22. CASE Reopened(d)  BY <1>22 DEF Reopened
<1>23. CASE DestroyVideoDecoder(d)  BY <1>23 DEF DestroyVideoDecoder
<1>24. CASE DestroyCodec(d)  BY <1>24 DEF DestroyCodec
<1>25. CASE DestroySbm(d)  BY <1>25 DEF DestroySbm
<1>26. CASE DestroyDone(d)  BY <1>26 DEF DestroyDone
<1>27. CASE MemClose(d)  BY <1>27 DEF MemClose
<1> QED
  BY <1>1, <1>2, <1>3, <1>4, <1>5, <1>6, <1>7, <1>8, <1>9, <1>10, <1>11,
       <1>12, <1>13, <1>14, <1>15, <1>16, <1>17, <1>18, <1>19, <1>20, <1>21,
       <1>22, <1>23, <1>24, <1>25, <1>26, <1>27 DEF Thread, Continue,
       Initialize, Work, Destroy

\* The mode of the engine changes only in the turn of the thread that steps
\* (enableVe, disableVe).
LEMMA StepMode ==
    ASSUME TypeOK, LocksHeld, ModeKept, NEW d \in Decoders, Thread(d)
    PROVE  ModeKept'
<1> USE FormatAssumption, NoOneAssumption DEF TypeOK, LocksHeld, ModeKept,
     Section, Locks, At, Goto, Free, Take, Drop, Fault, InMemOpen, DecLock,
     EnableVe, DisableVe, Call, Palloc, Pfree, InitFails, VeRelease,
     Vp9Release, veVars, vp9Vars, memVars, decVars
<1>1. CASE CreateVideoDecoder(d)  BY <1>1 DEF CreateVideoDecoder
<1>2. CASE MemOpen(d)  BY <1>2 DEF MemOpen
<1>3. CASE VeInitialize(d)  BY <1>3 DEF VeInitialize
<1>4. CASE VeSetSpeed(d)  BY <1>4 DEF VeSetSpeed
<1>5. CASE VeInitFailed(d)  BY <1>5 DEF VeInitFailed
<1>6. CASE MemOpenRelease(d)  BY <1>6 DEF MemOpenRelease
<1>7. CASE IonOpen(d)  BY <1>7 DEF IonOpen
<1>8. CASE Vp9Swap(d)  BY <1>8 DEF Vp9Swap
<1>9. CASE Vp9Initialize(d)  BY <1>9 DEF Vp9Initialize
<1>10. CASE EngineCreate(d)  BY <1>10 DEF EngineCreate
<1>11. CASE CodecInit(d)  BY <1>11 DEF CodecInit
<1>12. CASE EngineCreated(d)  BY <1>12 DEF EngineCreated
<1>13. CASE EngineRelease(d)  BY <1>13 DEF EngineRelease
<1>14. CASE SbmInit(d)  BY <1>14 DEF SbmInit
<1>15. CASE SetSbm(d)  BY <1>15 DEF SetSbm
<1>16. CASE StartCall(d)  BY <1>16 DEF StartCall
<1>17. CASE DecodeToHardware(d)  BY <1>17 DEF DecodeToHardware
<1>18. CASE DecodeDone(d)  BY <1>18 DEF DecodeDone
<1>19. CASE GetFbm(d)  BY <1>19 DEF GetFbm
<1>20. CASE ReopenFree(d)  BY <1>20 DEF ReopenFree
<1>21. CASE ReopenInit(d)  BY <1>21 DEF ReopenInit
<1>22. CASE Reopened(d)  BY <1>22 DEF Reopened
<1>23. CASE DestroyVideoDecoder(d)  BY <1>23 DEF DestroyVideoDecoder
<1>24. CASE DestroyCodec(d)  BY <1>24 DEF DestroyCodec
<1>25. CASE DestroySbm(d)  BY <1>25 DEF DestroySbm
<1>26. CASE DestroyDone(d)  BY <1>26 DEF DestroyDone
<1>27. CASE MemClose(d)  BY <1>27 DEF MemClose
<1> QED
  BY <1>1, <1>2, <1>3, <1>4, <1>5, <1>6, <1>7, <1>8, <1>9, <1>10, <1>11,
       <1>12, <1>13, <1>14, <1>15, <1>16, <1>17, <1>18, <1>19, <1>20, <1>21,
       <1>22, <1>23, <1>24, <1>25, <1>26, <1>27 DEF Thread, Continue,
       Initialize, Work, Destroy

-----------------------------------------------------------------------------
(* The counts. *)

Normals == {e \in Decoders : ve[e] = "normal"}
Vp9s == {e \in Decoders : ve[e] = "vp9" /\ ~At(e, "veFail")}
Openers == {e \in Decoders : opened[e]}

\* One decoder more.
LEMMA OneMore ==
    ASSUME NEW S \in SUBSET Decoders, NEW x \in Decoders, x \notin S
    PROVE  Cardinality(S \cup {x}) = Cardinality(S) + 1
<1>1. IsFiniteSet(S)  BY DecodersAssumption, FS_Subset
<1> QED  BY <1>1, FS_AddElement

\* ... and one decoder less.
LEMMA OneLess ==
    ASSUME NEW S \in SUBSET Decoders, NEW x \in S
    PROVE  /\ Cardinality(S \ {x}) = Cardinality(S) - 1
           /\ Cardinality(S) \in Nat \ {0}
<1>1. IsFiniteSet(S)  BY DecodersAssumption, FS_Subset
<1>2. Cardinality(S) \in Nat  BY <1>1, FS_CardinalityType
<1>3. Cardinality(S) # 0  BY <1>1, FS_EmptySet
<1> QED  BY <1>1, <1>2, <1>3, FS_RemoveElement

\* Two decoders in a set count as more than one.
LEMMA TwoAtLeast ==
    ASSUME NEW S \in SUBSET Decoders, NEW x \in S, NEW y \in S, x # y
    PROVE  Cardinality(S) > 1
<1>1. y \in S \ {x}  OBVIOUS
<1> DEFINE T == S \ {x}
<1>2. T \in SUBSET Decoders /\ y \in T  BY <1>1
<1> HIDE DEF T
<1>3. Cardinality(T) \in Nat \ {0}  BY <1>2, OneLess
<1>4. Cardinality(T) = Cardinality(S) - 1 /\ Cardinality(S) \in Nat
  BY OneLess DEF T
<1> QED  BY <1>3, <1>4

\* No context comes or goes: the counts stay exact.
LEMMA ContextsSame ==
    ASSUME Alive, ContextsCounted, NEW d \in Decoders, TypeOK,
           Normals' = Normals, Vp9s' = Vp9s, pc[d] # "veFreq",
           UNCHANGED <<nVeRefCount, gVP9RefCount, vp9Fd>>,
           NEW q, Goto(d, q), veFd' = (veFd \/ q = "veFreq")
    PROVE  ContextsCounted'
<1>1. veFd' <=> (nVeRefCount' > 0 \/ \E e \in Decoders : At(e, "veFreq")')
  <2>1. (\E e \in Decoders : At(e, "veFreq")')
            <=> ((\E e \in Decoders : At(e, "veFreq")) \/ q = "veFreq")
    BY DEF Goto, At, TypeOK
  <2> QED  BY <2>1 DEF ContextsCounted
<1> QED  BY <1>1 DEF ContextsCounted, Normals, Vp9s

\* VeRelease of a context.
LEMMA ContextReleased ==
    ASSUME Alive, ContextsCounted, LocksHeld, TypeOK, NEW d \in Decoders,
           ve[d] = "normal", VeRelease(d), UNCHANGED vp9Vars,
           pc[d] # "veFreq", NEW q, Goto(d, q), q # "veFreq"
    PROVE  ContextsCounted'
<1>1. Normals' = Normals \ {d} /\ d \in Normals
  BY DEF Normals, VeRelease, TypeOK
<1>2. Vp9s' = Vp9s
  BY DEF Vp9s, VeRelease, TypeOK, Goto, At
<1>3. /\ Cardinality(Normals') = Cardinality(Normals) - 1
      /\ Cardinality(Normals) \in Nat \ {0}
  BY <1>1, OneLess DEF Normals
<1>4. \A e \in Decoders : ~At(e, "veFreq") /\ ~At(e, "veFreq")'
  BY NoOneAssumption DEF VeRelease, Free, LocksHeld, Goto, At, TypeOK
<1>5. nVeRefCount = Cardinality(Normals) /\ (veFd <=> nVeRefCount > 0)
  BY <1>4 DEF ContextsCounted, Normals
<1>6. nVeRefCount' = Cardinality(Normals')
  BY <1>3, <1>5 DEF VeRelease
<1>7. veFd' <=> nVeRefCount' > 0
  <2>1. veFd /\ (nVeRefCount # 1 <=> nVeRefCount' > 0)
    BY <1>3, <1>5 DEF VeRelease
  <2>2. veFd' = (veFd /\ nVeRefCount # 1)
    BY Zenon DEF VeRelease
  <2> QED  BY <2>1, <2>2, Zenon
<1> QED
  BY <1>2, <1>4, <1>6, <1>7 DEF ContextsCounted, Normals, Vp9s, vp9Vars

\* Vp9Release of a context.
LEMMA Vp9Released ==
    ASSUME Alive, ContextsCounted, TypeOK, NEW d \in Decoders,
           ve[d] = "vp9", Vp9Release(d), UNCHANGED veVars,
           pc[d] \notin {"veFreq", "veFail"},
           NEW q, Goto(d, q), q # "veFreq"
    PROVE  ContextsCounted'
<1>1. Vp9s' = Vp9s \ {d} /\ d \in Vp9s
  BY DEF Vp9s, Vp9Release, TypeOK, Goto, At
<1>2. Normals' = Normals
  BY DEF Normals, Vp9Release, TypeOK
<1>3. /\ Cardinality(Vp9s') = Cardinality(Vp9s) - 1
      /\ Cardinality(Vp9s) \in Nat \ {0}
  BY <1>1, OneLess DEF Vp9s
<1>4. gVP9RefCount = Cardinality(Vp9s) /\ (vp9Fd <=> gVP9RefCount > 0)
  BY DEF ContextsCounted, Vp9s
<1>5. gVP9RefCount' = Cardinality(Vp9s')
  BY <1>3, <1>4 DEF Vp9Release
<1>6. vp9Fd' <=> gVP9RefCount' > 0
  <2>1. vp9Fd /\ (gVP9RefCount # 1 <=> gVP9RefCount' > 0)
    BY <1>3, <1>4 DEF Vp9Release
  <2>2. vp9Fd' = (vp9Fd /\ gVP9RefCount # 1)
    BY Zenon DEF Vp9Release
  <2> QED  BY <2>1, <2>2, Zenon
<1>7. \A e \in Decoders : At(e, "veFreq")' <=> At(e, "veFreq")
  BY DEF Goto, At, TypeOK
<1> QED
  BY <1>2, <1>5, <1>6, <1>7 DEF ContextsCounted, Normals, Vp9s, veVars

\* The counts of the two drivers stay the contexts held.
LEMMA StepContexts ==
    ASSUME IInv, NEW d \in Decoders, Thread(d), Alive, Alive'
    PROVE  ContextsCounted'
<1> USE DEF IInv, PointsInv
<1>0. ContextAt(d) /\ EngineAt(d)  OBVIOUS
<1>1. CASE VeInitialize(d)
  <2>1. ve[d] = "none" /\ pc[d] = "veInit"
    BY <1>0, <1>1 DEF VeInitialize, ContextAt, At
  <2>2. PICK q \in {"veFreq", "veFail"} :
            Goto(d, q) /\ veFd' = (veFd \/ q = "veFreq")
    BY <1>1 DEF VeInitialize, TypeOK
  <2>3. Normals' = Normals /\ Vp9s' = Vp9s
    BY <1>1, <2>1, <2>2 DEF VeInitialize, Normals, Vp9s, Goto, At, TypeOK
  <2> QED
    BY <1>1, <2>1, <2>2, <2>3, ContextsSame DEF VeInitialize, vp9Vars
<1>2. CASE VeSetSpeed(d)
  <2>1. ve[d] = "none" /\ At(d, "veFreq")
    BY <1>0, <1>2 DEF VeSetSpeed, ContextAt, At
  <2>2. Normals' = Normals \cup {d} /\ d \notin Normals
    BY <1>2, <2>1 DEF VeSetSpeed, Normals, TypeOK
  <2>3. Vp9s' = Vp9s
    BY <1>2, <2>1 DEF VeSetSpeed, Vp9s, Goto, At, TypeOK
  <2>4. Cardinality(Normals') = Cardinality(Normals) + 1
    BY <2>2, OneMore DEF Normals
  <2>5. nVeRefCount' = Cardinality(Normals') /\ nVeRefCount' > 0
    BY <1>2, <2>4 DEF ContextsCounted, Normals, VeSetSpeed, TypeOK
  <2>6. veFd'
    BY <1>2, <2>1 DEF ContextsCounted, VeSetSpeed
  <2> QED
    BY <1>2, <2>3, <2>5, <2>6
       DEF ContextsCounted, Normals, Vp9s, VeSetSpeed, vp9Vars
<1>3. CASE VeInitFailed(d)
  <2>1. Goto(d, "failed") /\ At(d, "veFail")
    BY <1>3 DEF VeInitFailed, Alive, Goto, At, TypeOK
  <2>2. CASE ve[d] = "vp9"
    <3>1. gVP9RefCount = 0 /\ Vp9Release(d) /\ UNCHANGED veVars
      BY <1>3, <2>1, <2>2 DEF VeInitFailed, Goto, TypeOK
    <3>2. Normals' = Normals /\ Vp9s' = Vp9s
      BY <2>1, <2>2, <3>1 DEF Vp9Release, Normals, Vp9s, Goto, At, TypeOK
    <3>3. UNCHANGED gVP9RefCount
      BY <3>1 DEF Vp9Release
    <3>4. UNCHANGED vp9Fd
      BY <3>1 DEF Vp9Release, TypeOK
    <3> QED
      BY <2>1, <3>1, <3>2, <3>3, <3>4, ContextsSame DEF veVars, At, TypeOK
  <2>3. CASE ve[d] # "vp9"
    <3>1. ve[d] = "none"  BY <1>0, <2>1, <2>3 DEF ContextAt, At
    <3>2. nVeRefCount = 0 /\ VeRelease(d) /\ UNCHANGED vp9Vars
      BY <1>3, <2>1, <2>3 DEF VeInitFailed, Goto, TypeOK
    <3>3. Normals' = Normals /\ Vp9s' = Vp9s
      BY <2>1, <3>1, <3>2 DEF VeRelease, Normals, Vp9s, Goto, At, TypeOK
    <3>4. UNCHANGED nVeRefCount
      BY <3>2 DEF VeRelease
    <3>5. UNCHANGED veFd
      BY <3>2 DEF VeRelease, TypeOK
    <3> QED
      BY <2>1, <3>2, <3>3, <3>4, <3>5, ContextsSame DEF vp9Vars, At, TypeOK
  <2> QED  BY <2>2, <2>3
<1>4. CASE MemOpenRelease(d)
  BY <1>0, <1>4, ContextReleased DEF MemOpenRelease, ContextAt, At, vp9Vars
<1>5. CASE Vp9Swap(d)
  BY <1>0, <1>5, ContextReleased DEF Vp9Swap, ContextAt, At, vp9Vars
<1>6. CASE Vp9Initialize(d)
  <2>1. ve[d] = "none" /\ pc[d] = "vp9Init"
    BY <1>0, <1>6 DEF Vp9Initialize, ContextAt, At
  <2>2. Normals' = Normals
    BY <1>6, <2>1 DEF Vp9Initialize, Normals, TypeOK
  <2>3. CASE Goto(d, "veFail") /\ UNCHANGED vp9Vars
    <3>1. Vp9s' = Vp9s
      BY <1>6, <2>1, <2>3 DEF Vp9Initialize, Vp9s, Goto, At, TypeOK
    <3> QED
      BY <1>6, <2>1, <2>2, <2>3, <3>1, ContextsSame
         DEF Vp9Initialize, vp9Vars, veVars, TypeOK
  <2>4. CASE /\ gVP9RefCount' = gVP9RefCount + 1 /\ vp9Fd'
             /\ Goto(d, "engCreate")
    <3>1. Vp9s' = Vp9s \cup {d} /\ d \notin Vp9s
      BY <1>6, <2>1, <2>4 DEF Vp9Initialize, Vp9s, Goto, At, TypeOK
    <3>2. Cardinality(Vp9s') = Cardinality(Vp9s) + 1
      BY <3>1, OneMore DEF Vp9s
    <3>3. gVP9RefCount' = Cardinality(Vp9s') /\ gVP9RefCount' > 0
      BY <2>4, <3>2 DEF ContextsCounted, Vp9s, TypeOK
    <3>4. \A e \in Decoders : At(e, "veFreq")' <=> At(e, "veFreq")
      BY <2>1, <2>4 DEF Goto, At, TypeOK
    <3> QED
      BY <1>6, <2>2, <2>4, <3>3, <3>4
         DEF ContextsCounted, Normals, Vp9s, Vp9Initialize, veVars
  <2> QED  BY <1>6, <2>3, <2>4 DEF Vp9Initialize
<1>7. CASE EngineRelease(d)
  <2>1. pc[d] \in {"release", "releaseBad"} /\ ve[d] = Own(d)
    BY <1>0, <1>7 DEF EngineRelease, ContextAt, At, Making, Ending
  <2>2. PICK q \in {"memClose", "failed"} : Goto(d, q)
    BY <1>7 DEF EngineRelease
  <2>3. CASE Format[d] = "VP9"
    BY <1>7, <2>1, <2>2, <2>3, Vp9Released DEF EngineRelease, Own
  <2>4. CASE Format[d] # "VP9"
    BY <1>7, <2>1, <2>2, <2>4, ContextReleased DEF EngineRelease, Own, vp9Vars
  <2> QED  BY <2>3, <2>4
<1>8. ASSUME UNCHANGED <<nVeRefCount, gVP9RefCount, veFd, vp9Fd, ve>>,
             NEW q, Goto(d, q), {pc[d], q} \cap {"veFreq", "veFail"} = {}
      PROVE  ContextsCounted'
  <2>1. Normals' = Normals /\ Vp9s' = Vp9s
    BY <1>8 DEF Normals, Vp9s, Goto, At, TypeOK
  <2> QED  BY <1>8, <2>1, ContextsSame DEF TypeOK
<1>9. CASE CreateVideoDecoder(d)
  BY <1>9, <1>8 DEF CreateVideoDecoder, At, Goto, Free, Take, Drop, Fault,
       InMemOpen, DecLock, EnableVe, DisableVe, Call, Palloc, Pfree,
       InitFails, VeRelease, Vp9Release, veVars, vp9Vars, memVars, decVars
<1>10. CASE MemOpen(d)
  BY <1>10, <1>8 DEF MemOpen, At, Goto, Free, Take, Drop, Fault, InMemOpen,
       DecLock, EnableVe, DisableVe, Call, Palloc, Pfree, InitFails,
       VeRelease, Vp9Release, veVars, vp9Vars, memVars, decVars
<1>11. CASE IonOpen(d)
  BY <1>11, <1>8 DEF IonOpen, At, Goto, Free, Take, Drop, Fault, InMemOpen,
       DecLock, EnableVe, DisableVe, Call, Palloc, Pfree, InitFails,
       VeRelease, Vp9Release, veVars, vp9Vars, memVars, decVars
<1>12. CASE EngineCreate(d)
  BY <1>12, <1>8 DEF EngineCreate, At, Goto, Free, Take, Drop, Fault,
       InMemOpen, DecLock, EnableVe, DisableVe, Call, Palloc, Pfree,
       InitFails, VeRelease, Vp9Release, veVars, vp9Vars, memVars, decVars
<1>13. CASE CodecInit(d)
  BY <1>13, <1>8 DEF CodecInit, At, Goto, Free, Take, Drop, Fault, InMemOpen,
       DecLock, EnableVe, DisableVe, Call, Palloc, Pfree, InitFails,
       VeRelease, Vp9Release, veVars, vp9Vars, memVars, decVars
<1>14. CASE EngineCreated(d)
  BY <1>14, <1>8 DEF EngineCreated, At, Goto, Free, Take, Drop, Fault,
       InMemOpen, DecLock, EnableVe, DisableVe, Call, Palloc, Pfree,
       InitFails, VeRelease, Vp9Release, veVars, vp9Vars, memVars, decVars
<1>15. CASE SbmInit(d)
  BY <1>15, <1>8 DEF SbmInit, At, Goto, Free, Take, Drop, Fault, InMemOpen,
       DecLock, EnableVe, DisableVe, Call, Palloc, Pfree, InitFails,
       VeRelease, Vp9Release, veVars, vp9Vars, memVars, decVars
<1>16. CASE SetSbm(d)
  BY <1>16, <1>8 DEF SetSbm, At, Goto, Free, Take, Drop, Fault, InMemOpen,
       DecLock, EnableVe, DisableVe, Call, Palloc, Pfree, InitFails,
       VeRelease, Vp9Release, veVars, vp9Vars, memVars, decVars
<1>17. CASE StartCall(d)
  BY <1>17, <1>8 DEF StartCall, At, Goto, Free, Take, Drop, Fault, InMemOpen,
       DecLock, EnableVe, DisableVe, Call, Palloc, Pfree, InitFails,
       VeRelease, Vp9Release, veVars, vp9Vars, memVars, decVars
<1>18. CASE DecodeToHardware(d)
  BY <1>18, <1>8 DEF DecodeToHardware, At, Goto, Free, Take, Drop, Fault,
       InMemOpen, DecLock, EnableVe, DisableVe, Call, Palloc, Pfree,
       InitFails, VeRelease, Vp9Release, veVars, vp9Vars, memVars, decVars
<1>19. CASE DecodeDone(d)
  BY <1>19, <1>8 DEF DecodeDone, At, Goto, Free, Take, Drop, Fault, InMemOpen,
       DecLock, EnableVe, DisableVe, Call, Palloc, Pfree, InitFails,
       VeRelease, Vp9Release, veVars, vp9Vars, memVars, decVars
<1>20. CASE GetFbm(d)
  BY <1>20 DEF GetFbm, ContextsCounted, veVars, vp9Vars, At
<1>21. CASE ReopenFree(d)
  BY <1>21, <1>8 DEF ReopenFree, At, Goto, Free, Take, Drop, Fault, InMemOpen,
       DecLock, EnableVe, DisableVe, Call, Palloc, Pfree, InitFails,
       VeRelease, Vp9Release, veVars, vp9Vars, memVars, decVars
<1>22. CASE ReopenInit(d)
  BY <1>22, <1>8 DEF ReopenInit, At, Goto, Free, Take, Drop, Fault, InMemOpen,
       DecLock, EnableVe, DisableVe, Call, Palloc, Pfree, InitFails,
       VeRelease, Vp9Release, veVars, vp9Vars, memVars, decVars
<1>23. CASE Reopened(d)
  BY <1>23, <1>8 DEF Reopened, At, Goto, Free, Take, Drop, Fault, InMemOpen,
       DecLock, EnableVe, DisableVe, Call, Palloc, Pfree, InitFails,
       VeRelease, Vp9Release, veVars, vp9Vars, memVars, decVars
<1>24. CASE DestroyVideoDecoder(d)
  BY <1>24, <1>8 DEF DestroyVideoDecoder, At, Goto, Free, Take, Drop, Fault,
       InMemOpen, DecLock, EnableVe, DisableVe, Call, Palloc, Pfree,
       InitFails, VeRelease, Vp9Release, veVars, vp9Vars, memVars, decVars
<1>25. CASE DestroyCodec(d)
  BY <1>25, <1>8 DEF DestroyCodec, At, Goto, Free, Take, Drop, Fault,
       InMemOpen, DecLock, EnableVe, DisableVe, Call, Palloc, Pfree,
       InitFails, VeRelease, Vp9Release, veVars, vp9Vars, memVars, decVars
<1>26. CASE DestroySbm(d)
  BY <1>26, <1>8 DEF DestroySbm, At, Goto, Free, Take, Drop, Fault, InMemOpen,
       DecLock, EnableVe, DisableVe, Call, Palloc, Pfree, InitFails,
       VeRelease, Vp9Release, veVars, vp9Vars, memVars, decVars
<1>27. CASE DestroyDone(d)
  BY <1>27, <1>8 DEF DestroyDone, At, Goto, Free, Take, Drop, Fault,
       InMemOpen, DecLock, EnableVe, DisableVe, Call, Palloc, Pfree,
       InitFails, VeRelease, Vp9Release, veVars, vp9Vars, memVars, decVars
<1>28. CASE MemClose(d)
  BY <1>28, <1>8 DEF MemClose, At, Goto, Free, Take, Drop, Fault, InMemOpen,
       DecLock, EnableVe, DisableVe, Call, Palloc, Pfree, InitFails,
       VeRelease, Vp9Release, veVars, vp9Vars, memVars, decVars
<1> QED
  BY <1>1, <1>2, <1>3, <1>4, <1>5, <1>6, <1>7, <1>9, <1>10, <1>11, <1>12,
       <1>13, <1>14, <1>15, <1>16, <1>17, <1>18, <1>19, <1>20, <1>21, <1>22,
       <1>23, <1>24, <1>25, <1>26, <1>27, <1>28 DEF Thread, Continue,
       Initialize, Work, Destroy

-----------------------------------------------------------------------------
(* The allocator. *)

\* A fault is never forgotten.
LEMMA StepFault ==
    ASSUME NEW d \in Decoders, Thread(d)
    PROVE  fault # "none" => UNCHANGED fault
<1> USE DEF At, Goto, Free, Take, Drop, Fault, InMemOpen, DecLock, EnableVe,
     DisableVe, Call, Palloc, Pfree, InitFails, VeRelease, Vp9Release, veVars,
     vp9Vars, memVars, decVars
<1>1. CASE CreateVideoDecoder(d)  BY <1>1 DEF CreateVideoDecoder
<1>2. CASE MemOpen(d)  BY <1>2 DEF MemOpen
<1>3. CASE VeInitialize(d)  BY <1>3 DEF VeInitialize
<1>4. CASE VeSetSpeed(d)  BY <1>4 DEF VeSetSpeed
<1>5. CASE VeInitFailed(d)  BY <1>5 DEF VeInitFailed
<1>6. CASE MemOpenRelease(d)  BY <1>6 DEF MemOpenRelease
<1>7. CASE IonOpen(d)  BY <1>7 DEF IonOpen
<1>8. CASE Vp9Swap(d)  BY <1>8 DEF Vp9Swap
<1>9. CASE Vp9Initialize(d)  BY <1>9 DEF Vp9Initialize
<1>10. CASE EngineCreate(d)  BY <1>10 DEF EngineCreate
<1>11. CASE CodecInit(d)  BY <1>11 DEF CodecInit
<1>12. CASE EngineCreated(d)  BY <1>12 DEF EngineCreated
<1>13. CASE EngineRelease(d)  BY <1>13 DEF EngineRelease
<1>14. CASE SbmInit(d)  BY <1>14 DEF SbmInit
<1>15. CASE SetSbm(d)  BY <1>15 DEF SetSbm
<1>16. CASE StartCall(d)  BY <1>16 DEF StartCall
<1>17. CASE DecodeToHardware(d)  BY <1>17 DEF DecodeToHardware
<1>18. CASE DecodeDone(d)  BY <1>18 DEF DecodeDone
<1>19. CASE GetFbm(d)  BY <1>19 DEF GetFbm
<1>20. CASE ReopenFree(d)  BY <1>20 DEF ReopenFree
<1>21. CASE ReopenInit(d)  BY <1>21 DEF ReopenInit
<1>22. CASE Reopened(d)  BY <1>22 DEF Reopened
<1>23. CASE DestroyVideoDecoder(d)  BY <1>23 DEF DestroyVideoDecoder
<1>24. CASE DestroyCodec(d)  BY <1>24 DEF DestroyCodec
<1>25. CASE DestroySbm(d)  BY <1>25 DEF DestroySbm
<1>26. CASE DestroyDone(d)  BY <1>26 DEF DestroyDone
<1>27. CASE MemClose(d)  BY <1>27 DEF MemClose
<1> QED
  BY <1>1, <1>2, <1>3, <1>4, <1>5, <1>6, <1>7, <1>8, <1>9, <1>10, <1>11,
       <1>12, <1>13, <1>14, <1>15, <1>16, <1>17, <1>18, <1>19, <1>20, <1>21,
       <1>22, <1>23, <1>24, <1>25, <1>26, <1>27 DEF Thread, Continue,
       Initialize, Work, Destroy

\* A step gives and takes only blocks of its own decoder, but for the last \*
\* ion_alloc_close.
LEMMA StepLists ==
    ASSUME TypeOK, NEW d \in Decoders, Thread(d), NEW e \in Decoders, e # d
    PROVE  /\ Has(e)' \subseteq Has(e)
           /\ (MemClose(d) => ref_cnt > 1) => Has(e)' = Has(e)
<1> USE DEF Has, At, Goto, Free, Take, Drop, Fault, InMemOpen, DecLock,
     EnableVe, DisableVe, Call, Palloc, Pfree, InitFails, VeRelease,
     Vp9Release, veVars, vp9Vars, memVars, decVars
<1>1. CASE CreateVideoDecoder(d)  BY <1>1 DEF CreateVideoDecoder
<1>2. CASE MemOpen(d)  BY <1>2 DEF MemOpen
<1>3. CASE VeInitialize(d)  BY <1>3 DEF VeInitialize
<1>4. CASE VeSetSpeed(d)  BY <1>4 DEF VeSetSpeed
<1>5. CASE VeInitFailed(d)  BY <1>5 DEF VeInitFailed
<1>6. CASE MemOpenRelease(d)  BY <1>6 DEF MemOpenRelease
<1>7. CASE IonOpen(d)  BY <1>7 DEF IonOpen
<1>8. CASE Vp9Swap(d)  BY <1>8 DEF Vp9Swap
<1>9. CASE Vp9Initialize(d)  BY <1>9 DEF Vp9Initialize
<1>10. CASE EngineCreate(d)  BY <1>10 DEF EngineCreate
<1>11. CASE CodecInit(d)  BY <1>11 DEF CodecInit
<1>12. CASE EngineCreated(d)  BY <1>12 DEF EngineCreated
<1>13. CASE EngineRelease(d)  BY <1>13 DEF EngineRelease
<1>14. CASE SbmInit(d)  BY <1>14 DEF SbmInit
<1>15. CASE SetSbm(d)  BY <1>15 DEF SetSbm
<1>16. CASE StartCall(d)  BY <1>16 DEF StartCall
<1>17. CASE DecodeToHardware(d)  BY <1>17 DEF DecodeToHardware
<1>18. CASE DecodeDone(d)  BY <1>18 DEF DecodeDone
<1>19. CASE GetFbm(d)  BY <1>19 DEF GetFbm
<1>20. CASE ReopenFree(d)  BY <1>20 DEF ReopenFree
<1>21. CASE ReopenInit(d)  BY <1>21 DEF ReopenInit
<1>22. CASE Reopened(d)  BY <1>22 DEF Reopened
<1>23. CASE DestroyVideoDecoder(d)  BY <1>23 DEF DestroyVideoDecoder
<1>24. CASE DestroyCodec(d)  BY <1>24 DEF DestroyCodec
<1>25. CASE DestroySbm(d)  BY <1>25 DEF DestroySbm
<1>26. CASE DestroyDone(d)  BY <1>26 DEF DestroyDone
<1>27. CASE MemClose(d)  BY <1>27 DEF MemClose
<1> QED
  BY <1>1, <1>2, <1>3, <1>4, <1>5, <1>6, <1>7, <1>8, <1>9, <1>10, <1>11,
       <1>12, <1>13, <1>14, <1>15, <1>16, <1>17, <1>18, <1>19, <1>20, <1>21,
       <1>22, <1>23, <1>24, <1>25, <1>26, <1>27 DEF Thread, Continue,
       Initialize, Work, Destroy

\* g_mutex_alloc stays with another decoder that holds it.
LEMMA StepAllocLock ==
    ASSUME TypeOK, LocksHeld, NEW d \in Decoders, Thread(d),
           NEW e \in Decoders, e # d
    PROVE  lock'["alloc"] = e <=> lock["alloc"] = e
<1> USE FormatAssumption, NoOneAssumption DEF TypeOK, LocksHeld, Locks, At,
     Goto, Free, Take, Drop, Fault, InMemOpen, DecLock, EnableVe, DisableVe,
     Call, Palloc, Pfree, InitFails, VeRelease, Vp9Release, veVars, vp9Vars,
     memVars, decVars
<1>1. CASE CreateVideoDecoder(d)  BY <1>1 DEF CreateVideoDecoder
<1>2. CASE MemOpen(d)  BY <1>2 DEF MemOpen
<1>3. CASE VeInitialize(d)  BY <1>3 DEF VeInitialize
<1>4. CASE VeSetSpeed(d)  BY <1>4 DEF VeSetSpeed
<1>5. CASE VeInitFailed(d)  BY <1>5 DEF VeInitFailed
<1>6. CASE MemOpenRelease(d)  BY <1>6 DEF MemOpenRelease
<1>7. CASE IonOpen(d)  BY <1>7 DEF IonOpen
<1>8. CASE Vp9Swap(d)  BY <1>8 DEF Vp9Swap
<1>9. CASE Vp9Initialize(d)  BY <1>9 DEF Vp9Initialize
<1>10. CASE EngineCreate(d)  BY <1>10 DEF EngineCreate
<1>11. CASE CodecInit(d)  BY <1>11 DEF CodecInit
<1>12. CASE EngineCreated(d)  BY <1>12 DEF EngineCreated
<1>13. CASE EngineRelease(d)  BY <1>13 DEF EngineRelease
<1>14. CASE SbmInit(d)  BY <1>14 DEF SbmInit
<1>15. CASE SetSbm(d)  BY <1>15 DEF SetSbm
<1>16. CASE StartCall(d)  BY <1>16 DEF StartCall
<1>17. CASE DecodeToHardware(d)  BY <1>17 DEF DecodeToHardware
<1>18. CASE DecodeDone(d)  BY <1>18 DEF DecodeDone
<1>19. CASE GetFbm(d)  BY <1>19 DEF GetFbm
<1>20. CASE ReopenFree(d)  BY <1>20 DEF ReopenFree
<1>21. CASE ReopenInit(d)  BY <1>21 DEF ReopenInit
<1>22. CASE Reopened(d)  BY <1>22 DEF Reopened
<1>23. CASE DestroyVideoDecoder(d)  BY <1>23 DEF DestroyVideoDecoder
<1>24. CASE DestroyCodec(d)  BY <1>24 DEF DestroyCodec
<1>25. CASE DestroySbm(d)  BY <1>25 DEF DestroySbm
<1>26. CASE DestroyDone(d)  BY <1>26 DEF DestroyDone
<1>27. CASE MemClose(d)  BY <1>27 DEF MemClose
<1> QED
  BY <1>1, <1>2, <1>3, <1>4, <1>5, <1>6, <1>7, <1>8, <1>9, <1>10, <1>11,
       <1>12, <1>13, <1>14, <1>15, <1>16, <1>17, <1>18, <1>19, <1>20, <1>21,
       <1>22, <1>23, <1>24, <1>25, <1>26, <1>27 DEF Thread, Continue,
       Initialize, Work, Destroy

\* Only three operations open or close the allocator, and a failed
\* VeInitialize.
LEMMA StepAllocSame ==
    ASSUME TypeOK, NEW d \in Decoders, Thread(d),
           ~MemOpen(d), ~IonOpen(d), ~MemClose(d), ~VeInitFailed(d)
    PROVE  UNCHANGED <<context, ref_cnt, opened, lock["alloc"]>>
<1> USE FormatAssumption DEF TypeOK, Locks, At, Goto, Free, Take, Drop, Fault,
     InMemOpen, DecLock, EnableVe, DisableVe, Call, Palloc, Pfree, InitFails,
     VeRelease, Vp9Release, veVars, vp9Vars, memVars, decVars
<1>1. CASE CreateVideoDecoder(d)  BY <1>1 DEF CreateVideoDecoder
<1>2. CASE MemOpen(d)  BY <1>2 DEF MemOpen
<1>3. CASE VeInitialize(d)  BY <1>3 DEF VeInitialize
<1>4. CASE VeSetSpeed(d)  BY <1>4 DEF VeSetSpeed
<1>5. CASE VeInitFailed(d)  BY <1>5 DEF VeInitFailed
<1>6. CASE MemOpenRelease(d)  BY <1>6 DEF MemOpenRelease
<1>7. CASE IonOpen(d)  BY <1>7 DEF IonOpen
<1>8. CASE Vp9Swap(d)  BY <1>8 DEF Vp9Swap
<1>9. CASE Vp9Initialize(d)  BY <1>9 DEF Vp9Initialize
<1>10. CASE EngineCreate(d)  BY <1>10 DEF EngineCreate
<1>11. CASE CodecInit(d)  BY <1>11 DEF CodecInit
<1>12. CASE EngineCreated(d)  BY <1>12 DEF EngineCreated
<1>13. CASE EngineRelease(d)  BY <1>13 DEF EngineRelease
<1>14. CASE SbmInit(d)  BY <1>14 DEF SbmInit
<1>15. CASE SetSbm(d)  BY <1>15 DEF SetSbm
<1>16. CASE StartCall(d)  BY <1>16 DEF StartCall
<1>17. CASE DecodeToHardware(d)  BY <1>17 DEF DecodeToHardware
<1>18. CASE DecodeDone(d)  BY <1>18 DEF DecodeDone
<1>19. CASE GetFbm(d)  BY <1>19 DEF GetFbm
<1>20. CASE ReopenFree(d)  BY <1>20 DEF ReopenFree
<1>21. CASE ReopenInit(d)  BY <1>21 DEF ReopenInit
<1>22. CASE Reopened(d)  BY <1>22 DEF Reopened
<1>23. CASE DestroyVideoDecoder(d)  BY <1>23 DEF DestroyVideoDecoder
<1>24. CASE DestroyCodec(d)  BY <1>24 DEF DestroyCodec
<1>25. CASE DestroySbm(d)  BY <1>25 DEF DestroySbm
<1>26. CASE DestroyDone(d)  BY <1>26 DEF DestroyDone
<1>27. CASE MemClose(d)  BY <1>27 DEF MemClose
<1> QED
  BY <1>1, <1>2, <1>3, <1>4, <1>5, <1>6, <1>7, <1>8, <1>9, <1>10, <1>11,
       <1>12, <1>13, <1>14, <1>15, <1>16, <1>17, <1>18, <1>19, <1>20, <1>21,
       <1>22, <1>23, <1>24, <1>25, <1>26, <1>27 DEF Thread, Continue,
       Initialize, Work, Destroy

\* The allocator's count and context, and who has it open.
LEMMA StepAllocator ==
    ASSUME IInv, NEW d \in Decoders, Thread(d)
    PROVE  AllocatorSound'
<1> SUFFICES ASSUME ~OpenFailed'
             PROVE  /\ ReferenceCount' /\ ContextThere'
                    /\ \A e \in Decoders : OpenedAt(e)'
  BY DEF AllocatorSound
<1>1. ~OpenFailed
  BY StepFault DEF OpenFailed
<1>2. /\ ref_cnt = Cardinality(Openers) /\ ContextThere
      /\ \A e \in Decoders : OpenedAt(e)
  BY <1>1 DEF IInv, AllocatorSound, ReferenceCount, Openers
<1>3. ReferenceCount' <=> ref_cnt' = Cardinality(Openers')
  BY DEF ReferenceCount, Openers
<1>4. \A e \in Decoders : opened[e] => ref_cnt > 0 /\ context
  <2>1. \A e \in Decoders : opened[e] => ref_cnt > 0
    <3> SUFFICES ASSUME NEW e \in Decoders, opened[e] PROVE ref_cnt > 0
      OBVIOUS
    <3>1. Openers \in SUBSET Decoders /\ e \in Openers
      BY DEF Openers
    <3>2. Cardinality(Openers) \in Nat \ {0}
      BY <3>1, OneLess
    <3> QED  BY <1>2, <3>2
  <2> QED  BY <1>2, <2>1 DEF ContextThere
<1>5. TypeOK /\ LocksHeld /\ EngineAt(d)
  BY DEF IInv, PointsInv
<1>6. \A e \in Decoders : OpenedAt(e)'
  <2>1. OpenedAt(d)'
    BY <1>2, <1>4, <1>5, StepOpened
  <2>2. ASSUME NEW e \in Decoders, e # d  PROVE OpenedAt(e)'
    BY <1>2, <1>5, <2>2, StepOthers, StepAllocLock DEF OpenedAt
  <2> QED  BY <2>1, <2>2
<1>7. ReferenceCount' /\ ContextThere'
  <2>1. CASE MemOpen(d)
    <3>1. ~opened[d] /\ lock["alloc"] = NoOne
      BY <1>2, <2>1 DEF MemOpen, OpenedAt, At, Take, Free
    <3>2. CASE context
      <4>1. /\ ref_cnt' = ref_cnt + 1 /\ context'
            /\ opened' = [opened EXCEPT ![d] = TRUE] /\ lock' = lock
        BY <2>1, <3>2 DEF MemOpen
      <4>2. Openers' = Openers \cup {d} /\ d \notin Openers
        BY <1>5, <3>1, <4>1 DEF Openers, TypeOK
      <4>3. Cardinality(Openers') = Cardinality(Openers) + 1
        BY <4>2, OneMore DEF Openers
      <4>4. ref_cnt' > 0
        BY <1>5, <4>1 DEF TypeOK
      <4> QED  BY <1>2, <1>3, <3>1, <4>1, <4>3, <4>4 DEF ContextThere
    <3>3. CASE ~context
      <4>1. /\ context' /\ UNCHANGED <<ref_cnt, opened>>
            /\ lock' = [lock EXCEPT !["alloc"] = d]
        BY <2>1, <3>3 DEF MemOpen, Take
      <4>2. ref_cnt = 0
        BY <1>2, <1>5, <3>3 DEF ContextThere, TypeOK
      <4>3. lock'["alloc"] # NoOne
        BY <1>5, <4>1, NoOneAssumption DEF TypeOK, Locks
      <4> QED  BY <1>2, <1>3, <4>1, <4>2, <4>3 DEF ContextThere, Openers
    <3> QED  BY <3>2, <3>3
  <2>2. CASE IonOpen(d)
    <3>1. ~opened[d] /\ lock["alloc"] = d /\ ref_cnt = 0 /\ context
      BY <1>2, <1>5, <2>2, NoOneAssumption
         DEF IonOpen, OpenedAt, At, LocksHeld, ContextThere
    <3>2. /\ ref_cnt' = 1 /\ opened' = [opened EXCEPT ![d] = TRUE]
          /\ UNCHANGED context /\ lock'["alloc"] = NoOne
      BY <1>5, <2>2 DEF IonOpen, Fault, OpenFailed, Drop, TypeOK, Locks
    <3>3. Openers' = Openers \cup {d} /\ d \notin Openers
      BY <1>5, <3>1, <3>2 DEF Openers, TypeOK
    <3>4. Cardinality(Openers') = Cardinality(Openers) + 1
      BY <3>3, OneMore DEF Openers
    <3>5. ref_cnt' = Cardinality(Openers')
      <4>1. ref_cnt = 0 /\ ref_cnt = Cardinality(Openers) /\ ref_cnt' = 1
        BY <1>2, <3>1, <3>2
      <4> QED  BY <3>4, <4>1
    <3>6. ContextThere'
      BY <3>1, <3>2 DEF ContextThere
    <3> QED  BY <1>3, <3>5, <3>6
  <2>3. CASE MemClose(d)
    <3>1. opened[d]
      BY <1>2, <2>3 DEF MemClose, OpenedAt, At
    <3>2. ref_cnt > 0 /\ context /\ ref_cnt \in Nat
      BY <1>4, <1>5, <3>1 DEF TypeOK
    <3>3. /\ ref_cnt' = ref_cnt - 1 /\ lock' = lock
          /\ opened' = [opened EXCEPT ![d] = FALSE]
          /\ lock["alloc"] = NoOne
      BY <2>3, <3>2 DEF MemClose, Free
    <3>4. context' <=> ref_cnt' > 0
      <4>1. context' = (ref_cnt > 1)
        BY <2>3, <3>2, Zenon DEF MemClose
      <4>2. ref_cnt > 1 <=> ref_cnt' > 0
        BY <3>2, <3>3
      <4> QED  BY <4>1, <4>2, Zenon
    <3>5. Openers' = Openers \ {d} /\ d \in Openers
      BY <1>5, <3>1, <3>3 DEF Openers, TypeOK
    <3>6. Cardinality(Openers') = Cardinality(Openers) - 1
      BY <3>5, OneLess DEF Openers
    <3> QED  BY <1>2, <1>3, <3>3, <3>4, <3>6 DEF ContextThere
  <2>4. CASE VeInitFailed(d)
    BY <1>2, <2>4 DEF VeInitFailed, OpenedAt, At
  <2>5. CASE ~MemOpen(d) /\ ~IonOpen(d) /\ ~MemClose(d) /\ ~VeInitFailed(d)
    <3>1. UNCHANGED <<context, ref_cnt, opened, lock["alloc"]>>
      BY <1>5, <2>5, StepAllocSame
    <3> QED  BY <1>2, <1>3, <3>1 DEF ContextThere, Openers
  <2> QED  BY <2>1, <2>2, <2>3, <2>4, <2>5
<1> QED  BY <1>6, <1>7

-----------------------------------------------------------------------------
(* The invariant. *)

\* What the threads hold: the one that steps by the lemmas above, the others
\* as before, but for the list that the last ion_alloc_close empties; then
\* nobody else has the allocator open.
LEMMA StepPoints ==
    ASSUME IInv, NEW d \in Decoders, Thread(d)
    PROVE  PointsInv'
<1> USE DEF IInv, PointsInv
<1>1. ContextAt(d)' /\ EngineAt(d)' /\ BlocksAt(d)' /\ PoolAt(d)'
  BY StepContext, StepEngine, StepBlocks, StepPool
<1>2. ASSUME NEW e \in Decoders, e # d
      PROVE  ContextAt(e)' /\ EngineAt(e)' /\ BlocksAt(e)' /\ PoolAt(e)'
  <2>1. /\ pc'[e] = pc[e] /\ ve'[e] = ve[e] /\ engine'[e] = engine[e]
        /\ memops'[e] = memops[e] /\ opened'[e] = opened[e]
        /\ decoder'[e] = decoder[e] /\ pFbm'[e] = pFbm[e]
    BY <1>2, StepOthers
  <2>2. ContextAt(e)' /\ EngineAt(e)'
    BY <2>1 DEF ContextAt, EngineAt, Own
  <2>3. Has(e)' \subseteq Has(e)
    BY <1>2, StepLists
  <2>4. BlocksAt(e)'
    BY <2>1, <2>3 DEF BlocksAt
  <2>5. ASSUME ~OpenFailed', pc[e] \in Pooled
        PROVE  Has(e)' = Has(e)
    <3>1. ~OpenFailed
      BY <2>5, StepFault DEF OpenFailed
    <3>2. \A x \in Decoders : OpenedAt(x)
      BY <3>1 DEF AllocatorSound
    <3>3. opened[e]
      BY <2>5, <3>2 DEF OpenedAt, Pooled, Working
    <3>4. ASSUME MemClose(d) PROVE ref_cnt > 1
      <4>1. opened[d]
        BY <3>2, <3>4 DEF MemClose, OpenedAt, At
      <4>2. Cardinality(Openers) > 1
        BY <1>2, <3>3, <4>1, TwoAtLeast DEF Openers
      <4> QED  BY <3>1, <4>2 DEF AllocatorSound, ReferenceCount, Openers
    <3> QED  BY <1>2, <3>4, StepLists
  <2>6. PoolAt(e)'
    <3>1. pc[e] = "reopenBad" => fault' = "reopenInit"
      BY StepFault DEF PoolAt
    <3>2. PoolAt(e)
      OBVIOUS
    <3>3. ASSUME pc[e] \in Pooled, pFbm[e] # "null", fault' # "reopenInit"
          PROVE  /\ pFbm[e] = "live"
                 /\ ~OpenFailed' => "frames" \in Has(e)'
      <4>1. fault # "reopenInit"
        BY <3>3, StepFault
      <4>2. pFbm[e] = "live" /\ (~OpenFailed => "frames" \in Has(e))
        BY <3>2, <3>3, <4>1 DEF PoolAt
      <4>3. ~OpenFailed' => ~OpenFailed
        BY StepFault DEF OpenFailed
      <4> QED  BY <2>5, <3>3, <4>2, <4>3
    <3> QED  BY <2>1, <3>1, <3>2, <3>3 DEF PoolAt
  <2> QED  BY <2>2, <2>4, <2>6
<1> QED  BY <1>1, <1>2

\* Before any decoder is made.
LEMMA InitIInv == Init => IInv
<1> SUFFICES ASSUME Init PROVE IInv
  OBVIOUS
<1>1. TypeOK
  BY NoOneAssumption DEF Init, TypeOK, Points, Locks
<1>2. LocksHeld /\ ModeKept
  BY FormatAssumption, NoOneAssumption
     DEF Init, LocksHeld, ModeKept, Section, DecLock, Locks
<1>3. Normals = {} /\ Vp9s = {} /\ Openers = {}
  BY DEF Init, Normals, Vp9s, Openers
<1>4. ContextsCounted
  BY <1>3, FS_EmptySet DEF Init, ContextsCounted, Normals, Vp9s, At
<1>5. PointsInv
  BY DEF Init, PointsInv, ContextAt, EngineAt, BlocksAt, PoolAt, Opening,
         Making, Working, Ending, Section, Bare, Has, Pooled
<1>6. AllocatorSound
  BY <1>3, FS_EmptySet
     DEF Init, AllocatorSound, ReferenceCount, ContextThere, OpenedAt, Openers,
         Making, Working, Ending, Locks
<1> QED  BY <1>1, <1>2, <1>4, <1>5, <1>6 DEF IInv

\* Every step keeps the invariant.
LEMMA NextIInv == IInv /\ [Next]_vars => IInv'
<1> SUFFICES ASSUME IInv, [Next]_vars PROVE IInv'
  OBVIOUS
<1>1. ASSUME Alive, NEW d \in Decoders, Thread(d)  PROVE IInv'
  <2>1. TypeOK' /\ LocksHeld' /\ ModeKept'
    BY <1>1, StepTypes, StepLocks, StepMode DEF IInv
  <2>2. ContextsCounted'
    BY <1>1, StepContexts DEF ContextsCounted
  <2> QED  BY <1>1, <2>1, <2>2, StepPoints, StepAllocator DEF IInv
<1>2. CASE UNCHANGED vars
  BY <1>2
     DEF IInv, TypeOK, LocksHeld, ModeKept, ContextsCounted, PointsInv,
         ContextAt, EngineAt, BlocksAt, PoolAt, AllocatorSound, OpenedAt,
         ContextThere, ReferenceCount, OpenFailed, Has, Alive, At,
         vars, veVars, vp9Vars, memVars, decVars
<1> QED  BY <1>1, <1>2 DEF Next

\* The inductive invariant of any number of decoders.
THEOREM EngineInvariant == Spec => []IInv
<1> QED  BY InitIInv, NextIInv, PTL DEF Spec


-----------------------------------------------------------------------------
(* What follows from it. *)

\* A decoder in its turn holds a context of its engine, so the driver is
\* open; nobody else changes the mode before it gives the lock back.
LEMMA IInvMine == IInv => EngineMine
<1> SUFFICES ASSUME IInv, Alive, NEW d \in Decoders, pc[d] \in Section
             PROVE  /\ lock[DecLock(d)] = d
                    /\ IF Format[d] = "VP9" THEN vp9Fd
                       ELSE veFd /\ mode = Format[d]
  BY DEF EngineMine
<1>1. lock[DecLock(d)] = d
  BY DEF IInv, LocksHeld
<1>2. ve[d] = Own(d) /\ pc[d] # "veFail"
  BY DEF IInv, PointsInv, ContextAt, Section, Making, Working, Ending
<1>3. CASE Format[d] = "VP9"
  <2>1. Vp9s \in SUBSET Decoders /\ d \in Vp9s
    BY <1>2, <1>3 DEF Vp9s, Own, At
  <2>2. Cardinality(Vp9s) \in Nat \ {0}
    BY <2>1, OneLess
  <2>3. gVP9RefCount = Cardinality(Vp9s) /\ (vp9Fd <=> gVP9RefCount > 0)
    BY DEF IInv, ContextsCounted, Vp9s
  <2>4. gVP9RefCount > 0
    BY <2>2, <2>3
  <2> QED  BY <1>1, <1>3, <2>3, <2>4
<1>4. CASE Format[d] # "VP9"
  <2>1. Normals \in SUBSET Decoders /\ d \in Normals
    BY <1>2, <1>4 DEF Normals, Own
  <2>2. Cardinality(Normals) \in Nat \ {0}
    BY <2>1, OneLess
  <2>3. nVeRefCount = Cardinality(Normals) /\ (nVeRefCount > 0 => veFd)
    BY DEF IInv, ContextsCounted, Normals
  <2>4. nVeRefCount > 0
    BY <2>2, <2>3
  <2>5. mode = Format[d]
    BY <1>4 DEF IInv, ModeKept
  <2> QED  BY <1>1, <1>4, <2>3, <2>4, <2>5
<1> QED  BY <1>3, <1>4

\* A decoder with a block is past VideoEngineCreate and not yet through with
\* SbmDestroy: it has the allocator open and its context.
LEMMA IInvMemory == IInv => MemoryThere
<1> SUFFICES ASSUME IInv PROVE MemoryThere
  OBVIOUS
<1> USE DEF IInv, PointsInv
<1>1. BlocksMapped
  <2> SUFFICES ASSUME NEW d \in Decoders, Has(d) \ {"lost"} # {}, ~OpenFailed
               PROVE  context /\ opened[d] /\ ve[d] = Own(d)
    BY DEF BlocksMapped, Own
  <2>1. OpenedAt(d) /\ ReferenceCount /\ ContextThere
    BY DEF AllocatorSound
  <2>2. /\ pc[d] \in Points \ (Bare \cup {"crashed"})
        /\ pc[d] = "failed" => engine[d]
    BY <2>1 DEF BlocksAt, OpenedAt, TypeOK
  <2>3. pc[d] \in {"failed"} \cup Making \cup Working \cup Ending
    BY <2>2 DEF Points, Section, Bare, Opening, Making, Working, Ending
  <2>4. opened[d] /\ ve[d] = Own(d)
    BY <2>1, <2>2, <2>3 DEF OpenedAt, ContextAt
  <2>5. context
    <3>1. Openers \in SUBSET Decoders /\ d \in Openers
      BY <2>4 DEF Openers
    <3>2. Cardinality(Openers) \in Nat \ {0} /\ ref_cnt = Cardinality(Openers)
      BY <2>1, <3>1, OneLess DEF ReferenceCount, Openers
    <3>3. ref_cnt > 0
      BY <3>2
    <3> QED  BY <2>1, <3>3 DEF ContextThere
  <2> QED  BY <2>4, <2>5
<1>2. CodecLive
  BY DEF CodecLive, EngineAt, Section, Working
<1>3. DisplayPoolLive
  BY DEF DisplayPoolLive, PoolAt, Pooled, At
<1>4. LeftEmpty
  BY DEF LeftEmpty, BlocksAt, Bare, At
<1> QED  BY <1>1, <1>2, <1>3, <1>4 DEF MemoryThere

\* EngineMine: the registers a codec writes are those of its own engine, in
\* its own mode and in its own turn, for any number of decoders in any mixture
\* of formats.
THEOREM EngineKeepsTurn == Spec => []EngineMine
<1> QED  BY EngineInvariant, IInvMine, PTL

\* CountsExact: nVeRefCount, gVP9RefCount and ref_cnt are the decoders that
\* hold them, and a driver is open exactly while it is held.
THEOREM CountsStayExact == Spec => []CountsExact
<1>1. IInv => CountsExact
  BY DEF IInv, CountsExact, AllocatorSound, RefCountExact
<1> QED  BY <1>1, EngineInvariant, PTL

\* MemoryThere: no decoder's blocks, codec or pool go while it uses them, and
\* a decoder that comes to close the allocator has left nothing in its list.
THEOREM MemoryStaysThere == Spec => []MemoryThere
<1> QED  BY IInvMemory, EngineInvariant, PTL
=============================================================================
