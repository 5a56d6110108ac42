------------------------- MODULE VideoStreamProofs -------------------------
(***************************************************************************)
(* Proofs about the stream path for rings and fifos of any size: no call   *)
(* of the decoder reaches abort(), and the parser never writes over bytes  *)
(* that are still to be read.                                              *)
(*                                                                         *)
(* The inductive invariant adds GrantOK to the checked properties: what    *)
(* the parser was granted stays what RequestVideoStreamBuffer would grant, *)
(* however many frames the decoder takes and gives back in between.        *)
(***************************************************************************)
EXTENDS VideoStream, SequenceTheorems, TLAPS

\* A grant is the place behind the partial frame, it fits, and there is a
\* slot for the partial frame in case its rest never comes.
GrantOK ==
    /\ pc = "granted" =>
        /\ ppBuf = StartAddr
        /\ pBufSize = FirstBlock(StartAddr, Need)
        /\ pRingBufSize = Need - FirstBlock(StartAddr, Need)
        /\ nValidDataSize + partial.nLength + Need < nStreamBufferSize
        /\ nValidFrameNum < nMaxFrameNum
    /\ pc = "complete" => partial.pData # NULL

\* What the buffer manager itself keeps invariant.
SbmInv == SbmTypeOK /\ PositionsAgree /\ NoAbort /\ StoredLayout

\* The inductive invariant.
IInv == TypeOK /\ PositionsAgree /\ NoAbort /\ RingLayout /\ GrantOK

-----------------------------------------------------------------------------
\* Different stored frames are in different slots, and a slot follows its
\* predecessor: the fifo's positions are arithmetic modulo its size.
LEMMA SlotFacts ==
    ASSUME nFlushPos \in Slots
    PROVE  /\ \A k \in 0 .. nMaxFrameNum : StoredSlot(k) \in Slots
           /\ \A j, k \in 0 .. nMaxFrameNum - 1 :
                StoredSlot(j) = StoredSlot(k) => j = k
           /\ \A k \in 0 .. nMaxFrameNum - 1 :
                NextPos(StoredSlot(k)) = StoredSlot(k + 1)
           /\ \A k \in 1 .. nMaxFrameNum :
                PrevPos(StoredSlot(k)) = StoredSlot(k - 1)
           /\ StoredSlot(0) = nFlushPos
BY SbmAssumption DEF Slots, StoredSlot, NextPos, PrevPos

\* Going on by n bytes from address b adds n to the distance from a.
LEMMA DistanceGrows ==
    ASSUME NEW a \in Addresses, NEW b \in Addresses, NEW n \in Nat,
           Distance(a, b) + n < nStreamBufferSize
    PROVE  /\ WrapAddr(b + n) \in Addresses
           /\ Distance(a, WrapAddr(b + n)) = Distance(a, b) + n
BY SbmAssumption DEF Addresses, Distance, WrapAddr

\* A distance is a number of bytes of the ring.
LEMMA DistanceType ==
    ASSUME NEW a \in Addresses, NEW b \in Addresses
    PROVE  /\ Distance(a, b) \in Nat
           /\ Distance(a, b) < nStreamBufferSize
           /\ Distance(a, a) = 0
BY SbmAssumption DEF Addresses, Distance

\* SbmStreamInit and SbmStreamReset: an empty fifo satisfies everything.
LEMMA EmptyFifo ==
    ASSUME pWriteAddr = 0, nValidDataSize = 0, nValidFrameNum = 0,
           nUnReadFrameNum = 0, nReadPos = 0, nWritePos = 0, nFlushPos = 0,
           held = <<>>
    PROVE  PositionsAgree /\ StoredLayout
<1>1. Len(held) = 0
  BY EmptySeq
<1>2. PositionsAgree
  BY <1>1, SbmAssumption DEF PositionsAgree, StoredSlot
<1>3. StoredLayout
  BY DEF StoredLayout, BytesFrom
<1> QED
  BY <1>2, <1>3

\* How many bytes lie behind a stored frame, as a number.
LEMMA BytesFromType ==
    ASSUME SbmInv
    PROVE  \A k \in 0 .. nValidFrameNum :
             BytesFrom(k) \in Nat /\ BytesFrom(k) <= nValidDataSize
<1> USE DEF SbmInv
<1>1. ASSUME NEW k \in 0 .. nValidFrameNum
      PROVE  BytesFrom(k) \in Nat
  <2>1. CASE k = nValidFrameNum
    BY <2>1 DEF BytesFrom
  <2>2. CASE k # nValidFrameNum
    <3>1. k \in 0 .. nValidFrameNum - 1
      BY <2>2 DEF SbmTypeOK
    <3>2. pFrames[StoredSlot(k)].pData \in Addresses
      BY <3>1 DEF StoredLayout
    <3> QED
      BY <2>2, <3>2, DistanceType DEF BytesFrom, SbmTypeOK
  <2> QED
    BY <2>1, <2>2
<1>2. ASSUME NEW k \in 0 .. nValidFrameNum
      PROVE  BytesFrom(k) <= nValidDataSize
  <2>1. 0 \in 0 .. nValidFrameNum /\ 0 <= k
    BY SbmAssumption DEF SbmTypeOK
  <2> QED
    BY <2>1 DEF StoredLayout
<1> QED
  BY <1>1, <1>2

\* SbmStreamAddStream of a frame that lies at pWriteAddr and fits.
LEMMA AddStreamInv ==
    ASSUME SbmInv, NEW d \in DataInfos, SbmStreamAddStream(d),
           d.pData = pWriteAddr,
           nValidDataSize + d.nLength < nStreamBufferSize
    PROVE  /\ SbmInv'
           /\ \/ UNCHANGED <<pWriteAddr, nValidDataSize>>
              \/ /\ pWriteAddr' = WrapAddr(pWriteAddr + d.nLength)
                 /\ nValidDataSize' = nValidDataSize + d.nLength
<1> USE DEF SbmInv
<1>0. d.nLength \in Nat /\ nStreamBufferSize \in Nat /\ nMaxFrameNum \in Nat
  BY SbmAssumption DEF DataInfos
<1>1. CASE ~SbmStreamCanAdd(d)
  <2>1. UNCHANGED sbmVars
    BY <1>1 DEF SbmStreamAddStream, sbmVars, sbmNums
  <2> QED
    BY <2>1 DEF sbmVars, sbmNums, SbmTypeOK, PositionsAgree, NoAbort,
       StoredLayout, StoredSlot, BytesFrom
<1>2. CASE SbmStreamCanAdd(d)
  <2>1. /\ nValidFrameNum < nMaxFrameNum
        /\ pFrames' = [pFrames EXCEPT ![nWritePos] = d]
        /\ nWritePos' = NextPos(nWritePos)
        /\ nValidFrameNum' = nValidFrameNum + 1
        /\ nUnReadFrameNum' = nUnReadFrameNum + 1
        /\ nValidDataSize' = nValidDataSize + d.nLength
        /\ pWriteAddr' = WrapAddr(pWriteAddr + d.nLength)
        /\ UNCHANGED <<nReadPos, nFlushPos, held, aborted>>
    BY <1>2 DEF SbmStreamAddStream, SbmStreamCanAdd
  <2>2. /\ nWritePos = StoredSlot(nValidFrameNum)
        /\ nValidFrameNum \in 0 .. nMaxFrameNum - 1
        /\ nWritePos' = StoredSlot(nValidFrameNum + 1)
        /\ StoredSlot(nValidFrameNum + 1) \in Slots
    BY <1>0, <2>1, SlotFacts DEF PositionsAgree, SbmTypeOK
  <2>3. \A k : StoredSlot(k)' = StoredSlot(k)
    BY <2>1 DEF StoredSlot
  <2>4. /\ pWriteAddr' \in Addresses
        /\ Distance(pWriteAddr, pWriteAddr') = d.nLength
    <3>1. pWriteAddr \in Addresses /\ Distance(pWriteAddr, pWriteAddr) = 0
      BY DistanceType DEF SbmTypeOK
    <3>2. Distance(pWriteAddr, pWriteAddr) + d.nLength < nStreamBufferSize
      BY <1>0, <3>1 DEF SbmTypeOK
    <3> QED
      BY <1>0, <2>1, <3>1, <3>2, DistanceGrows
  <2>5. SbmTypeOK'
    <3>1. pFrames' \in [Slots -> DataInfos]
      BY <2>1 DEF SbmTypeOK
    <3>2. nValidDataSize' \in 0 .. nStreamBufferSize
      BY <1>0, <2>1 DEF SbmTypeOK
    <3>3. /\ nValidFrameNum' \in 0 .. nMaxFrameNum
          /\ nUnReadFrameNum' \in 0 .. nMaxFrameNum
      BY <1>0, <2>1 DEF SbmTypeOK, PositionsAgree
    <3> QED
      BY <2>1, <2>2, <2>4, <3>1, <3>2, <3>3 DEF SbmTypeOK
  <2>6. PositionsAgree'
    BY <1>0, <2>1, <2>2, <2>3 DEF PositionsAgree, SbmTypeOK
  <2>7. NoAbort'
    BY <2>1 DEF NoAbort
  <2> PICK n \in Nat : n = nValidFrameNum
    BY DEF SbmTypeOK
  <2>8. \A k \in 0 .. n - 1 :
            pFrames'[StoredSlot(k)] = pFrames[StoredSlot(k)]
    BY <1>0, <2>1, <2>2, SlotFacts DEF SbmTypeOK
  <2>9. pFrames'[StoredSlot(n)] = d
    BY <2>1, <2>2 DEF SbmTypeOK
  <2>10. \A k \in 0 .. n :
            BytesFrom(k)' = BytesFrom(k) + d.nLength
    <3>1. ASSUME NEW k \in 0 .. n - 1
          PROVE  BytesFrom(k)' = BytesFrom(k) + d.nLength
      <4>1. /\ BytesFrom(k) = Distance(pFrames[StoredSlot(k)].pData, pWriteAddr)
            /\ pFrames[StoredSlot(k)].pData \in Addresses
            /\ BytesFrom(k) <= nValidDataSize
            /\ BytesFrom(k) \in Nat
        BY <3>1, BytesFromType DEF BytesFrom, StoredLayout, SbmTypeOK
      <4>2. BytesFrom(k)' = Distance(pFrames[StoredSlot(k)].pData, pWriteAddr')
        BY <1>0, <2>1, <2>3, <2>8, <3>1 DEF BytesFrom, SbmTypeOK
      <4>3. BytesFrom(k) + d.nLength < nStreamBufferSize
        BY <1>0, <4>1 DEF SbmTypeOK
      <4> QED
        BY <1>0, <2>1, <4>1, <4>2, <4>3, DistanceGrows DEF SbmTypeOK
    <3>2. BytesFrom(n)' = d.nLength
      BY <2>1, <2>2, <2>3, <2>4, <2>9 DEF BytesFrom, SbmTypeOK
    <3>3. BytesFrom(n) = 0
      BY DEF BytesFrom
    <3> QED
      BY <1>0, <3>1, <3>2, <3>3 DEF SbmTypeOK
  <2>11. BytesFrom(n + 1)' = 0
    BY <2>1 DEF BytesFrom
  <2>12. StoredLayout'
    <3>1. ASSUME NEW k \in 0 .. n
          PROVE  /\ pFrames'[StoredSlot(k)].pData \in Addresses
                 /\ BytesFrom(k)' = pFrames'[StoredSlot(k)].nLength
                                        + BytesFrom(k + 1)'
      <4>1. CASE k \in 0 .. n - 1
        <5>1. k + 1 \in 0 .. n
          BY <4>1 DEF SbmTypeOK
        <5>2. /\ pFrames[StoredSlot(k)].pData \in Addresses
              /\ BytesFrom(k) = pFrames[StoredSlot(k)].nLength
                                    + BytesFrom(k + 1)
          BY <4>1 DEF StoredLayout
        <5>3. pFrames[StoredSlot(k)].nLength \in Nat
          BY <1>0, <4>1, SlotFacts DEF SbmTypeOK, DataInfos
        <5>4. BytesFrom(k + 1) \in Nat
          BY <5>1, BytesFromType
        <5> QED
          BY <1>0, <2>8, <2>10, <4>1, <5>1, <5>2, <5>3, <5>4
      <4>2. CASE k = n
        BY <1>0, <2>9, <2>10, <2>11, <4>2 DEF BytesFrom, SbmTypeOK
      <4> QED
        BY <4>1, <4>2 DEF SbmTypeOK
    <3>2. ASSUME NEW j \in 0 .. n + 1,
                 NEW k \in 0 .. n + 1, j <= k
          PROVE  BytesFrom(k)' <= BytesFrom(j)'
      <4>1. CASE k = n + 1
        <5>1. CASE j = k
          BY <2>11, <4>1, <5>1
        <5>2. CASE j # k
          <6>1. j \in 0 .. n
            BY <4>1, <5>2 DEF SbmTypeOK
          <6> QED
            BY <1>0, <2>10, <2>11, <4>1, <6>1, BytesFromType
        <5> QED
          BY <5>1, <5>2
      <4>2. CASE k # n + 1
        <5>1. j \in 0 .. n /\ k \in 0 .. n
          BY <3>2, <4>2 DEF SbmTypeOK
        <5>2. BytesFrom(k) <= BytesFrom(j)
          BY <3>2, <5>1 DEF StoredLayout
        <5> QED
          BY <1>0, <2>10, <5>1, <5>2, BytesFromType
      <4> QED
        BY <4>1, <4>2
    <3>3. BytesFrom(0)' = nValidDataSize'
      BY <1>0, <2>1, <2>10 DEF StoredLayout, SbmTypeOK
    <3> QED
      BY <2>1, <2>3, <3>1, <3>2, <3>3 DEF StoredLayout, SbmTypeOK
  <2> QED
    BY <2>1, <2>5, <2>6, <2>7, <2>12
<1> QED
  BY <1>1, <1>2

\* StoredLayout speaks of the stored frames only, not of who reads them.
LEMMA SameStored ==
    ASSUME StoredLayout,
           UNCHANGED <<pWriteAddr, nValidDataSize, nValidFrameNum, nFlushPos,
                       pFrames>>
    PROVE  StoredLayout'
BY DEF StoredLayout, BytesFrom, StoredSlot

\* The decoder takes the oldest slot it has not read.
LEMMA RequestStreamInv ==
    ASSUME SbmInv, SbmStreamRequestStream
    PROVE  SbmInv' /\ UNCHANGED <<pWriteAddr, nValidDataSize>>
<1> USE DEF SbmInv
<1>0. nMaxFrameNum \in Nat \ {0}
  BY SbmAssumption
<1>1. /\ nUnReadFrameNum # 0
      /\ held' = Append(held, nReadPos)
      /\ nReadPos' = NextPos(nReadPos)
      /\ nUnReadFrameNum' = nUnReadFrameNum - 1
      /\ UNCHANGED <<pWriteAddr, nValidDataSize, nValidFrameNum, nWritePos,
                     nFlushPos, pFrames, aborted>>
  BY DEF SbmStreamRequestStream
<1> PICK n \in Nat : n = nValidFrameNum - nUnReadFrameNum
  BY DEF SbmTypeOK, PositionsAgree
<1>2. /\ n \in 0 .. nMaxFrameNum - 1
      /\ nReadPos = StoredSlot(n)
      /\ nReadPos' = StoredSlot(n + 1)
      /\ StoredSlot(n + 1) \in Slots
  BY <1>0, <1>1, SlotFacts DEF PositionsAgree, SbmTypeOK
<1>3. /\ held' \in Seq(Slots)
      /\ Len(held) = n
      /\ Len(held') = n + 1
      /\ \A i \in 1 .. n : held'[i] = held[i]
      /\ held'[n + 1] = nReadPos
  <2>1. held \in Seq(Slots) /\ nReadPos \in Slots /\ Len(held) = n
    BY DEF SbmTypeOK, PositionsAgree
  <2> QED
    BY <1>1, <2>1, AppendProperties
<1>4. \A k : StoredSlot(k)' = StoredSlot(k)
  BY <1>1 DEF StoredSlot
<1>5. SbmTypeOK'
  BY <1>0, <1>1, <1>2, <1>3 DEF SbmTypeOK
<1>6. PositionsAgree'
  <2>1. n + 1 = nValidFrameNum' - nUnReadFrameNum'
    BY <1>1 DEF SbmTypeOK
  <2>2. \A i \in 1 .. n + 1 : held'[i] = StoredSlot(i - 1)
    BY <1>2, <1>3 DEF PositionsAgree
  <2>3. /\ nUnReadFrameNum' <= nValidFrameNum'
        /\ nWritePos' = StoredSlot(nValidFrameNum)
    BY <1>1 DEF PositionsAgree, SbmTypeOK
  <2>4. nReadPos' = StoredSlot(nValidFrameNum' - nUnReadFrameNum')
    BY <1>2, <2>1
  <2> QED
    BY <1>1, <1>3, <1>4, <2>1, <2>2, <2>3, <2>4 DEF PositionsAgree
<1>7. NoAbort'
  BY <1>1 DEF NoAbort
<1> QED
  BY <1>1, <1>5, <1>6, <1>7, SameStored

\* The decoder puts back the slot it took last: it is the one before
\* nReadPos.
LEMMA ReturnStreamInv ==
    ASSUME SbmInv, SbmStreamReturnStream
    PROVE  SbmInv' /\ UNCHANGED <<pWriteAddr, nValidDataSize>>
<1> USE DEF SbmInv
<1>0. nMaxFrameNum \in Nat \ {0}
  BY SbmAssumption
<1> PICK n \in Nat : n = nValidFrameNum - nUnReadFrameNum
  BY DEF SbmTypeOK, PositionsAgree
<1>1. /\ held # <<>>
      /\ Len(held) = n
      /\ n \in 1 .. nMaxFrameNum
      /\ nValidFrameNum # 0
  <2>1. held # <<>> /\ held \in Seq(Slots)
    BY DEF SbmStreamReturnStream, SbmTypeOK
  <2>2. Len(held) # 0
    BY <2>1, EmptySeq
  <2> QED
    BY <1>0, <2>1, <2>2 DEF PositionsAgree, SbmTypeOK
<1>2. /\ held[n] = StoredSlot(n - 1)
      /\ PrevPos(nReadPos) = StoredSlot(n - 1)
      /\ StoredSlot(n - 1) \in Slots
  BY <1>0, <1>1, SlotFacts DEF PositionsAgree, SbmTypeOK
<1>3. /\ held' = SubSeq(held, 1, n - 1)
      /\ nUnReadFrameNum' = nUnReadFrameNum + 1
      /\ nReadPos' = StoredSlot(n - 1)
      /\ UNCHANGED <<pWriteAddr, nValidDataSize, nValidFrameNum, nWritePos,
                     nFlushPos, pFrames, aborted>>
  BY <1>1, <1>2 DEF SbmStreamReturnStream
<1>4. /\ held' \in Seq(Slots)
      /\ Len(held') = n - 1
      /\ \A i \in 1 .. n - 1 : held'[i] = held[i]
  BY <1>1, <1>3, SubSeqProperties DEF SbmTypeOK
<1>5. \A k : StoredSlot(k)' = StoredSlot(k)
  BY <1>3 DEF StoredSlot
<1>6. SbmTypeOK'
  BY <1>0, <1>1, <1>2, <1>3, <1>4 DEF SbmTypeOK, PositionsAgree
<1>7. PositionsAgree'
  <2>1. n - 1 = nValidFrameNum' - nUnReadFrameNum'
    BY <1>3 DEF SbmTypeOK
  <2>2. \A i \in 1 .. n - 1 : held'[i] = StoredSlot(i - 1)
    BY <1>1, <1>4 DEF PositionsAgree
  <2>3. /\ nUnReadFrameNum' <= nValidFrameNum'
        /\ nWritePos' = StoredSlot(nValidFrameNum)
    BY <1>1, <1>3 DEF PositionsAgree, SbmTypeOK
  <2>4. nReadPos' = StoredSlot(nValidFrameNum' - nUnReadFrameNum')
    BY <1>3, <2>1
  <2> QED
    BY <1>3, <1>4, <1>5, <2>1, <2>2, <2>3, <2>4 DEF PositionsAgree
<1>8. NoAbort'
  BY <1>3 DEF NoAbort
<1> QED
  BY <1>3, <1>6, <1>7, <1>8, SameStored

\* The decoder gives back the slot it has had longest: the oldest one.
LEMMA FlushStreamInv ==
    ASSUME SbmInv, SbmStreamFlushStream
    PROVE  /\ SbmInv'
           /\ nValidDataSize' <= nValidDataSize
           /\ UNCHANGED pWriteAddr
<1> USE DEF SbmInv
<1>0. nMaxFrameNum \in Nat \ {0}
  BY SbmAssumption
<1> PICK n \in Nat : n = nValidFrameNum - nUnReadFrameNum
  BY DEF SbmTypeOK, PositionsAgree
<1> PICK v \in Nat : v = nValidFrameNum
  BY DEF SbmTypeOK
<1>1. /\ held # <<>>
      /\ Len(held) = n
      /\ n \in 1 .. nMaxFrameNum
      /\ v \in 1 .. nMaxFrameNum
  <2>1. held # <<>> /\ held \in Seq(Slots)
    BY DEF SbmStreamFlushStream, SbmTypeOK
  <2>2. Len(held) # 0
    BY <2>1, EmptySeq
  <2> QED
    BY <1>0, <2>1, <2>2 DEF PositionsAgree, SbmTypeOK
<1>2. /\ Head(held) = nFlushPos
      /\ Tail(held) \in Seq(Slots)
      /\ Len(Tail(held)) = n - 1
      /\ \A i \in 1 .. n - 1 : Tail(held)[i] = held[i + 1]
  BY <1>0, <1>1, HeadTailProperties, SlotFacts DEF PositionsAgree, SbmTypeOK
<1>3. /\ held' = Tail(held)
      /\ nFlushPos' = NextPos(nFlushPos)
      /\ nValidFrameNum' = nValidFrameNum - 1
      /\ nValidDataSize' = nValidDataSize - pFrames[nFlushPos].nLength
      /\ UNCHANGED <<pWriteAddr, nUnReadFrameNum, nReadPos, nWritePos,
                     pFrames, aborted>>
  BY <1>1, <1>2 DEF SbmStreamFlushStream, DataSizeWithout
<1>4. /\ nFlushPos' \in Slots
      /\ \A k \in 0 .. nMaxFrameNum - 1 : StoredSlot(k)' = StoredSlot(k + 1)
  BY <1>0, <1>3 DEF SbmTypeOK, Slots, StoredSlot, NextPos
<1>5. \A k \in 0 .. v - 1 : BytesFrom(k)' = BytesFrom(k + 1)
  BY <1>0, <1>1, <1>3, <1>4 DEF BytesFrom
<1>6. /\ BytesFrom(1) = nValidDataSize'
      /\ nValidDataSize' \in Nat
      /\ nValidDataSize' <= nValidDataSize
  <2>1. /\ 0 \in 0 .. nValidFrameNum - 1
        /\ 1 \in 0 .. nValidFrameNum
    BY <1>1
  <2>2. /\ BytesFrom(0) = pFrames[nFlushPos].nLength + BytesFrom(1)
        /\ BytesFrom(0) = nValidDataSize
    BY <2>1, SlotFacts DEF StoredLayout, SbmTypeOK
  <2>3. BytesFrom(1) \in Nat /\ BytesFrom(1) <= nValidDataSize
    BY <2>1, BytesFromType
  <2>4. pFrames[nFlushPos].nLength \in Nat
    BY DEF SbmTypeOK, DataInfos
  <2> QED
    BY <1>3, <2>2, <2>3, <2>4 DEF SbmTypeOK
<1>7. SbmTypeOK'
  BY <1>0, <1>1, <1>2, <1>3, <1>4, <1>6, SbmAssumption DEF SbmTypeOK
<1>8. PositionsAgree'
  <2>1. n - 1 = nValidFrameNum' - nUnReadFrameNum'
    BY <1>3 DEF SbmTypeOK
  <2>2. \A i \in 1 .. n - 1 : held'[i] = StoredSlot(i - 1)'
    BY <1>0, <1>1, <1>2, <1>3, <1>4 DEF PositionsAgree
  <2>3. /\ StoredSlot(n - 1)' = StoredSlot(n)
        /\ StoredSlot(v - 1)' = StoredSlot(v)
    BY <1>0, <1>1, <1>4
  <2>4. /\ nReadPos' = StoredSlot(n - 1)'
        /\ nWritePos' = StoredSlot(v - 1)'
        /\ nUnReadFrameNum' <= nValidFrameNum'
        /\ nValidFrameNum' <= nMaxFrameNum
    BY <1>0, <1>1, <1>3, <2>3 DEF PositionsAgree, SbmTypeOK
  <2> QED
    BY <1>2, <1>3, <2>1, <2>2, <2>4 DEF PositionsAgree
<1>9. NoAbort'
  BY <1>3 DEF NoAbort
<1>10. StoredLayout'
  <2>1. ASSUME NEW k \in 0 .. v - 2
        PROVE  /\ pFrames[StoredSlot(k)'].pData \in Addresses
               /\ BytesFrom(k)' = pFrames[StoredSlot(k)'].nLength
                                      + BytesFrom(k + 1)'
    <3>1. /\ k + 1 \in 0 .. nValidFrameNum - 1
          /\ k \in 0 .. v - 1
          /\ k + 1 \in 0 .. v - 1
          /\ k \in 0 .. nMaxFrameNum - 1
          /\ k + 1 + 1 = k + 2
      BY <1>0, <1>1, <2>1
    <3>2. /\ pFrames[StoredSlot(k + 1)].pData \in Addresses
          /\ BytesFrom(k + 1) = pFrames[StoredSlot(k + 1)].nLength
                                    + BytesFrom(k + 1 + 1)
      BY <3>1 DEF StoredLayout
    <3> QED
      BY <1>4, <1>5, <3>1, <3>2
  <2>2. ASSUME NEW j \in 0 .. v - 1, NEW k \in 0 .. v - 1, j <= k
        PROVE  BytesFrom(k)' <= BytesFrom(j)'
    <3>1. /\ j + 1 \in 0 .. nValidFrameNum
          /\ k + 1 \in 0 .. nValidFrameNum
          /\ j + 1 <= k + 1
      BY <1>1, <2>2
    <3> QED
      BY <1>5, <2>2, <3>1 DEF StoredLayout
  <2>3. BytesFrom(0)' = nValidDataSize'
    BY <1>1, <1>5, <1>6
  <2>4. nValidFrameNum' = v - 1 /\ nValidFrameNum' - 1 = v - 2
    BY <1>1, <1>3
  <2> QED
    BY <1>3, <2>1, <2>2, <2>3, <2>4 DEF StoredLayout
<1> QED
  BY <1>3, <1>6, <1>7, <1>8, <1>9, <1>10

-----------------------------------------------------------------------------
\* What a request is for is a positive number of bytes.
LEMMA NeedType == ASSUME TypeOK PROVE Need \in Nat \ {0}
BY VideoStreamAssumption DEF TypeOK, Need

\* A new decoder satisfies the invariant.
LEMMA InitIInv == ASSUME Init PROVE IInv
<1>1. PositionsAgree /\ StoredLayout
  BY EmptyFifo DEF Init, SbmStreamInit
<1>2. SbmTypeOK
  <2>1. pFrames \in [Slots -> DataInfos]
    BY DEF Init, SbmStreamInit, DataInfos
  <2>2. held \in Seq(Slots)
    BY EmptySeq DEF Init, SbmStreamInit
  <2>3. aborted \in BOOLEAN
    BY Zenon DEF Init, SbmStreamInit
  <2> QED
    BY <2>1, <2>2, <2>3, SbmAssumption
       DEF Init, SbmStreamInit, SbmTypeOK, Addresses, Slots
<1>3. TypeOK
  BY <1>2, SbmAssumption DEF Init, TypeOK, NoPartial, DataInfos
<1>4. PartialBehind
  BY SbmAssumption DEF Init, SbmStreamInit, PartialBehind, NoPartial
<1>5. NoAbort /\ GrantOK
  BY DEF Init, SbmStreamInit, NoAbort, GrantOK
<1> QED
  BY <1>1, <1>3, <1>4, <1>5 DEF IInv, RingLayout

\* The parser asks; nothing else changes.
LEMMA AskIInv == ASSUME IInv, NEW n \in Sizes, Ask(n) PROVE IInv'
<1> USE DEF Ask, sbmVars, sbmNums, grant
<1>1. TypeOK'
  BY DEF IInv, TypeOK, SbmTypeOK
<1>2. PositionsAgree' /\ NoAbort'
  BY DEF IInv, PositionsAgree, StoredSlot, NoAbort
<1>3. RingLayout'
  BY SameStored DEF IInv, RingLayout, PartialBehind
<1>4. GrantOK'
  BY DEF GrantOK
<1> QED
  BY <1>1, <1>2, <1>3, <1>4 DEF IInv

\* A grant starts behind the partial frame and leaves a margin.
LEMMA RequestBufferIInv ==
    ASSUME IInv, RequestVideoStreamBuffer PROVE IInv'
<1>0. /\ Need \in Nat \ {0}
      /\ partial.nLength \in Nat
      /\ nValidDataSize \in Nat
      /\ pWriteAddr \in Addresses
  BY NeedType DEF IInv, TypeOK, SbmTypeOK, DataInfos
<1>1. /\ nValidDataSize + partial.nLength + Need < nStreamBufferSize
      /\ StartAddr \in Addresses
      /\ FirstBlock(StartAddr, Need) \in 0 .. nStreamBufferSize
      /\ Need - FirstBlock(StartAddr, Need) \in 0 .. nStreamBufferSize
  BY <1>0, SbmAssumption DEF RequestVideoStreamBuffer, SbmStreamCanRequest,
     StartAddr, WrapAddr, Addresses, FirstBlock
<1>2. /\ StartAddr' = StartAddr
      /\ Need' = Need
      /\ FirstBlock(StartAddr, Need)' = FirstBlock(StartAddr, Need)
  BY DEF RequestVideoStreamBuffer, StartAddr, Need, sbmVars, sbmNums,
     FirstBlock
<1>3. TypeOK'
  BY <1>1 DEF IInv, TypeOK, SbmTypeOK, RequestVideoStreamBuffer, sbmVars,
     sbmNums
<1>4. PositionsAgree' /\ NoAbort'
  BY DEF RequestVideoStreamBuffer, sbmVars, sbmNums, IInv, PositionsAgree,
     StoredSlot, NoAbort
<1>5. RingLayout'
  BY SameStored DEF RequestVideoStreamBuffer, sbmVars, sbmNums, IInv,
     RingLayout, PartialBehind
<1>6. GrantOK'
  BY <1>1, <1>2 DEF GrantOK, RequestVideoStreamBuffer, SbmStreamCanRequest,
     sbmVars, sbmNums
<1> QED
  BY <1>3, <1>4, <1>5, <1>6 DEF IInv

\* What was submitted is no more than what was granted.
LEMMA GrantedSize ==
    ASSUME IInv, pc = "granted"
    PROVE  /\ pBufSize + pRingBufSize = Need
           /\ ppBuf = StartAddr
           /\ ppBuf \in Addresses
           /\ nValidDataSize + partial.nLength + Need < nStreamBufferSize
           /\ partial.nLength \in Nat
           /\ nValidDataSize \in Nat
           /\ Need \in Nat
           /\ nStreamBufferSize \in Nat
           /\ nValidFrameNum < nMaxFrameNum
<1>1. /\ partial.nLength \in Nat
      /\ nValidDataSize \in Nat
      /\ pWriteAddr \in Addresses
      /\ Need \in Nat
      /\ nStreamBufferSize \in Nat
  BY NeedType, SbmAssumption DEF IInv, TypeOK, SbmTypeOK, DataInfos
<1>2. /\ ppBuf = StartAddr
      /\ pBufSize = FirstBlock(StartAddr, Need)
      /\ pRingBufSize = Need - FirstBlock(StartAddr, Need)
      /\ nValidDataSize + partial.nLength + Need < nStreamBufferSize
      /\ nValidFrameNum < nMaxFrameNum
  BY DEF IInv, GrantOK
<1>3. StartAddr \in Addresses
  BY <1>1, <1>2 DEF StartAddr, WrapAddr, Addresses
<1>4. FirstBlock(StartAddr, Need) \in Int
  BY <1>1, <1>3 DEF FirstBlock, Addresses
<1> QED
  BY <1>1, <1>2, <1>3, <1>4

\* A first part becomes the partial frame; it starts at pWriteAddr, whether
\* or not a frame before it had to be added.
LEMMA SubmitFirstIInv ==
    ASSUME IInv, NEW n \in Nat, NEW t \in Pts \cup {NoPts},
           NEW last \in BOOLEAN, SubmitVideoStreamData(n, t, TRUE, last)
    PROVE  IInv'
<1>1. /\ pc = "granted"
      /\ n <= pBufSize + pRingBufSize
      /\ SubmitFirstPart(n, t)
      /\ pc' = IF last THEN "complete" ELSE "idle"
      /\ ppBuf' = NULL /\ pBufSize' = 0 /\ pRingBufSize' = 0
      /\ want' = 0
  BY DEF SubmitVideoStreamData
<1>2. partial' = [pData |-> ppBuf, nLength |-> n, nPts |-> t]
  BY <1>1 DEF SubmitFirstPart
<1>3. SbmInv
  BY DEF IInv, SbmInv, TypeOK, RingLayout
<1>4. /\ SbmInv'
      /\ pWriteAddr' = ppBuf
      /\ nValidDataSize' + n < nStreamBufferSize
  <2>1. CASE partial.nLength = 0
    <3>1. UNCHANGED sbmVars
      BY <1>1, <2>1 DEF SubmitFirstPart
    <3>2. SbmInv'
      BY <1>3, <3>1 DEF sbmVars, sbmNums, SbmInv, SbmTypeOK, PositionsAgree,
         NoAbort, StoredLayout, StoredSlot, BytesFrom
    <3>3. ppBuf = pWriteAddr
      BY <1>1, <2>1, GrantedSize, SMTT(30)
         DEF StartAddr, WrapAddr, IInv, TypeOK,
         SbmTypeOK, Addresses
    <3> QED
      BY <1>1, <2>1, <3>1, <3>2, <3>3, GrantedSize DEF sbmVars, sbmNums
  <2>2. CASE partial.nLength # 0
    <3>1. /\ SbmStreamAddStream(partial)
          /\ partial \in DataInfos
          /\ partial.pData = pWriteAddr
          /\ nValidDataSize + partial.nLength < nStreamBufferSize
      BY <1>1, <2>2 DEF SubmitFirstPart, IInv, TypeOK, RingLayout,
         PartialBehind
    <3>2. SbmInv'
      BY <1>3, <3>1, AddStreamInv
    <3>3. SbmStreamCanAdd(partial)
      <4>1. partial.pData # NULL
        BY <3>1 DEF NULL, IInv, TypeOK, SbmTypeOK, Addresses
      <4> QED
        BY <1>1, <3>1, <4>1, GrantedSize DEF SbmStreamCanAdd
    <3>4. /\ pWriteAddr' = WrapAddr(pWriteAddr + partial.nLength)
          /\ nValidDataSize' = nValidDataSize + partial.nLength
      BY <3>1, <3>3 DEF SbmStreamAddStream
    <3> QED
      BY <1>1, <3>2, <3>4, GrantedSize DEF StartAddr
  <2> QED
    BY <2>1, <2>2
<1>5. /\ ppBuf \in Addresses
      /\ ppBuf # NULL
  BY <1>1, GrantedSize DEF Addresses, NULL
<1>6. TypeOK'
  <2>1. partial' \in DataInfos
    BY <1>2, <1>5 DEF DataInfos
  <2>2. pc' \in {"idle", "asking", "granted", "complete"}
    BY <1>1
  <2> QED
    BY <1>1, <1>4, <2>1, <2>2, SbmAssumption DEF TypeOK, SbmInv
<1>7. PartialBehind'
  BY <1>2, <1>4, <1>5 DEF PartialBehind
<1>8. GrantOK'
  BY <1>1, <1>2, <1>5 DEF GrantOK
<1> QED
  BY <1>4, <1>6, <1>7, <1>8 DEF IInv, SbmInv, RingLayout

\* A part that continues the frame makes the partial frame longer.
LEMMA SubmitNextIInv ==
    ASSUME IInv, NEW n \in Nat, NEW t \in Pts \cup {NoPts},
           NEW last \in BOOLEAN, SubmitVideoStreamData(n, t, FALSE, last)
    PROVE  IInv'
<1>1. /\ pc = "granted"
      /\ n <= pBufSize + pRingBufSize
      /\ SubmitNextPart(n, t)
      /\ pc' = IF last THEN "complete" ELSE "idle"
      /\ ppBuf' = NULL /\ pBufSize' = 0 /\ pRingBufSize' = 0
      /\ want' = 0
  BY DEF SubmitVideoStreamData
<1>2. /\ partial \in DataInfos
      /\ partial.pData # NULL
      /\ partial.pData = pWriteAddr
      /\ UNCHANGED sbmVars
  BY <1>1 DEF SubmitNextPart, IInv, TypeOK, RingLayout, PartialBehind
<1>3. /\ partial' \in DataInfos
      /\ partial'.pData = partial.pData
      /\ partial'.nLength = partial.nLength + n
  <2> DEFINE p == IF partial.nPts = NoPts /\ t # NoPts THEN t ELSE partial.nPts
  <2>1. p \in Pts \cup {NoPts, 0}
    BY <1>2 DEF DataInfos
  <2>2. partial' = [pData |-> partial.pData, nLength |-> partial.nLength + n,
                    nPts |-> p]
    BY <1>1, <1>2 DEF SubmitNextPart, DataInfos
  <2>3. /\ partial.nLength + n \in Nat
        /\ partial.pData \in Addresses \cup {NULL}
    BY <1>2 DEF DataInfos
  <2> HIDE DEF p
  <2> QED
    BY <2>1, <2>2, <2>3 DEF DataInfos
<1>4. TypeOK'
  BY <1>1, <1>2, <1>3, SbmAssumption
     DEF IInv, TypeOK, SbmTypeOK, sbmVars, sbmNums
<1>5. PositionsAgree' /\ NoAbort'
  BY <1>2 DEF sbmVars, sbmNums, IInv, PositionsAgree, StoredSlot, NoAbort
<1>6. StoredLayout'
  BY <1>2, SameStored DEF sbmVars, sbmNums, IInv, RingLayout
<1>7. PartialBehind'
  BY <1>1, <1>2, <1>3, GrantedSize DEF sbmVars, sbmNums, PartialBehind
<1>8. GrantOK'
  BY <1>1, <1>2, <1>3 DEF GrantOK
<1> QED
  BY <1>4, <1>5, <1>6, <1>7, <1>8 DEF IInv, RingLayout

\* A complete frame is added, or dropped for want of a slot.
LEMMA SubmitCompleteIInv == ASSUME IInv, SubmitComplete PROVE IInv'
<1>1. /\ pc = "complete"
      /\ SbmStreamAddStream(partial)
      /\ partial' = NoPartial
      /\ pc' = "idle"
      /\ UNCHANGED <<want, grant>>
  BY DEF SubmitComplete, AfterSubmit
<1>2. /\ partial \in DataInfos
      /\ partial.pData = pWriteAddr
      /\ nValidDataSize + partial.nLength < nStreamBufferSize
  BY <1>1 DEF IInv, TypeOK, GrantOK, RingLayout, PartialBehind
<1>3. SbmInv
  BY DEF IInv, SbmInv, TypeOK, RingLayout
<1>4. /\ SbmInv'
      /\ \/ nValidDataSize' = nValidDataSize
         \/ nValidDataSize' = nValidDataSize + partial.nLength
  BY <1>1, <1>2, <1>3, AddStreamInv
<1>5. TypeOK'
  BY <1>1, <1>4, SbmAssumption
     DEF IInv, TypeOK, SbmInv, NoPartial, DataInfos, grant
<1>6. PartialBehind'
  <2>1. partial.nLength \in Nat /\ nValidDataSize \in Nat
    BY <1>2 DEF DataInfos, IInv, TypeOK, SbmTypeOK
  <2> QED
    BY <1>1, <1>2, <1>4, <2>1, SbmAssumption DEF PartialBehind, NoPartial
<1>7. GrantOK'
  BY <1>1 DEF GrantOK
<1> QED
  BY <1>4, <1>5, <1>6, <1>7 DEF IInv, SbmInv, RingLayout

\* The decoder makes the stored frames fewer, never more, and moves no
\* byte: the partial frame and the grant stay where they are.
LEMMA DecoderIInv == ASSUME IInv, Decoder PROVE IInv'
<1>1. UNCHANGED <<partial, pc, want, grant>>
  BY DEF Decoder
<1>2. SbmInv
  BY DEF IInv, SbmInv, TypeOK, RingLayout
<1>3. /\ SbmInv'
      /\ nValidDataSize' <= nValidDataSize
      /\ pWriteAddr' = pWriteAddr
  <2>1. CASE SbmStreamRequestStream
    BY <1>2, <2>1, RequestStreamInv DEF SbmInv, SbmTypeOK
  <2>2. CASE SbmStreamReturnStream
    BY <1>2, <2>2, ReturnStreamInv DEF SbmInv, SbmTypeOK
  <2>3. CASE SbmStreamFlushStream
    BY <1>2, <2>3, FlushStreamInv
  <2> QED
    BY <2>1, <2>2, <2>3 DEF Decoder
<1>4. nValidFrameNum' <= nValidFrameNum
  BY DEF Decoder, SbmStreamRequestStream, SbmStreamReturnStream,
     SbmStreamFlushStream, IInv, TypeOK, SbmTypeOK
<1>5. TypeOK'
  BY <1>1, <1>3 DEF IInv, TypeOK, SbmInv, grant
<1>6. /\ nValidDataSize \in Nat /\ nValidDataSize' \in Nat
      /\ nValidFrameNum \in Nat /\ nValidFrameNum' \in Nat
      /\ nStreamBufferSize \in Nat /\ nMaxFrameNum \in Nat
      /\ partial.nLength \in Nat
  BY <1>5, SbmAssumption DEF IInv, TypeOK, SbmTypeOK, DataInfos
<1>7. PartialBehind'
  BY <1>1, <1>3, <1>6 DEF IInv, RingLayout, PartialBehind
<1>8. GrantOK'
  <2>1. StartAddr' = StartAddr /\ Need' = Need
    BY <1>1, <1>3 DEF StartAddr, Need
  <2>2. FirstBlock(StartAddr, Need)' = FirstBlock(StartAddr, Need)
    BY <2>1 DEF FirstBlock
  <2>3. Need \in Nat
    BY NeedType DEF IInv
  <2> QED
    BY <1>1, <1>3, <1>4, <1>6, <2>1, <2>2, <2>3 DEF IInv, GrantOK, grant
<1> QED
  BY <1>3, <1>5, <1>7, <1>8 DEF IInv, SbmInv, RingLayout

\* A reset starts again from an empty fifo; the decoder's flush of what it
\* held cannot abort.
LEMMA ResetIInv == ASSUME IInv, ResetVideoDecoder PROVE IInv'
<1>1. held # <<>> => Head(held) = nFlushPos
  <2> SUFFICES ASSUME held # <<>> PROVE Head(held) = nFlushPos
    OBVIOUS
  <2>1. held \in Seq(Slots) /\ Len(held) # 0 /\ Len(held) \in Nat
    BY EmptySeq, LenProperties DEF IInv, TypeOK, SbmTypeOK
  <2> QED
    BY <2>1, HeadTailProperties, SlotFacts
       DEF IInv, PositionsAgree, TypeOK, SbmTypeOK
<1>2. NoAbort'
  BY <1>1 DEF ResetVideoDecoder, IInv, NoAbort
<1>3. (PositionsAgree /\ StoredLayout)'
  BY EmptyFifo, SbmAssumption DEF ResetVideoDecoder, SbmStreamReset,
     PositionsAgree, StoredLayout, StoredSlot, BytesFrom
<1>4. TypeOK'
  <2>1. held' \in Seq(Slots)
    BY EmptySeq DEF ResetVideoDecoder
  <2>2. aborted' \in BOOLEAN
    BY <1>2, Zenon DEF NoAbort, ResetVideoDecoder, IInv, TypeOK, SbmTypeOK
  <2>3. partial' = [pData |-> NULL, nLength |-> 0, nPts |-> 0]
    BY DEF ResetVideoDecoder, NoPartial
  <2>4. partial' \in DataInfos
    BY <2>3 DEF DataInfos
  <2>5. SbmTypeOK'
    <3>1. /\ SbmStreamReset /\ SbmTypeOK
      BY DEF ResetVideoDecoder, IInv, TypeOK
    <3> QED
      BY <2>1, <2>2, <3>1, SbmAssumption
         DEF SbmStreamReset, SbmTypeOK, Addresses, Slots
  <2> QED
    BY <2>4, <2>5 DEF ResetVideoDecoder, IInv, TypeOK, grant
<1>5. PartialBehind' /\ GrantOK'
  BY SbmAssumption DEF ResetVideoDecoder, SbmStreamReset, PartialBehind,
     GrantOK, NoPartial
<1> QED
  BY <1>2, <1>3, <1>4, <1>5 DEF IInv, RingLayout

\* Every step keeps the invariant.
LEMMA NextIInv == ASSUME IInv, [Next]_vars PROVE IInv'
<1>1. CASE Parser
  <2>1. ASSUME NEW n \in 0 .. nStreamBufferSize, NEW t \in Pts \cup {NoPts},
               NEW first \in BOOLEAN, NEW last \in BOOLEAN,
               SubmitVideoStreamData(n, t, first, last)
        PROVE  IInv'
    <3>1. n \in Nat
      BY SbmAssumption
    <3>2. CASE first = TRUE
      BY <2>1, <3>1, <3>2, SubmitFirstIInv
    <3>3. CASE first = FALSE
      BY <2>1, <3>1, <3>3, SubmitNextIInv
    <3> QED
      BY <3>2, <3>3
  <2> QED
    BY <1>1, <2>1, AskIInv, RequestBufferIInv, SubmitCompleteIInv DEF Parser
<1>2. CASE Decoder
  BY <1>2, DecoderIInv
<1>3. CASE ResetVideoDecoder
  BY <1>3, ResetIInv
<1>4. CASE UNCHANGED vars
  <2>1. UNCHANGED <<sbmVars, partial, pc, want, grant>>
    BY <1>4 DEF vars
  <2>2. TypeOK'
    BY <2>1 DEF IInv, TypeOK, SbmTypeOK, sbmVars, sbmNums, grant
  <2>3. PositionsAgree' /\ NoAbort'
    BY <2>1 DEF sbmVars, sbmNums, IInv, PositionsAgree, StoredSlot, NoAbort
  <2>4. RingLayout'
    BY <2>1, SameStored DEF sbmVars, sbmNums, IInv, RingLayout, PartialBehind
  <2>5. GrantOK'
    BY <2>1 DEF IInv, GrantOK, sbmVars, sbmNums, grant, StartAddr, WrapAddr,
       Need, FirstBlock
  <2> QED
    BY <2>2, <2>3, <2>4, <2>5 DEF IInv
<1> QED
  BY <1>1, <1>2, <1>3, <1>4 DEF Next

\* The inductive invariant holds in every reachable state.
THEOREM StreamInvariant == Spec => []IInv
<1>1. Init => IInv
  BY InitIInv
<1>2. IInv /\ [Next]_vars => IInv'
  BY NextIInv
<1> QED
  BY <1>1, <1>2, PTL DEF Spec

-----------------------------------------------------------------------------
\* Every variable keeps its type: no position leaves the fifo, no address
\* the ring, no counter goes below zero.
THEOREM StreamTypeOK == Spec => []TypeOK
BY StreamInvariant, PTL DEF IInv

\* The fifo's positions and counters describe one queue, and the decoder
\* holds its oldest slots in order.
THEOREM StreamPositions == Spec => []PositionsAgree
BY StreamInvariant, PTL DEF IInv

\* No call of the decoder reaches abort().
THEOREM StreamNoAbort == Spec => []NoAbort
BY StreamInvariant, PTL DEF IInv

\* The stored frames lie one after the other in the ring.
THEOREM StreamRingLayout == Spec => []RingLayout
BY StreamInvariant, PTL DEF IInv

\* A frame is dropped only for want of a slot.
THEOREM StreamDrops == Spec => []DroppedOnlyWithoutSlot
<1>1. IInv => DroppedOnlyWithoutSlot
  BY SbmAssumption DEF IInv, DroppedOnlyWithoutSlot, SbmStreamCanAdd, GrantOK,
     RingLayout, PartialBehind, TypeOK, SbmTypeOK, DataInfos
<1> QED
  BY <1>1, StreamInvariant, PTL

\* A byte i of a frame that ends before w lies n bytes before w, hence at
\* least as far after w as the rest of the ring is long.
LEMMA ByteBefore ==
    ASSUME NEW a \in Addresses, NEW w \in Addresses, NEW i \in Nat,
           i < Distance(a, w)
    PROVE  /\ WrapAddr(a + i) \in Addresses
           /\ Distance(w, WrapAddr(a + i)) =
                  nStreamBufferSize - (Distance(a, w) - i)
BY SbmAssumption DEF Addresses, Distance, WrapAddr

\* A byte of the parser's grant lies at least m bytes and less than m + n
\* bytes after w.
LEMMA ByteAfter ==
    ASSUME NEW w \in Addresses, NEW m \in Nat, NEW n \in Nat,
           m + n < nStreamBufferSize,
           NEW s, s = WrapAddr(w + m),
           NEW b \in {s + i : i \in 0 .. FirstBlock(s, n) - 1}
                         \cup (0 .. n - FirstBlock(s, n) - 1)
    PROVE  /\ b \in Addresses
           /\ Distance(w, b) >= m
           /\ Distance(w, b) < m + n
<1>1. s \in Addresses /\ nStreamBufferSize \in Nat
  BY SbmAssumption DEF WrapAddr, Addresses
<1>2. CASE b \in {s + i : i \in 0 .. FirstBlock(s, n) - 1}
  <2>1. PICK i \in 0 .. FirstBlock(s, n) - 1 : b = s + i
    BY <1>2
  <2> QED
    BY <1>1, <2>1 DEF FirstBlock, Addresses, Distance, WrapAddr
<1>3. CASE b \in 0 .. n - FirstBlock(s, n) - 1
  BY <1>1, <1>3 DEF FirstBlock, Addresses, Distance, WrapAddr
<1> QED
  BY <1>2, <1>3

\* The parser writes only free bytes of the ring.
THEOREM StreamWritesOnlyFree == Spec => []WritesOnlyFree
<1>1. IInv => WritesOnlyFree
  <2> SUFFICES ASSUME IInv, pc = "granted"
               PROVE  /\ Granted \subseteq Addresses
                      /\ Granted \cap Bytes(pWriteAddr, partial.nLength) = {}
                      /\ \A k \in 0 .. nValidFrameNum - 1 :
                           Granted \cap Bytes(pFrames[StoredSlot(k)].pData,
                                              pFrames[StoredSlot(k)].nLength)
                               = {}
    BY DEF WritesOnlyFree
  <2> DEFINE w == pWriteAddr
             m == partial.nLength
  <2>1. /\ w \in Addresses
        /\ m \in Nat
        /\ Need \in Nat
        /\ nValidDataSize \in Nat
        /\ nStreamBufferSize \in Nat
        /\ nValidDataSize + m + Need < nStreamBufferSize
    BY GrantedSize DEF IInv, TypeOK, SbmTypeOK
  <2>2. /\ ppBuf = WrapAddr(w + m)
        /\ pBufSize = FirstBlock(ppBuf, Need)
        /\ pRingBufSize = Need - FirstBlock(ppBuf, Need)
    BY DEF IInv, GrantOK, StartAddr
  <2>3. m + Need < nStreamBufferSize
    BY <2>1
  <2> HIDE DEF w, m
  <2>4. ASSUME NEW b \in Granted
        PROVE  /\ b \in Addresses
               /\ Distance(w, b) >= m
               /\ Distance(w, b) < m + Need
    <3>1. b \in {ppBuf + i : i \in 0 .. FirstBlock(ppBuf, Need) - 1}
                    \cup (0 .. Need - FirstBlock(ppBuf, Need) - 1)
      BY <2>2, <2>4 DEF Granted
    <3> QED
      BY <2>1, <2>2, <2>3, <3>1, ByteAfter
  <2>5. ASSUME NEW b \in Granted, b \in Bytes(w, m)
        PROVE  FALSE
    <3>1. PICK i \in 0 .. m - 1 : b = WrapAddr(w + i)
      BY <2>5 DEF Bytes
    <3>2. Distance(w, b) = i
      BY <2>1, <3>1 DEF Distance, WrapAddr, Addresses
    <3> QED
      BY <2>1, <2>4, <3>1, <3>2
  <2>6. ASSUME NEW k \in 0 .. nValidFrameNum - 1, NEW b \in Granted,
               b \in Bytes(pFrames[StoredSlot(k)].pData,
                           pFrames[StoredSlot(k)].nLength)
        PROVE  FALSE
    <3> DEFINE a == pFrames[StoredSlot(k)].pData
               n == pFrames[StoredSlot(k)].nLength
    <3>1. SbmInv
      BY DEF IInv, SbmInv, TypeOK, RingLayout
    <3>2. /\ k \in 0 .. nValidFrameNum /\ k + 1 \in 0 .. nValidFrameNum
          /\ k # nValidFrameNum
          /\ k \in 0 .. nMaxFrameNum
      BY SbmAssumption DEF IInv, TypeOK, SbmTypeOK
    <3>3. /\ a \in Addresses
          /\ BytesFrom(k) = Distance(a, w)
          /\ BytesFrom(k) = n + BytesFrom(k + 1)
      BY <3>2 DEF IInv, RingLayout, StoredLayout, BytesFrom, w
    <3>4. /\ BytesFrom(k) \in Nat /\ BytesFrom(k) <= nValidDataSize
          /\ BytesFrom(k + 1) \in Nat
      BY <3>1, <3>2, BytesFromType
    <3>5. n \in Nat
      BY <3>2, SlotFacts DEF IInv, TypeOK, SbmTypeOK, DataInfos
    <3>6. PICK i \in 0 .. n - 1 : b = WrapAddr(a + i)
      BY <2>6 DEF Bytes
    <3> HIDE DEF a, n
    <3>7. i \in Nat /\ i < Distance(a, w)
      BY <3>3, <3>4, <3>5, <3>6
    <3>8. Distance(w, b) = nStreamBufferSize - (Distance(a, w) - i)
      BY <2>1, <3>3, <3>6, <3>7, ByteBefore
    <3> QED
      BY <2>1, <2>4, <3>3, <3>4, <3>7, <3>8
  <2> QED
    BY <2>4, <2>5, <2>6 DEF w, m
<1> QED
  BY <1>1, StreamInvariant, PTL

-----------------------------------------------------------------------------
(***************************************************************************)
(* The stream buffer manager is a queue: VideoStream implements            *)
(* StreamQueue, for every ring, fifo and request size.                     *)
(*                                                                         *)
(* Taken and Waiting are the two parts of the queue as the positions of    *)
(* the fifo give them.  That the fifo is one queue (PositionsAgree) makes  *)
(* every call of a client move one frame or none from one part to another. *)
(***************************************************************************)

\* What the slots hold as time stamps.
Stamps == Pts \cup {NoPts, 0}

\* The frames the decoder holds, and those it has not taken.
Taken == [i \in 1 .. Len(held) |-> pFrames[held[i]].nPts]
Waiting == [i \in 1 .. nUnReadFrameNum |->
                pFrames[StoredSlot(Len(held) + i - 1)].nPts]

\* The stamp of the k-th stored frame.
StampAt(k) == pFrames[StoredSlot(k)].nPts

\* A part that waits has the stamp that came with it.
StampKnown == partial.pData # NULL => partial.nPts \in Pts \cup {NoPts}

QueueInv == IInv /\ StampKnown

-----------------------------------------------------------------------------
(* Sequences given element by element. *)

\* A sequence with one element more at its end.
LEMMA AppendIs ==
    ASSUME NEW S, NEW s \in Seq(S), NEW t \in Seq(S), NEW e \in S,
           Len(t) = Len(s) + 1, t[Len(t)] = e,
           \A i \in 1 .. Len(s) : t[i] = s[i]
    PROVE  t = Append(s, e)
<1>1. /\ Append(s, e) \in Seq(S) /\ Len(Append(s, e)) = Len(s) + 1
      /\ \A i \in 1 .. Len(s) : Append(s, e)[i] = s[i]
      /\ Append(s, e)[Len(s) + 1] = e
  BY AppendProperties
<1>2. Len(s) \in Nat
  BY LenProperties
<1>3. \A i \in 1 .. Len(t) : t[i] = Append(s, e)[i]
  BY <1>1, <1>2
<1> QED  BY <1>1, <1>3, SeqEqual

\* A sequence without its first element.
LEMMA TailIs ==
    ASSUME NEW S, NEW s \in Seq(S), NEW t \in Seq(S), s # <<>>,
           Len(t) = Len(s) - 1, \A i \in 1 .. Len(t) : t[i] = s[i + 1]
    PROVE  t = Tail(s)
BY HeadTailProperties, SeqEqual

\* A sequence without its last element.
LEMMA FrontIs ==
    ASSUME NEW S, NEW s \in Seq(S), NEW t \in Seq(S), s # <<>>,
           Len(t) = Len(s) - 1, \A i \in 1 .. Len(t) : t[i] = s[i]
    PROVE  t = SubSeq(s, 1, Len(s) - 1)
<1>1. Len(s) \in Nat \ {0} /\ \A i \in 1 .. Len(s) - 1 : s[i] \in S
  BY EmptySeq, ElementOfSeq
<1> DEFINE u == SubSeq(s, 1, Len(s) - 1)
<1>2. /\ u \in Seq(S) /\ Len(u) = Len(s) - 1
      /\ \A i \in 1 .. Len(s) - 1 : u[i] = s[i]
  BY <1>1, SubSeqProperties
<1> QED  BY <1>2, SeqEqual

\* A sequence with one element more in front.
LEMMA ConsIs ==
    ASSUME NEW S, NEW s \in Seq(S), NEW t \in Seq(S), NEW e \in S,
           Len(t) = Len(s) + 1, t[1] = e,
           \A i \in 1 .. Len(s) : t[i + 1] = s[i]
    PROVE  t = <<e>> \o s
<1>1. <<e>> \in Seq(S) /\ Len(<<e>>) = 1 /\ <<e>>[1] = e
  OBVIOUS
<1> DEFINE u == <<e>> \o s
<1>2. /\ u \in Seq(S) /\ Len(u) = 1 + Len(s)
      /\ \A i \in 1 .. 1 + Len(s) : u[i] = IF i <= 1 THEN e ELSE s[i - 1]
  BY <1>1, ConcatProperties
<1>3. Len(s) \in Nat
  BY LenProperties
<1>4. \A i \in 1 .. Len(t) : t[i] = u[i]
  BY SMTT(20), <1>2, <1>3
<1> QED  BY <1>2, <1>4, SeqEqual

-----------------------------------------------------------------------------
(* The queue. *)

\* The two parts of the queue, element by element: the oldest frame is in
\* the slot nFlushPos.
QueueFacts ==
    /\ Taken \in Seq(Stamps) /\ Len(Taken) = Len(held)
    /\ Waiting \in Seq(Stamps) /\ Len(Waiting) = nUnReadFrameNum
    /\ Len(held) \in Nat /\ nUnReadFrameNum \in Nat
    /\ Len(held) + nUnReadFrameNum = nValidFrameNum
    /\ nValidFrameNum <= nMaxFrameNum
    /\ \A i \in 1 .. Len(held) : Taken[i] = StampAt(i - 1)
    /\ \A i \in 1 .. nUnReadFrameNum : Waiting[i] = StampAt(Len(held) + i - 1)

\* What PositionsAgree says of the queue.
LEMMA QueueShape == IInv => QueueFacts
<1> SUFFICES ASSUME TypeOK, PositionsAgree PROVE QueueFacts
  BY DEF IInv
<1>1. /\ Len(held) \in Nat /\ nUnReadFrameNum \in Nat
      /\ Len(held) + nUnReadFrameNum = nValidFrameNum
      /\ nValidFrameNum <= nMaxFrameNum
  BY SbmAssumption, LenProperties DEF TypeOK, SbmTypeOK, PositionsAgree
<1>2. \A i \in 1 .. Len(held) : held[i] \in Slots
  BY ElementOfSeq DEF TypeOK, SbmTypeOK
<1>3. \A x \in Slots : pFrames[x].nPts \in Stamps
  BY DEF TypeOK, SbmTypeOK, DataInfos, Stamps
<1>4. \A i \in 1 .. nUnReadFrameNum : StoredSlot(Len(held) + i - 1) \in Slots
  BY <1>1, SbmAssumption, SlotFacts DEF TypeOK, SbmTypeOK
<1>5. Taken \in [1 .. Len(held) -> Stamps]
  BY <1>2, <1>3 DEF Taken
<1>6. Waiting \in [1 .. nUnReadFrameNum -> Stamps]
  BY <1>3, <1>4 DEF Waiting
<1>7. Taken \in Seq(Stamps) /\ Len(Taken) = Len(held)
  BY <1>1, <1>5
<1>8. Waiting \in Seq(Stamps) /\ Len(Waiting) = nUnReadFrameNum
  BY <1>1, <1>6
<1>9. \A i \in 1 .. Len(held) : Taken[i] = StampAt(i - 1)
  BY DEF Taken, PositionsAgree, StampAt
<1>10. \A i \in 1 .. nUnReadFrameNum : Waiting[i] = StampAt(Len(held) + i - 1)
  BY DEF Waiting, StampAt
<1> QED  BY <1>1, <1>7, <1>8, <1>9, <1>10 DEF QueueFacts

\* ... and after a step.
LEMMA QueueShapeNext == IInv' => QueueFacts'
BY QueueShape, PTL

\* A call that leaves the fifo alone leaves the queue alone.
LEMMA QueueSame ==
    ASSUME UNCHANGED <<nFlushPos, nUnReadFrameNum, pFrames, held>>
    PROVE  UNCHANGED <<Waiting, Taken>>
BY DEF Waiting, Taken, StoredSlot

\* SbmStreamAddStream puts a frame behind the others, or drops it.
LEMMA AddPuts ==
    ASSUME IInv, IInv', NEW d \in DataInfos, SbmStreamAddStream(d),
           d.nPts \in Pts \cup {NoPts}
    PROVE  \/ UNCHANGED <<Waiting, Taken>>
           \/ \E f \in Pts \cup {NoPts} : SQ!Put(f)
<1>1. CASE ~SbmStreamCanAdd(d)
  BY <1>1, QueueSame DEF SbmStreamAddStream
<1>2. CASE SbmStreamCanAdd(d)
  <2>1. QueueFacts /\ QueueFacts'
    BY QueueShape, QueueShapeNext
  <2>2. /\ pFrames' = [pFrames EXCEPT ![nWritePos] = d]
        /\ nUnReadFrameNum' = nUnReadFrameNum + 1
        /\ UNCHANGED <<nFlushPos, held>>
        /\ nValidFrameNum < nMaxFrameNum
    BY <1>2 DEF SbmStreamAddStream, SbmStreamCanAdd
  <2>3. /\ nWritePos = StoredSlot(nValidFrameNum)
        /\ nFlushPos \in Slots /\ pFrames \in [Slots -> DataInfos]
        /\ nMaxFrameNum \in Nat
    BY SbmAssumption DEF IInv, TypeOK, SbmTypeOK, PositionsAgree
  <2> PICK n \in Nat : n = nValidFrameNum
    BY <2>1 DEF QueueFacts
  <2>4. \A k : StoredSlot(k)' = StoredSlot(k)
    BY <2>2 DEF StoredSlot
  <2>5. ASSUME NEW k \in Nat, k < n
        PROVE  StampAt(k)' = StampAt(k)
    <3>1. StoredSlot(k) # nWritePos /\ StoredSlot(k) \in Slots
      <4>1. k \in 0 .. nMaxFrameNum - 1 /\ n \in 0 .. nMaxFrameNum - 1
        BY <2>2, <2>3, <2>5
      <4> QED  BY <2>3, <2>5, <4>1, SlotFacts
    <3> QED  BY <2>2, <2>3, <2>4, <3>1 DEF StampAt
  <2>6. StampAt(n)' = d.nPts
    <3>1. nWritePos \in Slots
      BY DEF IInv, TypeOK, SbmTypeOK
    <3> QED  BY <2>2, <2>3, <2>4, <3>1 DEF StampAt
  <2>7. Taken' = Taken
    <3>1. ASSUME NEW i \in 1 .. Len(Taken)  PROVE Taken'[i] = Taken[i]
      <4>1. i - 1 \in Nat /\ i - 1 < n
        BY <2>1 DEF QueueFacts
      <4>2. Taken'[i] = StampAt(i - 1)' /\ Taken[i] = StampAt(i - 1)
        BY <2>1, <2>2 DEF QueueFacts
      <4> QED  BY <2>5, <4>1, <4>2
    <3> QED  BY <2>1, <2>2, <3>1, SeqEqual DEF QueueFacts
  <2>8. Waiting' = Append(Waiting, d.nPts)
    <3>1. ASSUME NEW i \in 1 .. Len(Waiting)  PROVE Waiting'[i] = Waiting[i]
      <4>0. Len(held) + i - 1 \in Nat
        BY <2>1 DEF QueueFacts
      <4> PICK k \in Nat : k = Len(held) + i - 1
        BY <4>0
      <4>1. k < n
        BY <2>1 DEF QueueFacts
      <4>2. Waiting[i] = StampAt(k)
        BY <2>1 DEF QueueFacts
      <4>3. Waiting'[i] = StampAt(k)'
        BY <2>1, <2>2 DEF QueueFacts
      <4> QED  BY <2>5, <4>1, <4>2, <4>3
    <3>2. Waiting'[Len(Waiting')] = d.nPts
      <4>1. /\ Len(Waiting') \in 1 .. nUnReadFrameNum'
            /\ Len(held') + Len(Waiting') - 1 = n
        BY <2>1, <2>2 DEF QueueFacts
      <4> QED  BY <2>1, <2>6, <4>1 DEF QueueFacts
    <3>3. d.nPts \in Stamps
      BY DEF Stamps
    <3> QED  BY <2>1, <2>2, <3>1, <3>2, <3>3, AppendIs DEF QueueFacts
  <2> QED  BY <2>7, <2>8 DEF SQ!Put, Waiting, Taken
<1> QED  BY <1>1, <1>2

\* SbmStreamRequestStream takes the first frame that waits.
LEMMA RequestTakes ==
    ASSUME IInv, IInv', SbmStreamRequestStream
    PROVE  SQ!Take
<1>1. QueueFacts /\ QueueFacts'
  BY QueueShape, QueueShapeNext
<1>2. /\ nUnReadFrameNum # 0 /\ nUnReadFrameNum' = nUnReadFrameNum - 1
      /\ Len(held') = Len(held) + 1
      /\ UNCHANGED <<nFlushPos, nValidFrameNum, pFrames>>
  BY <1>1 DEF SbmStreamRequestStream, QueueFacts
<1>3. \A k : StampAt(k)' = StampAt(k)
  BY <1>2 DEF StoredSlot, StampAt
<1>4. Waiting # <<>>
  BY <1>1, <1>2, EmptySeq DEF QueueFacts
<1>5. Head(Waiting) = Waiting[1] /\ Head(Waiting) \in Stamps
  BY <1>1, <1>4, HeadTailProperties DEF QueueFacts
<1>6. Waiting' = Tail(Waiting)
  <2>1. ASSUME NEW i \in 1 .. Len(Waiting')
        PROVE  Waiting'[i] = Waiting[i + 1]
    <3>0. Len(held) + i \in Nat
      BY <1>1 DEF QueueFacts
    <3> PICK k \in Nat : k = Len(held) + i
      BY <3>0
    <3>1. Waiting'[i] = StampAt(k)'
      <4>1. k = Len(held') + i - 1
        BY <1>1, <1>2 DEF QueueFacts
      <4> QED  BY <1>1, <4>1 DEF QueueFacts
    <3>2. Waiting[i + 1] = StampAt(k)
      <4>1. i + 1 \in 1 .. nUnReadFrameNum /\ k = Len(held) + (i + 1) - 1
        BY <1>1, <1>2 DEF QueueFacts
      <4> QED  BY <1>1, <4>1 DEF QueueFacts
    <3> QED  BY <1>3, <3>1, <3>2
  <2> QED  BY <1>1, <1>2, <1>4, <2>1, TailIs DEF QueueFacts
<1>7. Taken' = Append(Taken, Head(Waiting))
  <2>1. \A i \in 1 .. Len(Taken) : Taken'[i] = StampAt(i - 1)'
    BY <1>1, <1>2 DEF QueueFacts
  <2>2. \A i \in 1 .. Len(Taken) : Taken'[i] = Taken[i]
    BY <1>1, <1>3, <2>1 DEF QueueFacts
  <2> PICK n \in Nat : n = Len(held)
    BY <1>1 DEF QueueFacts
  <2>3. Taken'[Len(Taken')] = StampAt(n)'
    <3>1. Len(Taken') \in 1 .. Len(held') /\ Len(Taken') - 1 = n
      BY <1>1, <1>2 DEF QueueFacts
    <3> QED  BY <1>1, <3>1 DEF QueueFacts
  <2>4. Waiting[1] = StampAt(n)
    <3>1. 1 \in 1 .. nUnReadFrameNum /\ Len(held) + 1 - 1 = n
      BY <1>1, <1>2 DEF QueueFacts
    <3> QED  BY <1>1, <3>1 DEF QueueFacts
  <2>5. Len(Taken') = Len(Taken) + 1
    BY <1>1, <1>2 DEF QueueFacts
  <2> QED
    BY <1>1, <1>3, <1>5, <2>2, <2>3, <2>4, <2>5, AppendIs DEF QueueFacts
<1> QED  BY <1>4, <1>6, <1>7 DEF SQ!Take, Waiting, Taken

\* SbmStreamReturnStream puts the frame taken last back in front.
LEMMA ReturnPutsBack ==
    ASSUME IInv, IInv', SbmStreamReturnStream
    PROVE  SQ!PutBack
<1>1. QueueFacts /\ QueueFacts'
  BY QueueShape, QueueShapeNext
<1>2. /\ held # <<>> /\ held \in Seq(Slots)
      /\ UNCHANGED <<nFlushPos, nValidFrameNum, pFrames>>
  BY DEF SbmStreamReturnStream, IInv, TypeOK, SbmTypeOK
<1>3. Len(held) # 0 /\ nValidFrameNum # 0
  BY <1>1, <1>2, EmptySeq DEF QueueFacts
<1>4. /\ nUnReadFrameNum' = nUnReadFrameNum + 1
      /\ Len(held') = Len(held) - 1
  BY <1>1, <1>2, <1>3 DEF SbmStreamReturnStream, QueueFacts
<1>5. \A k : StampAt(k)' = StampAt(k)
  BY <1>2 DEF StoredSlot, StampAt
<1>6. Taken # <<>> /\ Taken[Len(Taken)] \in Stamps
  BY <1>1, <1>3, EmptySeq, ElementOfSeq DEF QueueFacts
<1>7. Taken' = SubSeq(Taken, 1, Len(Taken) - 1)
  <2>1. \A i \in 1 .. Len(Taken') : Taken'[i] = StampAt(i - 1)'
    BY <1>1 DEF QueueFacts
  <2>2. \A i \in 1 .. Len(Taken') : Taken[i] = StampAt(i - 1)
    BY <1>1, <1>4 DEF QueueFacts
  <2>3. \A i \in 1 .. Len(Taken') : Taken'[i] = Taken[i]
    BY <1>5, <2>1, <2>2
  <2> QED  BY <1>1, <1>4, <1>6, <2>3, FrontIs DEF QueueFacts
<1>8. Waiting' = <<Taken[Len(Taken)]>> \o Waiting
  <2>1. ASSUME NEW i \in 1 .. Len(Waiting)
        PROVE  Waiting'[i + 1] = Waiting[i]
    <3>0. Len(held) + i - 1 \in Nat
      BY <1>1 DEF QueueFacts
    <3> PICK k \in Nat : k = Len(held) + i - 1
      BY <3>0
    <3>1. Waiting'[i + 1] = StampAt(k)'
      <4>1. i + 1 \in 1 .. nUnReadFrameNum' /\ k = Len(held') + (i + 1) - 1
        BY <1>1, <1>4 DEF QueueFacts
      <4> QED  BY <1>1, <4>1 DEF QueueFacts
    <3>2. Waiting[i] = StampAt(k)
      BY <1>1 DEF QueueFacts
    <3> QED  BY <1>5, <3>1, <3>2
  <2>2. Waiting'[1] = Taken[Len(Taken)]
    <3>0. Len(held) - 1 \in Nat
      BY <1>1, <1>3 DEF QueueFacts
    <3> PICK k \in Nat : k = Len(held) - 1
      BY <3>0
    <3>1. Waiting'[1] = StampAt(k)'
      <4>1. 1 \in 1 .. nUnReadFrameNum' /\ k = Len(held') + 1 - 1
        BY <1>1, <1>4 DEF QueueFacts
      <4> QED  BY <1>1, <4>1 DEF QueueFacts
    <3>2. Taken[Len(Taken)] = StampAt(k)
      BY <1>1, <1>3 DEF QueueFacts
    <3> QED  BY <1>5, <3>1, <3>2
  <2>3. /\ Waiting \in Seq(Stamps) /\ Waiting' \in Seq(Stamps)
        /\ Len(Waiting') = Len(Waiting) + 1
    BY <1>1, <1>4 DEF QueueFacts
  <2> QED  BY <1>6, <2>1, <2>2, <2>3, ConsIs
<1> QED  BY <1>6, <1>7, <1>8 DEF SQ!PutBack, Waiting, Taken

\* SbmStreamFlushStream discards the frame taken first: the others are one
\* place nearer to nFlushPos.
LEMMA FlushDiscards ==
    ASSUME IInv, IInv', SbmStreamFlushStream
    PROVE  SQ!Discard
<1>1. QueueFacts /\ QueueFacts'
  BY QueueShape, QueueShapeNext
<1>2. /\ held # <<>> /\ held \in Seq(Slots) /\ nFlushPos \in Slots
      /\ held' = Tail(held)
      /\ UNCHANGED <<nUnReadFrameNum, pFrames>>
  BY DEF SbmStreamFlushStream, IInv, TypeOK, SbmTypeOK
<1>3. /\ Len(held) # 0 /\ nValidFrameNum # 0 /\ Len(held') = Len(held) - 1
      /\ held[1] = StoredSlot(0)
  BY <1>1, <1>2, EmptySeq, HeadTailProperties
     DEF QueueFacts, IInv, PositionsAgree
<1>4. nFlushPos' = NextPos(nFlushPos)
  <2>1. Head(held) = nFlushPos
    BY <1>2, <1>3, SlotFacts, HeadTailProperties
  <2> QED  BY <1>3, <2>1 DEF SbmStreamFlushStream
<1>5. ASSUME NEW k \in Nat, k + 1 < nMaxFrameNum
      PROVE  StampAt(k)' = StampAt(k + 1)
  <2>1. StoredSlot(k)' = StoredSlot(k + 1)
    BY <1>2, <1>4, <1>5, SbmAssumption DEF StoredSlot, NextPos, Slots
  <2> QED  BY <1>2, <2>1 DEF StampAt
<1>6. Taken # <<>>
  BY <1>1, <1>3, EmptySeq DEF QueueFacts
<1>7. Taken' = Tail(Taken)
  <2>1. ASSUME NEW i \in 1 .. Len(Taken')
        PROVE  Taken'[i] = Taken[i + 1]
    <3> DEFINE k == i - 1
    <3>1. Taken'[i] = StampAt(k)'
      BY <1>1 DEF QueueFacts
    <3>2. Taken[i + 1] = StampAt(k + 1)
      <4>1. i + 1 \in 1 .. Len(held) /\ k + 1 = (i + 1) - 1
        BY <1>1, <1>3 DEF QueueFacts
      <4> QED  BY <1>1, <4>1 DEF QueueFacts
    <3>3. k \in Nat /\ k + 1 < nMaxFrameNum
      BY <1>1, <1>3, SbmAssumption DEF QueueFacts
    <3> QED  BY <1>5, <3>1, <3>2, <3>3
  <2> QED  BY <1>1, <1>3, <1>6, <2>1, TailIs DEF QueueFacts
<1>8. Waiting' = Waiting
  <2>1. ASSUME NEW i \in 1 .. Len(Waiting)
        PROVE  Waiting'[i] = Waiting[i]
    <3>0. Len(held) + i - 2 \in Nat
      BY <1>1, <1>3 DEF QueueFacts
    <3> PICK k \in Nat : k = Len(held) + i - 2
      BY <3>0
    <3>1. Waiting'[i] = StampAt(k)'
      <4>1. i \in 1 .. nUnReadFrameNum' /\ k = Len(held') + i - 1
        BY <1>1, <1>2, <1>3 DEF QueueFacts
      <4> QED  BY <1>1, <4>1 DEF QueueFacts
    <3>2. Waiting[i] = StampAt(k + 1)
      <4>1. k + 1 = Len(held) + i - 1
        BY <1>1 DEF QueueFacts
      <4> QED  BY <1>1, <4>1 DEF QueueFacts
    <3>3. k \in Nat /\ k + 1 < nMaxFrameNum
      BY <1>1, <1>3, SbmAssumption DEF QueueFacts
    <3> QED  BY <1>5, <3>1, <3>2, <3>3
  <2> QED  BY <1>1, <1>2, <2>1, SeqEqual DEF QueueFacts
<1> QED  BY <1>6, <1>7, <1>8 DEF SQ!Discard, Waiting, Taken

\* No frame, before anything is stored and after a reset.
LEMMA EmptyQueue ==
    ASSUME nUnReadFrameNum = 0, held = <<>>
    PROVE  Waiting = <<>> /\ Taken = <<>>
<1>1. Len(held) = 0
  BY EmptySeq
<1> QED  BY <1>1 DEF Waiting, Taken

-----------------------------------------------------------------------------
(* The steps. *)

\* The stamp of a first part is the frame's, unless it had none and a later
\* part brings one (SubmitVideoStreamData).
LEMMA StampKept ==
    ASSUME QueueInv, [Next]_vars
    PROVE  StampKnown'
<1> USE DEF QueueInv, StampKnown
<1>1. ASSUME NEW n \in 0 .. nStreamBufferSize, NEW t \in Pts \cup {NoPts},
             NEW first \in BOOLEAN, NEW last \in BOOLEAN,
             SubmitVideoStreamData(n, t, first, last)
      PROVE  StampKnown'
  <2>1. CASE SubmitFirstPart(n, t)
    BY <2>1 DEF SubmitFirstPart
  <2>2. CASE SubmitNextPart(n, t)
    <3>1. partial \in DataInfos
      BY DEF IInv, TypeOK
    <3>2. partial'.nPts = IF partial.nPts = NoPts /\ t # NoPts
                          THEN t ELSE partial.nPts
      BY <2>2, <3>1 DEF SubmitNextPart, DataInfos
    <3> QED  BY <2>2, <3>2 DEF SubmitNextPart
  <2> QED  BY <1>1, <2>1, <2>2 DEF SubmitVideoStreamData
<1>2. CASE SubmitComplete
  BY <1>2 DEF SubmitComplete, AfterSubmit, NoPartial
<1>3. CASE ResetVideoDecoder
  BY <1>3 DEF ResetVideoDecoder, NoPartial
<1>4. CASE UNCHANGED partial
  BY <1>4
<1> QED
  BY <1>1, <1>2, <1>3, <1>4
     DEF Next, Parser, Decoder, Ask, RequestVideoStreamBuffer, vars

\* Every step of the parser, the decoder and the player is one of the queue,
\* or does not move a frame.
LEMMA StepOfQueue ==
    ASSUME QueueInv, QueueInv', [Next]_vars
    PROVE  UNCHANGED <<Waiting, Taken>> \/ SQ!SQNext
<1> USE DEF QueueInv
<1>1. CASE UNCHANGED sbmVars
  BY <1>1, QueueSame DEF sbmVars, sbmNums
<1>2. ASSUME SbmStreamAddStream(partial), partial.pData # NULL
      PROVE  UNCHANGED <<Waiting, Taken>> \/ SQ!SQNext
  <2>1. partial \in DataInfos /\ partial.nPts \in Pts \cup {NoPts}
    BY <1>2 DEF IInv, TypeOK, StampKnown
  <2> QED  BY <1>2, <2>1, AddPuts DEF SQ!SQNext
<1>3. ASSUME NEW n \in 0 .. nStreamBufferSize, NEW t \in Pts \cup {NoPts},
             NEW first \in BOOLEAN, NEW last \in BOOLEAN,
             SubmitVideoStreamData(n, t, first, last)
      PROVE  UNCHANGED <<Waiting, Taken>> \/ SQ!SQNext
  <2>1. CASE SubmitFirstPart(n, t) /\ partial.nLength # 0
    <3>1. partial.pData # NULL
      BY <2>1 DEF IInv, RingLayout, PartialBehind
    <3> QED  BY <1>2, <2>1, <3>1 DEF SubmitFirstPart
  <2>2. CASE UNCHANGED sbmVars
    BY <1>1, <2>2
  <2> QED
    BY <1>3, <2>1, <2>2
       DEF SubmitVideoStreamData, SubmitFirstPart, SubmitNextPart
<1>4. CASE SubmitComplete
  BY <1>2, <1>4 DEF SubmitComplete, IInv, GrantOK
<1>5. CASE ResetVideoDecoder
  <2>1. Waiting' = <<>> /\ Taken' = <<>>
    <3>1. nUnReadFrameNum' = 0 /\ held' = <<>>
      BY <1>5 DEF ResetVideoDecoder, SbmStreamReset
    <3>2. Len(held') = 0
      BY <3>1, EmptySeq
    <3> QED  BY <3>1, <3>2 DEF Waiting, Taken
  <2> QED  BY <2>1 DEF SQ!SQNext, SQ!Clear, Waiting, Taken
<1>6. CASE Decoder
  BY <1>6, RequestTakes, ReturnPutsBack, FlushDiscards DEF Decoder, SQ!SQNext
<1> QED
  BY <1>1, <1>3, <1>4, <1>5, <1>6
     DEF Next, Parser, Ask, RequestVideoStreamBuffer, vars

\* The buffer manager is a queue: frames come out in the order they went in,
\* and the slots the decoder points to keep their contents
\* (SbmStreamAddStream, SbmStreamRequestStream, SbmStreamReturnStream,
\* SbmStreamFlushStream, SbmStreamReset).
THEOREM StreamImplementsQueue == Spec => RefinesStreamQueue
<1>1. Init => QueueInv /\ SQ!SQInit
  <2> SUFFICES ASSUME Init PROVE QueueInv /\ SQ!SQInit
    OBVIOUS
  <2>1. StampKnown
    BY DEF Init, NoPartial, StampKnown
  <2>2. Waiting = <<>> /\ Taken = <<>>
    BY EmptyQueue DEF Init, SbmStreamInit
  <2> QED  BY <2>1, <2>2, InitIInv DEF QueueInv, SQ!SQInit, Waiting, Taken
<1>2. QueueInv /\ [Next]_vars => QueueInv'
  BY StampKept, NextIInv DEF QueueInv
<1>3. QueueInv /\ QueueInv' /\ [Next]_vars => [SQ!SQNext]_(SQ!sqVars)
  <2>1. UNCHANGED <<Waiting, Taken>> => UNCHANGED SQ!sqVars
    BY DEF SQ!sqVars, Waiting, Taken
  <2> QED  BY <2>1, StepOfQueue
<1> QED
  BY <1>1, <1>2, <1>3, PTL DEF Spec, RefinesStreamQueue, SQ!SQSpec
=============================================================================
