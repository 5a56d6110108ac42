-------------------------- MODULE SbmThreadProofs --------------------------
(***************************************************************************)
(* Proofs about SbmThread, for every queue with room for three messages.   *)
(* ThreadInv is inductive: it says for each pair of control points which   *)
(* messages may wait, and the properties of the handshake follow from it.  *)
(***************************************************************************)
EXTENDS SbmThread, SequenceTheorems, TLAPS

Kinds == {"READ", "RESET", "QUIT"}

\* What taking the first message leaves, for the queues of QueueShape.
LEMMA TakeFirst ==
    ASSUME NEW m \in Kinds
    PROVE  /\ Head(<<m>>) = m /\ Tail(<<m>>) = <<>>
           /\ \A n \in Kinds : Head(<<m, n>>) = m /\ Tail(<<m, n>>) = <<n>>
           /\ \A n, o \in Kinds :
                Head(<<m, n, o>>) = m /\ Tail(<<m, n, o>>) = <<n, o>>
  OBVIOUS

\* What posting a message makes of them.
LEMMA PostLast ==
    ASSUME NEW m \in Kinds
    PROVE  /\ Append(<<>>, m) = <<m>>
           /\ \A n \in Kinds : Append(<<n>>, m) = <<n, m>>
           /\ \A n, o \in Kinds : Append(<<n, o>>, m) = <<n, o, m>>
<1>1. Append(<<>>, m) = <<m>>
  OBVIOUS
<1>2. ASSUME NEW s \in Seq(Kinds)
      PROVE  /\ Append(s, m) \in Seq(Kinds)
             /\ Len(Append(s, m)) = Len(s) + 1
             /\ \A i \in 1 .. Len(s) : Append(s, m)[i] = s[i]
             /\ Append(s, m)[Len(s) + 1] = m
  OBVIOUS
<1>3. \A s, t \in Seq(Kinds) :
         Len(s) = Len(t) /\ (\A i \in 1 .. Len(s) : s[i] = t[i]) => s = t
  BY SeqEqual
<1>4. ASSUME NEW n \in Kinds PROVE Append(<<n>>, m) = <<n, m>>
  <2>1. /\ <<n>> \in Seq(Kinds) /\ <<n, m>> \in Seq(Kinds)
        /\ Len(<<n>>) = 1 /\ Len(<<n, m>>) = 2
    OBVIOUS
  <2>2. Append(<<n>>, m) \in Seq(Kinds) /\ Len(Append(<<n>>, m)) = 2
    BY <1>2, <2>1
  <2>3. \A i \in 1 .. 2 : Append(<<n>>, m)[i] = <<n, m>>[i]
    BY <1>2, <2>1
  <2>4. Len(Append(<<n>>, m)) = Len(<<n, m>>)
    BY <2>1, <2>2
  <2>5. \A i \in 1 .. Len(Append(<<n>>, m)) :
           Append(<<n>>, m)[i] = <<n, m>>[i]
    BY <2>2, <2>3
  <2> QED
    BY <1>3, <2>1, <2>2, <2>4, <2>5, Zenon
<1>5. ASSUME NEW n \in Kinds, NEW o \in Kinds
      PROVE  Append(<<n, o>>, m) = <<n, o, m>>
  <2>1. /\ <<n, o>> \in Seq(Kinds) /\ <<n, o, m>> \in Seq(Kinds)
        /\ Len(<<n, o>>) = 2 /\ Len(<<n, o, m>>) = 3
    OBVIOUS
  <2>2. Append(<<n, o>>, m) \in Seq(Kinds) /\ Len(Append(<<n, o>>, m)) = 3
    BY <1>2, <2>1
  <2>3. \A i \in 1 .. 3 : Append(<<n, o>>, m)[i] = <<n, o, m>>[i]
    BY <1>2, <2>1
  <2>4. Len(Append(<<n, o>>, m)) = Len(<<n, o, m>>)
    BY <2>1, <2>2
  <2>5. \A i \in 1 .. Len(Append(<<n, o>>, m)) :
           Append(<<n, o>>, m)[i] = <<n, o, m>>[i]
    BY <2>2, <2>3
  <2> QED
    BY <1>3, <2>1, <2>2, <2>4, <2>5, Zenon
<1> QED
  BY <1>1, <1>4, <1>5

\* The lengths of the queues of QueueShape.
LEMMA QueueLengths ==
    /\ Len(<<>>) = 0 /\ Len(R) = 1 /\ Len(RR) = 2
    /\ \A m \in Kinds :
         /\ Len(<<m>>) = 1
         /\ Len(<<"READ", m>>) = 2 /\ Len(<<m, "READ">>) = 2
         /\ Len(<<"READ", "READ", m>>) = 3 /\ Len(<<"READ", m, "READ">>) = 3
  BY DEF R, RR

\* What taking the first of their messages leaves.
LEMMA QueueTakes ==
    /\ Head(R) = "READ" /\ Tail(R) = <<>>
    /\ Head(RR) = "READ" /\ Tail(RR) = R
    /\ \A m \in Kinds :
         /\ Head(<<m>>) = m /\ Tail(<<m>>) = <<>>
         /\ Head(<<"READ", m>>) = "READ" /\ Tail(<<"READ", m>>) = <<m>>
         /\ Head(<<m, "READ">>) = m /\ Tail(<<m, "READ">>) = R
         /\ Head(<<"READ", "READ", m>>) = "READ"
         /\ Tail(<<"READ", "READ", m>>) = <<"READ", m>>
         /\ Head(<<"READ", m, "READ">>) = "READ"
         /\ Tail(<<"READ", m, "READ">>) = <<m, "READ">>
  BY TakeFirst DEF R, RR, Kinds

\* What a post makes of them.
LEMMA QueuePosts ==
    /\ Append(<<>>, "READ") = R /\ Append(R, "READ") = RR
    /\ \A m \in Kinds :
         /\ Append(<<>>, m) = <<m>> /\ Append(R, m) = <<"READ", m>>
         /\ Append(RR, m) = <<"READ", "READ", m>>
         /\ Append(<<m>>, "READ") = <<m, "READ">>
         /\ Append(<<"READ", m>>, "READ") = <<"READ", m, "READ">>
<1>1. "READ" \in Kinds
  BY DEF Kinds
<1>2. \A m \in Kinds :
        /\ Append(<<>>, m) = <<m>>
        /\ \A n \in Kinds : Append(<<n>>, m) = <<n, m>>
        /\ \A n, o \in Kinds : Append(<<n, o>>, m) = <<n, o, m>>
  BY PostLast
<1> QED
  BY <1>1, <1>2, Zenon DEF R, RR

\* The inductive invariant.
ThreadIInv == ThreadTypeOK /\ ThreadInv

\* SbmFrameInit establishes it.
LEMMA InitThreadIInv == ThreadInit => ThreadIInv
  BY DEF ThreadInit, CdcMessageQueueCreate, ThreadIInv, ThreadTypeOK,
         ThreadInv, QueueShape, SemCounts

-----------------------------------------------------------------------------
(* Posts. *)

\* Every post finds room.
LEMMA RoomToPost ==
    ASSUME ThreadIInv
    PROVE  PostsSucceed
<1>1. CASE ctl \in {"start", "idle", "resetRead"}
  <2>1. messages \in {<<>>, R, RR}
    BY <1>1 DEF ThreadIInv, ThreadInv, QueueShape, Undisturbed, Answered
  <2>2. Len(messages) \in {0, 1, 2}
    BY <2>1, QueueLengths, Zenon
  <2>3. Len(messages) < nMaxMessageNum
    <3>1. \A n \in {0, 1, 2} : n < nMaxMessageNum
      BY ThreadAssumption, QueueAssumption
    <3> QED
      BY <2>2, <3>1, Zenon
  <2> QED
    BY <2>3 DEF PostsSucceed, CanPost
<1>2. CASE thr = "post"
  <2>1. messages \in {<<>>, R, <<"RESET">>, <<"READ", "RESET">>, <<"QUIT">>,
                      <<"READ", "QUIT">>}
    BY <1>2 DEF ThreadIInv, ThreadInv, QueueShape, Undisturbed, Answered,
                Renewed, Reading, Requested, Taken
  <2>2. Len(messages) \in {0, 1, 2}
    <3>1. /\ Len(<<"RESET">>) = 1 /\ Len(<<"READ", "RESET">>) = 2
          /\ Len(<<"QUIT">>) = 1 /\ Len(<<"READ", "QUIT">>) = 2
      OBVIOUS
    <3> QED
      BY <2>1, <3>1, QueueLengths, Zenon
  <2>3. Len(messages) < nMaxMessageNum
    <3>1. \A n \in {0, 1, 2} : n < nMaxMessageNum
      BY ThreadAssumption, QueueAssumption
    <3> QED
      BY <2>2, <3>1, Zenon
  <2> QED
    BY <2>3 DEF PostsSucceed, CanPost
<1> QED
  BY <1>1, <1>2 DEF PostsSucceed

-----------------------------------------------------------------------------
(* The steps of the detector thread. *)

\* What GetMessage does to each of the queues of QueueShape.
LEMMA GetMessageTakes ==
    ASSUME GetMessage
    PROVE  /\ thr = "wait" /\ messages # <<>> /\ sem > 0
           /\ ctl' = ctl /\ resetSem' = resetSem
           /\ messages = R => messages' = <<>> /\ thr' = "read"
           /\ messages = RR => messages' = R /\ thr' = "read"
           /\ \A m \in {"RESET", "QUIT"} :
                /\ messages = <<m>> =>
                     messages' = <<>>
                     /\ thr' = IF m = "RESET" THEN "reset" ELSE "exited"
                /\ messages = <<m, "READ">> =>
                     messages' = R
                     /\ thr' = IF m = "RESET" THEN "reset" ELSE "exited"
                /\ messages = <<"READ", m>> =>
                     messages' = <<m>> /\ thr' = "read"
                /\ messages = <<"READ", "READ", m>> =>
                     messages' = <<"READ", m>> /\ thr' = "read"
                /\ messages = <<"READ", m, "READ">> =>
                     messages' = <<m, "READ">> /\ thr' = "read"
<1>1. /\ thr = "wait" /\ messages # <<>> /\ sem > 0
      /\ ctl' = ctl /\ resetSem' = resetSem
      /\ messages' = Tail(messages)
  BY DEF GetMessage, CdcMessageQueueTryGetMessage
<1>2. /\ Head(messages) = "READ" => thr' = "read"
      /\ Head(messages) = "RESET" => thr' = "reset"
      /\ Head(messages) = "QUIT" => thr' = "exited"
  BY DEF GetMessage, CdcMessageQueueTryGetMessage
<1>3. messages = R => messages' = <<>> /\ thr' = "read"
  BY <1>1, <1>2, QueueTakes, Zenon
<1>4. messages = RR => messages' = R /\ thr' = "read"
  BY <1>1, <1>2, QueueTakes, Zenon
<1>5. ASSUME NEW m \in {"RESET", "QUIT"}
      PROVE  /\ messages = <<m>> =>
                  messages' = <<>>
                  /\ thr' = IF m = "RESET" THEN "reset" ELSE "exited"
             /\ messages = <<m, "READ">> =>
                  messages' = R
                  /\ thr' = IF m = "RESET" THEN "reset" ELSE "exited"
             /\ messages = <<"READ", m>> =>
                  messages' = <<m>> /\ thr' = "read"
             /\ messages = <<"READ", "READ", m>> =>
                  messages' = <<"READ", m>> /\ thr' = "read"
             /\ messages = <<"READ", m, "READ">> =>
                  messages' = <<m, "READ">> /\ thr' = "read"
  <2>1. m \in Kinds
    BY DEF Kinds
  <2>2. /\ Head(<<m>>) = m /\ Tail(<<m>>) = <<>>
        /\ Head(<<"READ", m>>) = "READ" /\ Tail(<<"READ", m>>) = <<m>>
        /\ Head(<<m, "READ">>) = m /\ Tail(<<m, "READ">>) = R
        /\ Head(<<"READ", "READ", m>>) = "READ"
        /\ Tail(<<"READ", "READ", m>>) = <<"READ", m>>
        /\ Head(<<"READ", m, "READ">>) = "READ"
        /\ Tail(<<"READ", m, "READ">>) = <<m, "READ">>
    BY <2>1, QueueTakes, Zenon
  <2>3. Head(messages) = m =>
          thr' = IF m = "RESET" THEN "reset" ELSE "exited"
    BY <1>2
  <2>4. messages = <<m>> =>
          messages' = <<>>
          /\ thr' = IF m = "RESET" THEN "reset" ELSE "exited"
    BY <1>1, <2>2, <2>3, Zenon
  <2>5. messages = <<m, "READ">> =>
          messages' = R
          /\ thr' = IF m = "RESET" THEN "reset" ELSE "exited"
    BY <1>1, <2>2, <2>3, Zenon
  <2>6. messages = <<"READ", m>> => messages' = <<m>> /\ thr' = "read"
    BY <1>1, <1>2, <2>2, Zenon
  <2>7. messages = <<"READ", "READ", m>> =>
          messages' = <<"READ", m>> /\ thr' = "read"
    BY <1>1, <1>2, <2>2, Zenon
  <2>8. messages = <<"READ", m, "READ">> =>
          messages' = <<m, "READ">> /\ thr' = "read"
    BY <1>1, <1>2, <2>2, Zenon
  <2> QED
    BY <2>4, <2>5, <2>6, <2>7, <2>8, Zenon
<1> QED
  BY <1>1, <1>3, <1>4, <1>5, Zenon

\* A request that waits is still there, or is with the thread, afterwards.
LEMMA GetMessageRequested ==
    ASSUME GetMessage, NEW m \in {"RESET", "QUIT"}, Requested(m)
    PROVE  Requested(m)' \/ Taken({IF m = "RESET" THEN "reset"
                                                  ELSE "exited"})'
<1>1. \/ messages = <<m>>
      \/ messages = <<"READ", m>>
      \/ messages = <<m, "READ">>
      \/ messages = <<"READ", "READ", m>>
      \/ messages = <<"READ", m, "READ">>
  BY GetMessageTakes DEF Requested
<1>2. CASE messages = <<m>> \/ messages = <<m, "READ">>
  <2>1. /\ messages' \in {<<>>, R}
        /\ thr' = IF m = "RESET" THEN "reset" ELSE "exited"
    BY <1>2, GetMessageTakes, Zenon
  <2> QED
    BY <2>1, Zenon DEF Taken
<1>3. CASE messages = <<"READ", m>>
  <2>1. messages' = <<m>> /\ thr' = "read"
    BY <1>3, GetMessageTakes, Zenon
  <2> QED
    BY <2>1, Zenon DEF Requested
<1>4. CASE messages = <<"READ", "READ", m>>
  <2>1. messages' = <<"READ", m>> /\ thr' = "read"
    BY <1>4, GetMessageTakes, Zenon
  <2> QED
    BY <2>1, Zenon DEF Requested
<1>5. CASE messages = <<"READ", m, "READ">>
  <2>1. messages' = <<m, "READ">> /\ thr' = "read"
    BY <1>5, GetMessageTakes, Zenon
  <2> QED
    BY <2>1, Zenon DEF Requested
<1> QED
  BY <1>1, <1>2, <1>3, <1>4, <1>5, Zenon

\* CdcMessageQueueTryGetMessage keeps the shape: a request is met only when
\* what was posted before it has been taken.
LEMMA GetMessageStep ==
    ASSUME ThreadIInv, GetMessage
    PROVE  QueueShape'
<1>1. QueueShape /\ SemCounts /\ ThreadTypeOK
  BY DEF ThreadIInv, ThreadInv
<1>2. thr = "wait" /\ messages # <<>> /\ ctl' = ctl /\ resetSem' = resetSem
  BY GetMessageTakes
<1>3. messages \in {R, RR} => Reading' /\ messages' \in {<<>>, R}
  BY GetMessageTakes DEF Reading
<1>4. CASE ctl \in {"startType", "idle"}
  <2>1. Undisturbed /\ resetSem = 0
    BY <1>1, <1>4 DEF QueueShape
  <2>2. messages \in {R, RR}
    BY <1>2, <2>1 DEF Undisturbed, Reading
  <2>3. Undisturbed'
    BY <1>3, <2>2 DEF Undisturbed
  <2> QED
    BY <1>2, <1>4, <2>1, <2>3 DEF QueueShape
<1>5. CASE ctl \in {"resetSem", "resetWait"}
  <2>1. \/ Requested("RESET") /\ resetSem = 0
        \/ Answered /\ resetSem = 1
    BY <1>1, <1>2, <1>5 DEF QueueShape, Taken
  <2>2. CASE Requested("RESET") /\ resetSem = 0
    <3>1. Requested("RESET")' \/ Taken({"reset"})'
      BY <2>2, GetMessageRequested
    <3>2. Taken({"reset"})' => Taken({"reset", "reply"})'
      BY DEF Taken
    <3> QED
      BY <1>2, <1>5, <2>2, <3>1, <3>2 DEF QueueShape
  <2>3. CASE Answered /\ resetSem = 1
    <3>1. messages = R
      BY <1>2, <2>3 DEF Answered, Reading
    <3>2. Answered'
      BY <3>1, GetMessageTakes DEF Answered, Reading
    <3> QED
      BY <1>2, <1>5, <2>3, <3>2 DEF QueueShape
  <2> QED
    BY <2>1, <2>2, <2>3
<1>6. CASE ctl = "resetRead"
  <2>1. Answered /\ resetSem = 0
    BY <1>1, <1>6 DEF QueueShape
  <2>2. messages = R
    BY <1>2, <2>1 DEF Answered, Reading
  <2>3. Answered'
    BY <2>2, GetMessageTakes DEF Answered, Reading
  <2> QED
    BY <1>2, <1>6, <2>1, <2>3 DEF QueueShape
<1>7. CASE ctl = "readSem"
  <2>1. Renewed /\ resetSem = 0
    BY <1>1, <1>7 DEF QueueShape
  <2>2. messages \in {R, RR}
    BY <1>2, <2>1 DEF Renewed, Reading
  <2>3. Len(messages) = sem + 1 /\ sem > 0 /\ sem \in Nat
    BY <1>1, <1>2, <1>7, GetMessageTakes DEF SemCounts, ThreadTypeOK
  <2>4. messages = RR
    <3>1. messages = R => Len(messages) = 1
      BY QueueLengths, Zenon
    <3>2. \A n \in Nat : n > 0 => n + 1 # 1
      OBVIOUS
    <3> QED
      BY <2>2, <2>3, <3>1, <3>2, Zenon
  <2>5. Renewed'
    BY <2>4, GetMessageTakes DEF Renewed, Reading
  <2> QED
    BY <1>2, <1>7, <2>1, <2>5 DEF QueueShape
<1>8. CASE ctl \in {"quitSem", "join"}
  <2>1. Requested("QUIT") /\ resetSem = 0
    BY <1>1, <1>2, <1>8 DEF QueueShape, Taken
  <2>2. Requested("QUIT")' \/ Taken({"exited"})'
    BY <2>1, GetMessageRequested
  <2> QED
    BY <1>2, <1>8, <2>1, <2>2 DEF QueueShape
<1>9. ctl \notin {"start", "startSem", "destroyed"}
  <2>1. ctl # "start"
    BY <1>1, <1>2 DEF QueueShape
  <2>2. ctl # "destroyed"
    BY <1>1, <1>2 DEF QueueShape, Taken
  <2>3. ASSUME ctl = "startSem" PROVE FALSE
    <3>1. messages = R
      BY <1>1, <2>3 DEF QueueShape
    <3>2. Len(messages) = sem + 1 /\ sem > 0 /\ sem \in Nat
      BY <1>1, <1>2, <2>3, GetMessageTakes DEF SemCounts, ThreadTypeOK
    <3>3. Len(messages) = 1
      BY <3>1, QueueLengths, Zenon
    <3>4. \A n \in Nat : n > 0 => n + 1 # 1
      OBVIOUS
    <3> QED
      BY <3>2, <3>3, <3>4, Zenon
  <2> QED
    BY <2>1, <2>2, <2>3
<1> QED
  BY <1>1, <1>4, <1>5, <1>6, <1>7, <1>8, <1>9 DEF ThreadTypeOK

\* The rest of ProcessThread keeps the shape.  Its READ comes behind a
\* request only if the thread had counted no message before.
LEMMA ThreadStep ==
    ASSUME ThreadIInv, ReadDone \/ CountMessages \/ PostRead \/ PostReadSem
                 \/ ResetDone \/ ResetReply
    PROVE  QueueShape'
<1> USE DEF ThreadIInv, ThreadInv, mqVars
<1>1. CASE ReadDone
  BY <1>1 DEF ReadDone, QueueShape, Undisturbed, Requested, Taken, Answered,
              Renewed, Reading
<1>2. CASE CountMessages
  <2>1. CASE messages = <<>>
    BY <1>2, <2>1, QueueLengths
    DEF CountMessages, MustPostRead, CdcMessageQueueGetCount, QueueShape,
        Undisturbed, Requested, Taken, Answered, Renewed, Reading, R, RR
  <2>2. CASE messages # <<>>
    <3>1. Len(messages) > 0
      BY <2>2 DEF ThreadTypeOK
    <3> QED
      BY <1>2, <2>2, <3>1
      DEF CountMessages, MustPostRead, CdcMessageQueueGetCount, QueueShape,
          Undisturbed, Requested, Taken, Answered, Renewed, Reading
  <2> QED
    BY <2>1, <2>2
<1>3. CASE PostRead
  <2>1. thr = "post" /\ messages' = Append(messages, "READ") /\ thr' = "sem"
    BY <1>3, RoomToPost
    DEF PostRead, CdcMessageQueuePostMessage, MessageLast, PostsSucceed
  <2>2. UNCHANGED <<ctl, resetSem>>
    BY <1>3 DEF PostRead
  <2> QED
    BY <2>1, <2>2, QueuePosts
    DEF QueueShape, Undisturbed, Requested, Taken, Answered, Renewed,
        Reading, Kinds
<1>4. CASE PostReadSem
  BY <1>4 DEF PostReadSem, SemPost, QueueShape, Undisturbed, Requested,
              Taken, Answered, Renewed, Reading
<1>5. CASE ResetDone
  BY <1>5 DEF ResetDone, QueueShape, Undisturbed, Requested, Taken,
              Answered, Renewed, Reading
<1>6. CASE ResetReply
  BY <1>6 DEF ResetReply, Replied, QueueShape, Undisturbed, Requested,
              Taken, Answered, Renewed, Reading
<1> QED
  BY <1>1, <1>2, <1>3, <1>4, <1>5, <1>6

-----------------------------------------------------------------------------
(* The steps of the control thread. *)

\* SbmFrameInit, SbmFrameReset and SbmFrameDestroy keep the shape.
LEMMA ControlStep ==
    ASSUME ThreadIInv, Control
    PROVE  QueueShape'
<1> USE DEF ThreadIInv, ThreadInv, mqVars
<1>1. ASSUME NEW m, NEW from \in {"start", "idle", "resetRead"}, NEW sending,
             NEW to, Post(from, m, sending, to)
      PROVE  /\ ctl = from /\ ctl' = sending
             /\ messages' = Append(messages, m)
             /\ UNCHANGED <<thr, resetSem>>
  BY <1>1, RoomToPost
  DEF Post, CdcMessageQueuePostMessage, MessageLast, PostsSucceed
<1>2. CASE InitRead
  BY <1>1, <1>2, QueuePosts DEF InitRead, QueueShape
<1>3. CASE InitReadSem
  BY <1>3 DEF InitReadSem, PostSem, SemPost, QueueShape, Undisturbed
<1>4. CASE InitDone
  BY <1>4 DEF InitDone, QueueShape, Undisturbed, Reading
<1>5. CASE PostReset
  <2>1. /\ ctl = "idle" /\ ctl' = "resetSem"
        /\ messages' = Append(messages, "RESET")
        /\ UNCHANGED <<thr, resetSem>>
    BY <1>1, <1>5 DEF PostReset
  <2>2. Undisturbed /\ resetSem = 0
    BY <2>1 DEF QueueShape
  <2>3. Requested("RESET")'
    BY <2>1, <2>2, QueuePosts DEF Undisturbed, Requested, Reading, Kinds
  <2> QED
    BY <2>1, <2>2, <2>3 DEF QueueShape
<1>6. CASE PostResetSem
  BY <1>6 DEF PostResetSem, PostSem, SemPost, QueueShape, Requested, Taken,
              Answered, Reading
<1>7. CASE ResetWait
  BY <1>7 DEF ResetWait, QueueShape, Answered, Reading
<1>8. CASE ResetRead
  BY <1>1, <1>8, QueuePosts
  DEF ResetRead, QueueShape, Answered, Renewed, Reading
<1>9. CASE ResetReadSem
  BY <1>9 DEF ResetReadSem, PostSem, SemPost, QueueShape, Renewed,
              Undisturbed, Reading
<1>10. CASE PostQuit
  BY <1>1, <1>10, QueuePosts
  DEF PostQuit, QueueShape, Undisturbed, Requested, Reading, Kinds
<1>11. CASE PostQuitSem
  BY <1>11 DEF PostQuitSem, PostSem, SemPost, QueueShape, Requested, Taken
<1>12. CASE Join
  BY <1>12 DEF Join, QueueShape, Requested, Taken
<1> QED
  BY <1>2, <1>3, <1>4, <1>5, <1>6, <1>7, <1>8, <1>9, <1>10, <1>11, <1>12
  DEF Control

-----------------------------------------------------------------------------
(* The semaphore. *)

\* Every step keeps the semaphore in line with the queue, and the types.
LEMMA SemStep ==
    ASSUME ThreadIInv, Detector \/ Control
    PROVE  SemCounts' /\ ThreadTypeOK'
<1> USE DEF ThreadIInv, ThreadInv, mqVars, ThreadTypeOK, SemCounts
<1>1. CASE GetMessage
  BY <1>1 DEF GetMessage, CdcMessageQueueTryGetMessage
<1>2. CASE ReadDone \/ ResetDone \/ InitDone \/ Join
  BY <1>2 DEF ReadDone, ResetDone, InitDone, Join
<1>3. CASE CountMessages
  BY <1>3 DEF CountMessages
<1>4. CASE PostRead
  BY <1>4, RoomToPost
  DEF PostRead, CdcMessageQueuePostMessage, MessageLast, PostsSucceed
<1>5. CASE PostReadSem
  BY <1>5 DEF PostReadSem, SemPost
<1>6. CASE ResetReply
  <2>1. resetSem = 0
    BY <1>6 DEF ResetReply, QueueShape, Undisturbed, Requested, Taken,
                Answered, Renewed, Reading
  <2> QED
    BY <1>6, <2>1 DEF ResetReply, Replied
<1>7. ASSUME NEW m \in {"READ", "RESET", "QUIT"},
             NEW from \in {"start", "idle", "resetRead"},
             NEW sending \in {"startSem", "resetSem", "readSem", "quitSem"},
             NEW to, Post(from, m, sending, to)
      PROVE  SemCounts' /\ ThreadTypeOK'
  BY <1>7, RoomToPost
  DEF Post, CdcMessageQueuePostMessage, MessageLast, PostsSucceed
<1>8. ASSUME NEW sending \in {"startSem", "resetSem", "readSem", "quitSem"},
             NEW to \in {"startType", "idle", "resetWait", "join"},
             PostSem(sending, to)
      PROVE  SemCounts' /\ ThreadTypeOK'
  BY <1>8 DEF PostSem, SemPost
<1>9. CASE InitRead \/ PostReset \/ ResetRead \/ PostQuit
  BY <1>7, <1>9 DEF InitRead, PostReset, ResetRead, PostQuit
<1>10. CASE InitReadSem \/ PostResetSem \/ ResetReadSem \/ PostQuitSem
  BY <1>8, <1>10 DEF InitReadSem, PostResetSem, ResetReadSem, PostQuitSem
<1>11. CASE ResetWait
  BY <1>11 DEF ResetWait
<1> QED
  BY <1>1, <1>2, <1>3, <1>4, <1>5, <1>6, <1>9, <1>10, <1>11
  DEF Detector, Control

\* The invariant is inductive.
LEMMA StepThreadIInv == ThreadIInv /\ [ThreadNext]_threadVars => ThreadIInv'
<1> SUFFICES ASSUME ThreadIInv, [ThreadNext]_threadVars PROVE ThreadIInv'
  OBVIOUS
<1>1. CASE Detector
  BY <1>1, GetMessageStep, ThreadStep, SemStep
  DEF Detector, ThreadIInv, ThreadInv
<1>2. CASE Control
  BY <1>2, ControlStep, SemStep DEF ThreadIInv, ThreadInv
<1>3. CASE UNCHANGED threadVars
  BY <1>3
  DEF threadVars, mqVars, ThreadIInv, ThreadInv, ThreadTypeOK, SemCounts,
      QueueShape, Undisturbed, Requested, Taken, Answered, Renewed, Reading
<1> QED
  BY <1>1, <1>2, <1>3 DEF ThreadNext, Destroyed

\* So it always holds.
LEMMA ThreadIInvAlways == ThreadSpec => []ThreadIInv
  BY InitThreadIInv, StepThreadIInv, PTL DEF ThreadSpec

-----------------------------------------------------------------------------
\* The variables of the detector thread, its queue and the control calls
\* keep their types, for every size of the queue.
THEOREM ThreadTypes == ThreadSpec => []ThreadTypeOK
<1>1. ThreadIInv => ThreadTypeOK
  BY DEF ThreadIInv
<1> QED
  BY <1>1, ThreadIInvAlways, PTL

\* The queue has the shape that the points of ProcessThread, SbmFrameReset
\* and SbmFrameDestroy allow, and the semaphore counts it.
THEOREM ThreadQueueShape == ThreadSpec => []ThreadInv
<1>1. ThreadIInv => ThreadInv
  BY DEF ThreadIInv
<1> QED
  BY <1>1, ThreadIInvAlways, PTL

\* No message of SbmFrameInit, SbmFrameReset, SbmFrameDestroy and
\* ProcessThread is lost for want of room in the queue.
THEOREM ThreadPostsSucceed == ThreadSpec => []PostsSucceed
  BY RoomToPost, ThreadIInvAlways, PTL

\* However resets race with the thread's test for an empty queue, a READ is
\* under way or waits once no call is under way.
THEOREM ThreadReadAlive == ThreadSpec => []ReadAlive
<1>1. ThreadIInv => ReadAlive
  <2> SUFFICES ASSUME ThreadIInv, ctl = "idle", ~Reading
               PROVE  "READ" \in Posted
    BY DEF ReadAlive, Reading
  <2>1. messages = R \/ messages = RR
    BY DEF ThreadIInv, ThreadInv, QueueShape, Undisturbed
  <2>2. 1 \in 1 .. Len(messages) /\ messages[1] = "READ"
    BY <2>1 DEF R, RR
  <2> QED
    BY <2>2 DEF Posted
<1> QED
  BY <1>1, ThreadIInvAlways, PTL

\* A SbmFrameReset that has been answered leaves nothing behind, neither
\* its RESET in the queue nor an answer that the next one would take for
\* its own.
THEOREM ThreadResetCarriedOut == ThreadSpec => []ResetCarriedOut
<1>1. ThreadIInv => ResetCarriedOut
  <2> SUFFICES ASSUME ThreadIInv PROVE ResetCarriedOut
    OBVIOUS
  <2> USE DEF ThreadIInv, ThreadInv
  <2>1. ASSUME messages \in {<<>>, R, RR, <<"QUIT">>, <<"READ", "QUIT">>,
                             <<"QUIT", "READ">>, <<"READ", "READ", "QUIT">>,
                             <<"READ", "QUIT", "READ">>}
        PROVE  "RESET" \notin Posted
    <3>1. ASSUME NEW i \in 1 .. Len(messages) PROVE messages[i] # "RESET"
      BY <2>1, <3>1 DEF R, RR
    <3> QED
      BY <3>1 DEF Posted
  <2>2. CASE ctl \notin {"resetSem", "resetWait"}
    <3>1. messages \in {<<>>, R, RR, <<"QUIT">>, <<"READ", "QUIT">>,
                        <<"QUIT", "READ">>, <<"READ", "READ", "QUIT">>,
                        <<"READ", "QUIT", "READ">>}
      BY <2>2 DEF QueueShape, Undisturbed, Requested, Taken, Answered,
                  Renewed
    <3>2. resetSem = 0 /\ thr \notin {"reset", "reply"}
      BY <2>2 DEF QueueShape, Undisturbed, Requested, Taken, Answered,
                  Renewed, Reading
    <3> QED
      BY <2>1, <2>2, <3>1, <3>2 DEF ResetCarriedOut
  <2>3. CASE ctl \in {"resetSem", "resetWait"}
    <3>1. resetSem = 1 => Answered
      BY <2>3 DEF QueueShape
    <3>2. Answered => messages \in {<<>>, R} /\ thr \notin {"reset", "reply"}
      BY DEF Answered, Reading
    <3> QED
      BY <2>1, <2>3, <3>1, <3>2 DEF ResetCarriedOut
  <2> QED
    BY <2>2, <2>3
<1> QED
  BY <1>1, ThreadIInvAlways, PTL
=============================================================================
